------------------------ MODULE PassManager_proofs ------------------------
(***************************************************************************)
(* What optimizeProgram keeps, for every program and every cap: each       *)
(* program on the way is one that code generation can take, and what the   *)
(* manager found out before the first pass stays true.                     *)
(*                                                                         *)
(* The passes are functions from instruction lists to instruction lists;   *)
(* what they keep is in Passes_proofs, for any set of instructions a       *)
(* Context allows.  Here the context is the one a function has in its      *)
(* program: it calls, stores and loads nothing that was not there before.  *)
(***************************************************************************)
EXTENDS PassManager, Passes_proofs, FiniteSetTheorems

StoresGlobal(fn) == \E n \in DOMAIN fn.body : fn.body[n].op = "StoreGlobal"

InstructionsIn(p) ==
    UNION {{p.functions[k].body[n] : n \in DOMAIN p.functions[k].body} : k \in DOMAIN p.functions}
LoadedIn(p) == {i.name : i \in {j \in InstructionsIn(p) : j.op = "LoadGlobal"}}
NamesIn(p) == {""} \cup {i.name : i \in InstructionsIn(p)}
LabelsIn(p) ==
    {NoLabel, TailEntry} \cup {Continuation(j) : j \in Nat}
      \cup {InlinedLabel(j, n) : j \in Nat, n \in Nat}
      \cup {i.label : i \in InstructionsIn(p)} \cup {i.falseLabel : i \in InstructionsIn(p)}

\* What passes find when they work on fn in the program p.
Context(p, fn, values, stores) ==
    [values |-> values, stores |-> stores, loads |-> LoadedIn(p), names |-> NamesIn(p),
     labels |-> LabelsIn(p), arity |-> [g \in Callees(fn) |-> Arity(p)[g]]]

LEMMA ContextIs ==
    ASSUME NEW p, NEW fn, NEW values, NEW stores \in BOOLEAN,
           Words \subseteq values, values \subseteq Constants
    PROVE  LET c == Context(p, fn, values, stores)
           IN  /\ IsContext(c)
               /\ c = [values |-> c.values, stores |-> c.stores, loads |-> c.loads, names |-> c.names,
                       labels |-> c.labels, arity |-> c.arity]
               /\ c.values = values /\ c.stores = stores /\ c.loads = LoadedIn(p)
               /\ c.names = NamesIn(p) /\ c.labels = LabelsIn(p)
               /\ DOMAIN c.arity = Callees(fn) /\ \A g \in Callees(fn) : c.arity[g] = Arity(p)[g]
               /\ TailEntry \in c.labels
               /\ \A k, j \in Nat : InlinedLabel(k, j) \in c.labels
               /\ \A k \in Nat : Continuation(k) \in c.labels
<1> DEFINE c == Context(p, fn, values, stores)
<1>1. /\ c.values = values /\ c.stores = stores /\ c.loads = LoadedIn(p)
      /\ c.names = NamesIn(p) /\ c.labels = LabelsIn(p)
      /\ DOMAIN c.arity = Callees(fn) /\ \A g \in Callees(fn) : c.arity[g] = Arity(p)[g]
      /\ c = [values |-> c.values, stores |-> c.stores, loads |-> c.loads, names |-> c.names,
              labels |-> c.labels, arity |-> c.arity]
  BY DEF Context
<1> HIDE DEF c
<1>2. "" \in c.names
  BY <1>1 DEF NamesIn
<1>3. /\ NoLabel \in c.labels /\ TailEntry \in c.labels
      /\ \A k, j \in Nat : InlinedLabel(k, j) \in c.labels
      /\ \A k \in Nat : Continuation(k) \in c.labels
  BY <1>1 DEF LabelsIn
<1>4. IsContext(c)
  BY <1>1, <1>2, <1>3 DEF IsContext, Constants
<1>5. QED
  BY <1>1, <1>3, <1>4 DEF c

LEMMA ListIs == ASSUME NEW S, NEW s \in Seq(S) PROVE IsList(s) /\ \A k \in DOMAIN s : s[k] \in S
<1> DEFINE T == {s[k] : k \in DOMAIN s}
<1>1. Len(s) \in Nat /\ s \in [1 .. Len(s) -> S]
  OBVIOUS
<1>2. s \in [1 .. Len(s) -> T]
  BY <1>1
<1> HIDE DEF T
<1>3. s \in Seq(T)
  BY <1>1, <1>2
<1>4. QED
  BY <1>1, <1>3 DEF IsList, T

\* A list of things that are all in S.
LEMMA ListOf == ASSUME NEW S, NEW s, IsList(s), \A k \in DOMAIN s : s[k] \in S PROVE s \in Seq(S)
<1> DEFINE T == {s[k] : k \in DOMAIN s}
<1>1. s \in Seq(T)
  BY DEF IsList
<1>2. T \subseteq S
  OBVIOUS
<1> HIDE DEF T
<1>3. QED
  BY <1>1, <1>2

LEMMA InstructionIs ==
    ASSUME NEW c, NEW i
    PROVE  /\ i \in Instructions(c) => IsInstruction(i)
           /\ (/\ IsInstruction(i) /\ i.name \in c.names
               /\ i.label \in c.labels /\ i.falseLabel \in c.labels) => i \in Instructions(c)
<1>1. i \in Instructions(c) => IsInstruction(i)
  BY DEF Instructions, IsInstruction, Constants
<1>2. ASSUME IsInstruction(i), i.name \in c.names, i.label \in c.labels, i.falseLabel \in c.labels
      PROVE  i \in Instructions(c)
  <2> DEFINE O == {"Label", "Goto", "Branch", "Const", "Move", "LoadGlobal", "StoreGlobal", "Unary",
                   "Binary", "Call", "Return", "ReturnVoid"}
             V == Words \cup {Undef}
             P == UnaryOpers \cup BinaryOpers
             A == Seq(Int)
             N == c.names
             L == c.labels
  <2>1. /\ i = [op |-> i.op, dest |-> i.dest, lhs |-> i.lhs, rhs |-> i.rhs, value |-> i.value,
                oper |-> i.oper, label |-> i.label, falseLabel |-> i.falseLabel, name |-> i.name,
                args |-> i.args]
        /\ i.op \in O /\ i.dest \in Int /\ i.lhs \in Int /\ i.rhs \in Int /\ i.value \in V
        /\ i.oper \in P /\ i.args \in A /\ i.name \in N /\ i.label \in L /\ i.falseLabel \in L
    BY <1>2 DEF IsInstruction
  <2>2. Instructions(c) = [op : O, dest : Int, lhs : Int, rhs : Int, value : V, oper : P,
                           label : L, falseLabel : L, name : N, args : A]
    BY DEF Instructions, Constants
  <2> HIDE DEF O, V, P, A, N, L
  <2>3. QED
    BY <2>1, <2>2
<1>3. QED
  BY <1>1, <1>2

-----------------------------------------------------------------------------
(* The functions of a program. *)

LEMMA NamedIs ==
    ASSUME NEW p, IsProgram(p)
    PROVE  /\ \A k \in DOMAIN p.functions : /\ FunctionNamed(p, p.functions[k].name) = p.functions[k]
                                            /\ p.functions[k].name \in FunctionNames(p)
           /\ \A f \in FunctionNames(p) : \E k \in DOMAIN p.functions :
                 p.functions[k].name = f /\ FunctionNamed(p, f) = p.functions[k]
<1>1. ASSUME NEW k \in DOMAIN p.functions
      PROVE  FunctionNamed(p, p.functions[k].name) = p.functions[k]
  <2> DEFINE j == CHOOSE j \in DOMAIN p.functions : p.functions[j].name = p.functions[k].name
  <2>1. j \in DOMAIN p.functions /\ p.functions[j].name = p.functions[k].name
    OBVIOUS
  <2> HIDE DEF j
  <2>2. j = k
    BY <2>1 DEF IsProgram
  <2>3. QED
    BY <2>2 DEF FunctionNamed, j
<1>2. QED
  BY <1>1 DEF FunctionNames

\* A function calls what is there, with the arguments that takes.
LEMMA CallsAre ==
    ASSUME NEW p, IsProgram(p), NEW k \in DOMAIN p.functions
    PROVE  /\ Callees(p.functions[k]) \subseteq FunctionNames(p)
           /\ \A n \in DOMAIN p.functions[k].body :
                 p.functions[k].body[n].op = "Call"
                   => /\ p.functions[k].body[n].name \in Callees(p.functions[k])
                      /\ Len(p.functions[k].body[n].args)
                           = Len(FunctionNamed(p, p.functions[k].body[n].name).params)
<1> DEFINE fn == p.functions[k]
<1>1. \A n \in DOMAIN fn.body : FitsFrame(fn.body[n], fn.slotCount, Arity(p))
  BY DEF IsProgram, IsFunction
<1>2. ASSUME NEW n \in DOMAIN fn.body, fn.body[n].op = "Call"
      PROVE  /\ fn.body[n].name \in FunctionNames(p) /\ fn.body[n].name \in Callees(fn)
             /\ Len(fn.body[n].args) = Len(FunctionNamed(p, fn.body[n].name).params)
  <2>1. /\ fn.body[n].name \in DOMAIN Arity(p)
        /\ Len(fn.body[n].args) = Arity(p)[fn.body[n].name]
    BY <1>1, <1>2 DEF FitsFrame
  <2>2. DOMAIN Arity(p) = FunctionNames(p)
    BY DEF Arity
  <2>3. QED
    BY <1>2, <2>1, <2>2 DEF Arity, Callees
<1>3. \A g \in Callees(fn) : g \in FunctionNames(p)
  BY <1>2 DEF Callees
<1>4. QED
  BY <1>2, <1>3

\* A function of the program is a version of itself in any context that lets it store
\* what it stores.
LEMMA WordsOfProgram ==
    ASSUME NEW p, NEW k \in DOMAIN p.functions, NEW n \in DOMAIN p.functions[k].body
    PROVE  LET i == p.functions[k].body[n]
           IN  /\ i.name \in NamesIn(p) /\ i.label \in LabelsIn(p) /\ i.falseLabel \in LabelsIn(p)
               /\ i.op = "LoadGlobal" => i.name \in LoadedIn(p)
<1> DEFINE fs == p.functions
           In(j) == {fs[j].body[m] : m \in DOMAIN fs[j].body}
           i == fs[k].body[n]
<1>1. i \in In(k)
  OBVIOUS
<1>2. InstructionsIn(p) = UNION {In(j) : j \in DOMAIN fs}
  BY DEF InstructionsIn
<1> HIDE DEF In, i
<1>3. i \in InstructionsIn(p)
  BY <1>1, <1>2
<1>4. i.name \in NamesIn(p) /\ i.label \in LabelsIn(p) /\ i.falseLabel \in LabelsIn(p)
  <2> DEFINE Is == InstructionsIn(p)
             Ours == {NoLabel, TailEntry} \cup {Continuation(j) : j \in Nat}
                       \cup {InlinedLabel(j, l) : j \in Nat, l \in Nat}
  <2>1. /\ NamesIn(p) = {""} \cup {h.name : h \in Is}
        /\ LabelsIn(p) = Ours \cup {h.label : h \in Is} \cup {h.falseLabel : h \in Is}
    BY DEF NamesIn, LabelsIn
  <2>2. i \in Is
    BY <1>3
  <2> HIDE DEF Is, Ours
  <2>3. QED
    BY <2>1, <2>2
<1>5. i.op = "LoadGlobal" => i.name \in LoadedIn(p)
  BY <1>3 DEF LoadedIn
<1>6. QED
  BY <1>4, <1>5 DEF i

LEMMA FunctionIsVersion ==
    ASSUME NEW p, IsProgram(p), NEW k \in DOMAIN p.functions, ~Stopped(p.functions[k]),
           NEW values, NEW stores \in BOOLEAN, Words \subseteq values, values \subseteq Constants,
           StoresGlobal(p.functions[k]) => stores
    PROVE  LET fn == p.functions[k]
           IN  /\ fn \in Versions(Context(p, fn, values, stores), fn)
               /\ fn.slotCount \in Nat /\ fn.params \in Seq(Slots(fn.slotCount))
               /\ fn.body \in Seq(Code(Context(p, fn, values, stores), fn.slotCount))
<1> DEFINE fn == p.functions[k]
           c == Context(p, fn, values, stores)
           m == fn.slotCount
           body == fn.body
<1>1. IsFunction(fn, Arity(p))
  BY DEF IsProgram
<1>2. m \in Nat /\ fn.params \in Seq(Slots(m)) /\ IsList(body)
  BY <1>1 DEF IsFunction, Slots
<1>3. /\ c.values = values /\ c.stores = stores /\ c.loads = LoadedIn(p)
      /\ c.names = NamesIn(p) /\ c.labels = LabelsIn(p)
      /\ DOMAIN c.arity = Callees(fn) /\ \A g \in Callees(fn) : c.arity[g] = Arity(p)[g]
  BY ContextIs
<1> HIDE DEF c
<1>4. ASSUME NEW n \in DOMAIN body PROVE body[n] \in Code(c, m)
  <2> DEFINE i == body[n]
  <2>1. IsInstruction(i) /\ FitsFrame(i, m, Arity(p))
    BY <1>1 DEF IsFunction
  <2>2. /\ i.name \in NamesIn(p) /\ i.label \in LabelsIn(p) /\ i.falseLabel \in LabelsIn(p)
        /\ i.op = "LoadGlobal" => i.name \in LoadedIn(p)
    BY WordsOfProgram
  <2>4. i \in Instructions(c)
    BY <1>3, <2>1, <2>2, InstructionIs
  <2>5. i.op = "Call" => i.name \in Callees(fn)
    BY <1>4 DEF Callees
  <2>6. i.op = "StoreGlobal" => stores
    BY <1>4 DEF StoresGlobal
  <2>7. i.op = "Const" => i.value \in Words
    <3>1. i.op = "Const" => i.value # Undef
      BY <1>4 DEF Stopped
    <3>2. i.value \in Constants
      BY <2>1 DEF IsInstruction, Constants
    <3>3. QED
      BY <3>1, <3>2 DEF Constants
  <2>8. FitsFrame(i, m, c.arity)
    BY <1>3, <2>1, <2>5 DEF FitsFrame
  <2> HIDE DEF i
  <2>9. QED
    BY <1>3, <2>2, <2>4, <2>6, <2>7, <2>8 DEF Code, i
<1>5. body \in Seq(Code(c, m))
  BY <1>2, <1>4, ListOf
<1>6. fn \in Versions(c, fn)
  <2>1. body \in Seq(Instructions(c))
    BY <1>5, CodeIsInstructions
  <2>2. fn = [name |-> fn.name, params |-> fn.params, slotCount |-> fn.slotCount,
              named |-> fn.named, body |-> fn.body]
    BY <1>1 DEF IsFunction
  <2> HIDE DEF fn
  <2>3. fn \in [name : {fn.name}, params : {fn.params}, slotCount : Nat, named : {fn.named},
                body : Seq(Instructions(c))]
    BY <1>2, <2>1, <2>2
  <2>4. m =< m
    BY <1>2
  <2>5. QED
    BY <1>5, <2>3, <2>4 DEF Versions
<1>7. QED
  BY <1>2, <1>5, <1>6 DEF c

\* And a version of it could stand in its place.
LEMMA VersionIsFunction ==
    ASSUME NEW p, IsProgram(p), NEW k \in DOMAIN p.functions,
           NEW values, NEW stores \in BOOLEAN, Words \subseteq values, values \subseteq Constants,
           NEW f \in Versions(Context(p, p.functions[k], values, stores), p.functions[k])
    PROVE  /\ IsFunction(f, Arity(p)) /\ f.name = p.functions[k].name
           /\ f.params = p.functions[k].params
           /\ Callees(f) \subseteq Callees(p.functions[k])
           /\ StoresGlobal(f) => stores
           /\ \A n \in DOMAIN f.body : f.body[n].op = "LoadGlobal" => f.body[n].name \in LoadedIn(p)
<1> DEFINE fn == p.functions[k]
           c == Context(p, fn, values, stores)
           m == f.slotCount
           body == f.body
<1>1. IsFunction(fn, Arity(p))
  BY DEF IsProgram
<1>2. /\ c.values = values /\ c.stores = stores /\ c.loads = LoadedIn(p)
      /\ DOMAIN c.arity = Callees(fn) /\ \A g \in Callees(fn) : c.arity[g] = Arity(p)[g]
  BY ContextIs
<1>3. f \in Versions(c, fn)
  OBVIOUS
<1> HIDE DEF c
<1>4. /\ f = [name |-> f.name, params |-> f.params, slotCount |-> f.slotCount,
              named |-> f.named, body |-> f.body]
      /\ f.name = fn.name /\ f.params = fn.params /\ f.named = fn.named
      /\ m \in Nat /\ fn.slotCount =< m
      /\ body \in Seq(Code(c, m))
  BY <1>3 DEF Versions
<1>5. f.params \in Seq(0 .. m - 1) /\ f.named \in Seq(0 .. m - 1)
  <2>1. /\ fn.slotCount \in Nat
        /\ fn.params \in Seq(0 .. fn.slotCount - 1) /\ fn.named \in Seq(0 .. fn.slotCount - 1)
    BY <1>1 DEF IsFunction
  <2>2. 0 .. fn.slotCount - 1 \subseteq 0 .. m - 1
    BY <1>4, <2>1
  <2>3. QED
    BY <1>4, <2>1, <2>2
<1>6. IsList(body) /\ \A n \in DOMAIN body : body[n] \in Code(c, m)
  BY <1>4, ListIs
<1>7. Callees(fn) \subseteq DOMAIN Arity(p)
  <2>1. DOMAIN Arity(p) = FunctionNames(p)
    BY DEF Arity
  <2>2. QED
    BY <2>1, CallsAre
<1>8. ASSUME NEW n \in DOMAIN body
      PROVE  /\ IsInstruction(body[n]) /\ FitsFrame(body[n], m, Arity(p))
             /\ body[n].op = "Call" => body[n].name \in Callees(fn)
             /\ body[n].op = "StoreGlobal" => stores
             /\ body[n].op = "LoadGlobal" => body[n].name \in LoadedIn(p)
  <2> DEFINE i == body[n]
  <2>1. /\ i \in Instructions(c) /\ FitsFrame(i, m, c.arity)
        /\ i.op = "StoreGlobal" => c.stores
        /\ i.op = "LoadGlobal" => i.name \in c.loads
    BY <1>6 DEF Code
  <2> HIDE DEF i
  <2>2. IsInstruction(i)
    BY <2>1, InstructionIs
  <2>3. i.op = "Call" => i.name \in Callees(fn)
    BY <1>2, <2>1 DEF FitsFrame
  <2>4. FitsFrame(i, m, Arity(p))
    BY <1>2, <1>7, <2>1 DEF FitsFrame
  <2>5. QED
    BY <1>2, <2>1, <2>2, <2>3, <2>4 DEF i
<1>9. IsFunction(f, Arity(p))
  BY <1>4, <1>5, <1>6, <1>8 DEF IsFunction
<1>10. Callees(f) \subseteq Callees(fn)
  <2>1. \A g \in Callees(f) : \E n \in DOMAIN body : body[n].op = "Call" /\ g = body[n].name
    BY DEF Callees
  <2>2. QED
    BY <1>8, <2>1
<1>11. StoresGlobal(f) => stores
  BY <1>8 DEF StoresGlobal
<1>12. QED
  BY <1>4, <1>8, <1>9, <1>10, <1>11

\* One function replaced by another of its name.
LEMMA Replaced ==
    ASSUME NEW p, IsProgram(p), NEW k \in DOMAIN p.functions, NEW f,
           IsFunction(f, Arity(p)), f.name = p.functions[k].name, f.params = p.functions[k].params
    PROVE  LET q == [p EXCEPT !.functions[k] = f]
           IN  /\ IsProgram(q) /\ FunctionNames(q) = FunctionNames(p)
               /\ DOMAIN q.functions = DOMAIN p.functions /\ Len(q.functions) = Len(p.functions)
               /\ q.functions[k] = f
               /\ \A j \in DOMAIN p.functions : j # k => q.functions[j] = p.functions[j]
               /\ \A g \in FunctionNames(p) :
                     FunctionNamed(q, g) = IF g = f.name THEN f ELSE FunctionNamed(p, g)
<1> DEFINE q == [p EXCEPT !.functions[k] = f]
           S == {p.functions[j] : j \in DOMAIN p.functions}
<1>1. p = [functions |-> p.functions] /\ p.functions \in Seq(S)
  BY DEF IsProgram, IsList
<1>2. q = [functions |-> [p.functions EXCEPT ![k] = f]]
  BY <1>1
<1>3. /\ q = [functions |-> q.functions]
      /\ DOMAIN q.functions = DOMAIN p.functions
      /\ q.functions[k] = f
      /\ \A j \in DOMAIN p.functions : j # k => q.functions[j] = p.functions[j]
  BY <1>2
<1>4. q.functions \in Seq(S \cup {f}) /\ Len(q.functions) = Len(p.functions)
  <2>1. p.functions \in Seq(S \cup {f})
    BY <1>1
  <2> HIDE DEF S
  <2>2. [p.functions EXCEPT ![k] = f] \in Seq(S \cup {f}) /\ Len([p.functions EXCEPT ![k] = f]) = Len(p.functions)
    BY <2>1
  <2>3. QED
    BY <1>2, <2>2
<1> HIDE DEF q, S
<1>5. IsList(q.functions)
  BY <1>4, ListIs
<1>6. \A j \in DOMAIN p.functions : q.functions[j].name = p.functions[j].name /\ q.functions[j].params = p.functions[j].params
  BY <1>3
<1>7. FunctionNames(q) = FunctionNames(p)
  BY <1>3, <1>6 DEF FunctionNames
<1>8. ASSUME NEW g \in FunctionNames(p)
      PROVE  /\ FunctionNamed(q, g) = IF g = f.name THEN f ELSE FunctionNamed(p, g)
             /\ FunctionNamed(q, g).params = FunctionNamed(p, g).params
  <2>1. PICK j \in DOMAIN p.functions : p.functions[j].name = g /\ FunctionNamed(p, g) = p.functions[j]
    BY NamedIs
  <2> DEFINE l == CHOOSE l \in DOMAIN q.functions : q.functions[l].name = g
  <2>2. l \in DOMAIN q.functions /\ q.functions[l].name = g
    BY <1>3, <1>6, <2>1
  <2>3. FunctionNamed(q, g) = q.functions[l]
    BY DEF FunctionNamed
  <2> HIDE DEF l
  <2>4. l = j
    BY <1>3, <1>6, <2>1, <2>2 DEF IsProgram
  <2>5. g = f.name <=> j = k
    BY <2>1 DEF IsProgram
  <2>6. QED
    BY <1>3, <1>6, <2>1, <2>3, <2>4, <2>5
<1>9. Arity(q) = Arity(p)
  BY <1>7, <1>8 DEF Arity
<1>10. \A j \in DOMAIN q.functions : IsFunction(q.functions[j], Arity(q))
  <2>1. TAKE j \in DOMAIN q.functions
  <2>2. CASE j = k
    BY <1>3, <1>9, <2>2
  <2>3. CASE j # k
    BY <1>3, <1>9, <2>3 DEF IsProgram
  <2>4. QED
    BY <2>2, <2>3
<1>11. \A i, j \in DOMAIN q.functions : q.functions[i].name = q.functions[j].name => i = j
  BY <1>3, <1>6 DEF IsProgram
<1>12. IsProgram(q)
  BY <1>3, <1>5, <1>7, <1>10, <1>11 DEF IsProgram
<1>13. QED
  BY <1>3, <1>4, <1>7, <1>8, <1>12 DEF q

-----------------------------------------------------------------------------
(* Repetitions that come to rest. *)

\* Growing sets that stay put once two in a row are equal fill U or rest, if there
\* are as many steps as U has elements.
LEMMA Rests ==
    ASSUME NEW U, IsFiniteSet(U), NEW n \in Nat, Cardinality(U) =< n, NEW y \in [0 .. n -> SUBSET U],
           \A k \in 1 .. n : y[k - 1] \subseteq y[k],
           \A k \in 1 .. n : y[k] = y[k - 1] /\ k < n => y[k + 1] = y[k]
    PROVE  y[n] = U \/ (n > 0 /\ y[n] = y[n - 1])
<1> DEFINE T == {k \in Nat : k =< n => \/ Cardinality(y[k]) >= k
                                       \/ k > 0 /\ y[k] = y[k - 1]}
<1>1. \A k \in 0 .. n : IsFiniteSet(y[k]) /\ Cardinality(y[k]) \in Nat
  BY FS_Subset, FS_CardinalityType
<1>2. 0 \in T
  <2>1. 0 \in 0 .. n
    OBVIOUS
  <2>2. Cardinality(y[0]) \in Nat
    BY <1>1, <2>1
  <2>3. QED
    BY <2>2
<1>3. ASSUME NEW k \in Nat, k \in T PROVE k + 1 \in T
  <2>1. SUFFICES ASSUME k + 1 =< n
                 PROVE  Cardinality(y[k + 1]) >= k + 1 \/ y[k + 1] = y[k]
    OBVIOUS
  <2>2. k \in 0 .. n /\ k + 1 \in 1 .. n /\ k + 1 \in 0 .. n /\ (k + 1) - 1 = k
    BY <2>1
  <2>3. y[k] \subseteq y[k + 1]
    BY <2>2
  <2>4. CASE Cardinality(y[k]) >= k
    <3>1. SUFFICES ASSUME y[k + 1] # y[k] PROVE Cardinality(y[k + 1]) >= k + 1
      OBVIOUS
    <3>2. /\ Cardinality(y[k]) =< Cardinality(y[k + 1])
          /\ Cardinality(y[k]) # Cardinality(y[k + 1])
      BY <1>1, <2>2, <2>3, <3>1, FS_Subset
    <3>3. Cardinality(y[k]) \in Nat /\ Cardinality(y[k + 1]) \in Nat
      BY <1>1, <2>2
    <3>4. QED
      BY <2>4, <3>2, <3>3
  <2>5. CASE k > 0 /\ y[k] = y[k - 1]
    <3>1. k \in 1 .. n /\ k < n
      BY <2>1, <2>5
    <3>2. QED
      BY <2>5, <3>1
  <2>6. QED
    BY <1>3, <2>2, <2>4, <2>5
<1>4. n \in T
  <2> HIDE DEF T
  <2>1. QED
    BY <1>2, <1>3, Induction
<1>5. CASE Cardinality(y[n]) >= n
  <2>1. n \in 0 .. n
    OBVIOUS
  <2>2. y[n] \in SUBSET U /\ Cardinality(y[n]) \in Nat
    BY <1>1, <2>1
  <2>3. Cardinality(y[n]) =< Cardinality(U) /\ Cardinality(U) \in Nat
    BY <2>2, FS_Subset, FS_CardinalityType
  <2>4. Cardinality(y[n]) = Cardinality(U)
    BY <1>5, <2>2, <2>3
  <2>5. QED
    BY <2>2, <2>4, FS_Subset
<1>6. QED
  BY <1>4, <1>5

\* One round of Saturate, from u to v.
Saturates(u, v, G) ==
    IF u.stable THEN v = u ELSE v.x = G[u.x] /\ (v.stable <=> v.x = u.x)

Saturation(run, n, U, G) ==
    /\ n \in Nat /\ IsFiniteSet(U) /\ Cardinality(U) =< n
    /\ G \in [SUBSET U -> SUBSET U]
    /\ (\A S \in SUBSET U : S \subseteq G[S]) \/ (\A S \in SUBSET U : G[S] \subseteq S)
    /\ ~run[0].stable
    /\ \A k \in 0 .. n : run[k] \in [x : SUBSET U, stable : BOOLEAN]
    /\ \A k \in 1 .. n : Saturates(run[k - 1], run[k], G)

\* What Saturate makes of a set, if a round only ever adds, or only ever takes away.
LEMMA Saturated ==
    ASSUME NEW run, NEW n, NEW U, NEW G, Saturation(run, n, U, G)
    PROVE  G[run[n].x] = run[n].x
<1> USE DEF Saturation, Saturates
<1> DEFINE Grows == \A S \in SUBSET U : S \subseteq G[S]
           y == [k \in 0 .. n |-> IF Grows THEN run[k].x ELSE U \ run[k].x]
           T == {k \in Nat : k =< n => (run[k].stable => G[run[k].x] = run[k].x)}
<1>1. 0 \in T
  OBVIOUS
<1>2. ASSUME NEW k \in Nat, k \in T PROVE k + 1 \in T
  <2>1. SUFFICES ASSUME k + 1 =< n, run[k + 1].stable PROVE G[run[k + 1].x] = run[k + 1].x
    OBVIOUS
  <2>2. k \in 0 .. n /\ k + 1 \in 1 .. n /\ k + 1 \in 0 .. n /\ (k + 1) - 1 = k
    BY <2>1
  <2>3. CASE run[k].stable
    BY <1>2, <2>1, <2>2, <2>3
  <2>4. CASE ~run[k].stable
    BY <2>1, <2>2, <2>4
  <2>5. QED
    BY <2>3, <2>4
<1>3. Nat \subseteq T
  <2> HIDE DEF T
  <2>1. QED
    BY <1>1, <1>2, Induction
<1>4. \A k \in 0 .. n : run[k].x \in SUBSET U /\ (run[k].stable => G[run[k].x] = run[k].x)
  BY <1>3
<1> HIDE DEF T
<1>5. \A k \in 1 .. n : k \in 0 .. n /\ k - 1 \in 0 .. n
  OBVIOUS
<1>6. ASSUME NEW k \in 1 .. n PROVE y[k - 1] \subseteq y[k] /\ (y[k] = y[k - 1] <=> run[k].x = run[k - 1].x)
  <2>1. k \in 0 .. n /\ k - 1 \in 0 .. n
    BY <1>5
  <2>2. run[k].x \in SUBSET U /\ run[k - 1].x \in SUBSET U
    BY <1>4, <2>1
  <2>3. run[k].x = run[k - 1].x \/ run[k].x = G[run[k - 1].x]
    OBVIOUS
  <2>4. CASE Grows
    BY <2>1, <2>2, <2>3, <2>4
  <2>5. CASE ~Grows
    <3>1. run[k].x \subseteq run[k - 1].x
      BY <2>2, <2>3, <2>5
    <3>2. y[k] = U \ run[k].x /\ y[k - 1] = U \ run[k - 1].x
      BY <2>1, <2>5
    <3>3. QED
      BY <2>2, <3>1, <3>2
  <2>6. QED
    BY <2>4, <2>5
<1>7. y \in [0 .. n -> SUBSET U]
  BY <1>4
<1>8. ASSUME NEW k \in 1 .. n, y[k] = y[k - 1], k < n PROVE y[k + 1] = y[k]
  <2>1. k + 1 \in 1 .. n /\ (k + 1) - 1 = k
    BY <1>8
  <2>2. run[k].x = run[k - 1].x
    BY <1>6, <1>8
  <2>3. run[k].stable
    BY <2>2
  <2>4. run[k + 1] = run[k]
    BY <2>1, <2>3
  <2> HIDE DEF y
  <2>5. QED
    BY <1>6, <2>1, <2>4
<1>9. y[n] = U \/ (n > 0 /\ y[n] = y[n - 1])
  <2> HIDE DEF y
  <2>1. QED
    BY <1>6, <1>7, <1>8, Rests
<1>10. n \in 0 .. n /\ run[n].x \in SUBSET U
  BY <1>4
<1>11. CASE y[n] = U
  <2>1. CASE Grows
    <3>1. run[n].x = U
      BY <1>10, <1>11, <2>1
    <3>2. U \in SUBSET U
      OBVIOUS
    <3>3. U \subseteq G[U] /\ G[U] \subseteq U
      BY <2>1, <3>2
    <3>4. QED
      BY <3>1, <3>3
  <2>2. CASE ~Grows
    <3>1. run[n].x = {}
      BY <1>10, <1>11, <2>2
    <3>2. G[{}] \subseteq {}
      BY <2>2
    <3>3. QED
      BY <3>1, <3>2
  <2>3. QED
    BY <2>1, <2>2
<1>12. CASE n > 0 /\ y[n] = y[n - 1]
  <2>1. n \in 1 .. n
    BY <1>12
  <2>2. run[n].x = run[n - 1].x
    BY <1>6, <1>12, <2>1
  <2>3. CASE run[n - 1].stable
    <3>1. n - 1 \in 0 .. n
      BY <2>1
    <3>2. QED
      BY <1>4, <2>2, <2>3, <3>1
  <2>4. CASE ~run[n - 1].stable
    BY <2>1, <2>2, <2>4
  <2>5. QED
    BY <2>3, <2>4
<1>13. QED
  BY <1>9, <1>11, <1>12

LEMMA NamesAreFinite ==
    ASSUME NEW p, IsProgram(p)
    PROVE  /\ IsFiniteSet(FunctionNames(p)) /\ Len(p.functions) \in Nat
           /\ DOMAIN p.functions = 1 .. Len(p.functions)
           /\ Cardinality(FunctionNames(p)) =< Len(p.functions)
<1> DEFINE n == Len(p.functions)
           f == [k \in 1 .. n |-> p.functions[k].name]
<1>1. n \in Nat /\ DOMAIN p.functions = 1 .. n
  BY DEF IsProgram, IsList
<1>2. f \in Surjection(1 .. n, FunctionNames(p))
  BY <1>1 DEF Surjection, FunctionNames
<1> HIDE DEF f, n
<1>3. IsFiniteSet(1 .. n) /\ Cardinality(1 .. n) = n
  <2>1. 1 \in Int /\ n \in Int /\ (IF 1 > n THEN 0 ELSE n - 1 + 1) = n
    BY <1>1
  <2>2. QED
    BY <2>1, FS_Interval
<1>4. IsFiniteSet(FunctionNames(p)) /\ Cardinality(FunctionNames(p)) =< n
  BY <1>2, <1>3, FS_Surjection
<1>5. QED
  BY <1>1, <1>4 DEF n

LEMMA CalleesAre ==
    ASSUME NEW p, IsProgram(p)
    PROVE  /\ \A f : CalleesNamed(p, f) \subseteq FunctionNames(p)
           /\ \A f \in FunctionNames(p) : CalleesNamed(p, f) = Callees(FunctionNamed(p, f))
<1>1. \A f \in FunctionNames(p) : Callees(FunctionNamed(p, f)) \subseteq FunctionNames(p)
  BY NamedIs, CallsAre
<1>2. QED
  BY <1>1 DEF CalleesNamed

\* Reached is the least set that holds the callees of e and of every function in it.
LEMMA ReachedIs ==
    ASSUME NEW p, IsProgram(p), NEW e
    PROVE  /\ CalleesNamed(p, e) \subseteq Reached(p, e)
           /\ Reached(p, e) \subseteq FunctionNames(p)
           /\ \A g \in Reached(p, e) : CalleesNamed(p, g) \subseteq Reached(p, e)
           /\ \A Q : /\ CalleesNamed(p, e) \subseteq Q
                     /\ \A g \in Q : CalleesNamed(p, g) \subseteq Q
                     => Reached(p, e) \subseteq Q
<1> DEFINE U == FunctionNames(p)
           S0 == CalleesNamed(p, e)
           Round(S) == S \cup UNION {CalleesNamed(p, g) : g \in S}
           n == Len(p.functions)
           base == [x |-> S0, stable |-> FALSE]
           op(acc, k) == IF acc.stable THEN acc
                         ELSE LET next == Round(acc.x) IN [x |-> next, stable |-> next = acc.x]
           Is(f) == f = [k \in 0 .. n |-> IF k = 0 THEN base
                                        ELSE CHOOSE v \in {op(u, k) : u \in {f[k - 1]}} : TRUE]
           run == CHOOSE f : Is(f)
           C == [x : {S \in SUBSET U : S0 \subseteq S}, stable : BOOLEAN]
<1>a. IsFiniteSet(U) /\ n \in Nat /\ Cardinality(U) =< n
  BY NamesAreFinite
<1>b. S0 \subseteq U /\ \A g : CalleesNamed(p, g) \subseteq U
  BY CalleesAre
<1>c. \A S \in SUBSET U : Round(S) \in SUBSET U /\ S \subseteq Round(S)
  BY <1>b
<1>3. Reached(p, e) = run[n].x
  BY DEF Reached, Saturate, Walk
<1> HIDE DEF S0, Round, U
<1>1. n \in Nat /\ base \in C
  BY <1>a, <1>b
<1>2. \A u \in C, k \in 1 .. n : op(u, k) \in C
  <2>1. TAKE u \in C, k \in 1 .. n
  <2>2. Round(u.x) \in {S \in SUBSET U : S0 \subseteq S}
    BY <1>c
  <2>3. QED
    BY <2>2
<1> HIDE DEF op, C, n, base
<1> DEFINE H == [z \in C \X (1 .. n) |-> op(z[1], z[2])]
<1>4. H \in [C \X (1 .. n) -> C] /\ \A u \in C, k \in 1 .. n : H[<<u, k>>] = op(u, k)
  BY <1>2
<1> HIDE DEF H
<1>5. PICK f \in [0 .. n -> C] : Walks(f, n, base, H)
  BY <1>1, <1>4, WalkExists
<1>6. Is(f)
  <2>1. ASSUME NEW k \in 1 .. n PROVE k - 1 \in 0 .. n /\ k # 0 /\ f[k] = op(f[k - 1], k)
    <3>1. k - 1 \in 0 .. n /\ k # 0
      BY <1>1
    <3>2. f[k - 1] \in C
      BY <3>1
    <3>3. QED
      BY <1>4, <1>5, <3>1, <3>2 DEF Walks
  <2>2. \A k \in 0 .. n : k # 0 => k \in 1 .. n
    BY <1>1
  <2>3. f[0] = base
    BY <1>5 DEF Walks
  <2>4. QED
    BY <2>1, <2>2, <2>3
<1>7. Is(run)
  BY <1>6
<1> HIDE DEF run
<1>8. run[0] = base /\ \A k \in 1 .. n : run[k] = op(run[k - 1], k)
  <2>1. 0 \in 0 .. n /\ \A k \in 1 .. n : k \in 0 .. n /\ k # 0
    BY <1>1
  <2>2. run[0] = base
    BY <1>7, <2>1
  <2>3. ASSUME NEW k \in 1 .. n PROVE run[k] = op(run[k - 1], k)
    <3>1. run[k] = CHOOSE v \in {op(u, k) : u \in {run[k - 1]}} : TRUE
      BY <1>7, <2>1
    <3>2. QED
      BY <3>1
  <2>4. QED
    BY <2>2, <2>3
<1>9. \A k \in 0 .. n : run[k] \in C
  <2>1. \A k \in 1 .. n : run[k - 1] \in C => run[k] \in C
    BY <1>2, <1>8
  <2>2. run[0] \in C
    BY <1>1, <1>8
  <2>3. QED
    BY <1>1, <2>1, <2>2, WalkStays
<1> DEFINE G == [S \in SUBSET U |-> Round(S)]
<1>10. run[n].x \in SUBSET U /\ S0 \subseteq run[n].x
  BY <1>1, <1>9 DEF C
<1>11. Round(run[n].x) = run[n].x
  <2>1. G \in [SUBSET U -> SUBSET U] /\ \A S \in SUBSET U : G[S] = Round(S) /\ S \subseteq G[S]
    BY <1>c
  <2> HIDE DEF G
  <2>2. \A k \in 0 .. n : run[k] \in [x : SUBSET U, stable : BOOLEAN]
    BY <1>9 DEF C
  <2>3. ASSUME NEW k \in 1 .. n
        PROVE  Saturates(run[k - 1], run[k], G)
    <3>1. k - 1 \in 0 .. n
      BY <1>1
    <3>2. run[k - 1].x \in SUBSET U
      BY <2>2, <3>1
    <3>3. run[k] = op(run[k - 1], k)
      BY <1>8
    <3>4. Round(run[k - 1].x) = G[run[k - 1].x]
      BY <2>1, <3>2
    <3>5. run[k] = IF run[k - 1].stable THEN run[k - 1]
                  ELSE [x |-> G[run[k - 1].x], stable |-> G[run[k - 1].x] = run[k - 1].x]
      BY <3>3, <3>4 DEF op
    <3>6. CASE run[k - 1].stable
      BY <3>5, <3>6 DEF Saturates
    <3>7. CASE ~run[k - 1].stable
      <4>1. run[k] = [x |-> G[run[k - 1].x], stable |-> G[run[k - 1].x] = run[k - 1].x]
        BY <3>5, <3>7
      <4>2. run[k].x = G[run[k - 1].x]
        BY <4>1
      <4>3. run[k].stable = (G[run[k - 1].x] = run[k - 1].x)
        BY <4>1
      <4>4. QED
        BY <3>7, <4>2, <4>3 DEF Saturates
    <3>8. QED
      BY <3>6, <3>7
  <2>4. Saturation(run, n, U, G)
    <3>1. ~run[0].stable
      BY <1>8 DEF base
    <3>2. IsFiniteSet(U) /\ n \in Nat /\ Cardinality(U) =< n
      BY <1>a, <1>1
    <3>3. (\A S \in SUBSET U : S \subseteq G[S]) \/ (\A S \in SUBSET U : G[S] \subseteq S)
      BY <2>1
    <3>4. QED
      BY <2>1, <2>2, <2>3, <3>1, <3>2, <3>3 DEF Saturation
  <2>5. G[run[n].x] = run[n].x
    BY <2>4, Saturated
  <2>6. QED
    BY <1>10, <2>1, <2>5
<1>12. \A g \in run[n].x : CalleesNamed(p, g) \subseteq run[n].x
  BY <1>11 DEF Round
<1>13. ASSUME NEW Q, S0 \subseteq Q, \A g \in Q : CalleesNamed(p, g) \subseteq Q
       PROVE  run[n].x \subseteq Q
  <2> DEFINE D == {u \in C : u.x \subseteq Q}
  <2>1. run[0] \in D
    <3>1. run[0] \in C
      BY <1>1, <1>9
    <3>2. QED
      BY <1>8, <1>13, <3>1 DEF base
  <2>2. ASSUME NEW k \in 1 .. n, run[k - 1] \in D PROVE run[k] \in D
    <3>1. k \in 0 .. n /\ run[k] \in C
      BY <1>1, <1>9
    <3>2. run[k] = op(run[k - 1], k)
      BY <1>8
    <3>3. Round(run[k - 1].x) \subseteq Q
      BY <1>13, <2>2 DEF Round
    <3>4. run[k].x \subseteq Q
      BY <2>2, <3>2, <3>3 DEF op
    <3>5. QED
      BY <3>1, <3>4
  <2>3. \A k \in 0 .. n : run[k] \in D
    <3> HIDE DEF D
    <3>1. QED
      BY <1>1, <2>1, <2>2, WalkStays
  <2>4. QED
    BY <1>1, <2>3
<1>14. QED
  BY <1>3, <1>10, <1>12, <1>13 DEF U, S0

\* Functions that store no global and call only one another are counted pure, and the
\* functions counted pure are of that kind.
Keeps(p, P) ==
    \A f \in P : /\ ~StoresGlobal(FunctionNamed(p, f))
                 /\ Callees(FunctionNamed(p, f)) \subseteq P

LEMMA PureIs ==
    ASSUME NEW p, IsProgram(p)
    PROVE  /\ Keeps(p, PureFunctions(p))
           /\ PureFunctions(p) \subseteq FunctionNames(p)
           /\ \A P : P \subseteq FunctionNames(p) /\ Keeps(p, P) => P \subseteq PureFunctions(p)
<1> DEFINE U == FunctionNames(p)
           Stores(fn) == \E k \in DOMAIN fn.body : fn.body[k].op = "StoreGlobal"
           Round(pures) == {f \in pures : LET fn == FunctionNamed(p, f)
                                          IN  ~Stores(fn) /\ Callees(fn) \subseteq pures}
           n == Len(p.functions) + 1
           base == [x |-> U, stable |-> FALSE]
           op(acc, k) == IF acc.stable THEN acc
                         ELSE LET next == Round(acc.x) IN [x |-> next, stable |-> next = acc.x]
           Is(f) == f = [k \in 0 .. n |-> IF k = 0 THEN base
                                        ELSE CHOOSE v \in {op(u, k) : u \in {f[k - 1]}} : TRUE]
           run == CHOOSE f : Is(f)
           C == [x : SUBSET U, stable : BOOLEAN]
<1>a. IsFiniteSet(U) /\ n \in Nat /\ Cardinality(U) =< n
  <2>1. IsFiniteSet(U) /\ Len(p.functions) \in Nat /\ Cardinality(U) =< Len(p.functions)
    BY NamesAreFinite
  <2>2. Cardinality(U) \in Nat
    BY <2>1, FS_CardinalityType
  <2> HIDE DEF U
  <2>3. QED
    BY <2>1, <2>2
<1>c. \A S \in SUBSET U : Round(S) \in SUBSET U /\ Round(S) \subseteq S
  OBVIOUS
<1>d. \A S : Round(S) = {f \in S : /\ ~StoresGlobal(FunctionNamed(p, f))
                                   /\ Callees(FunctionNamed(p, f)) \subseteq S}
  BY DEF StoresGlobal
<1>3. PureFunctions(p) = run[n].x
  BY DEF PureFunctions, Saturate, Walk
<1> HIDE DEF Round, U, Stores
<1>1. n \in Nat /\ base \in C
  BY <1>a
<1>2. \A u \in C, k \in 1 .. n : op(u, k) \in C
  <2>1. TAKE u \in C, k \in 1 .. n
  <2>2. Round(u.x) \in SUBSET U
    BY <1>c
  <2>3. QED
    BY <2>2
<1> HIDE DEF op, C, n, base
<1> DEFINE H == [z \in C \X (1 .. n) |-> op(z[1], z[2])]
<1>4. H \in [C \X (1 .. n) -> C] /\ \A u \in C, k \in 1 .. n : H[<<u, k>>] = op(u, k)
  BY <1>2
<1> HIDE DEF H
<1>5. PICK f \in [0 .. n -> C] : Walks(f, n, base, H)
  BY <1>1, <1>4, WalkExists
<1>6. Is(f)
  <2>1. ASSUME NEW k \in 1 .. n PROVE k - 1 \in 0 .. n /\ k # 0 /\ f[k] = op(f[k - 1], k)
    <3>1. k - 1 \in 0 .. n /\ k # 0
      BY <1>1
    <3>2. f[k - 1] \in C
      BY <3>1
    <3>3. QED
      BY <1>4, <1>5, <3>1, <3>2 DEF Walks
  <2>2. \A k \in 0 .. n : k # 0 => k \in 1 .. n
    BY <1>1
  <2>3. f[0] = base
    BY <1>5 DEF Walks
  <2>4. QED
    BY <2>1, <2>2, <2>3
<1>7. Is(run)
  BY <1>6
<1> HIDE DEF run
<1>8. run[0] = base /\ \A k \in 1 .. n : run[k] = op(run[k - 1], k)
  <2>1. 0 \in 0 .. n /\ \A k \in 1 .. n : k \in 0 .. n /\ k # 0
    BY <1>1
  <2>2. run[0] = base
    BY <1>7, <2>1
  <2>3. ASSUME NEW k \in 1 .. n PROVE run[k] = op(run[k - 1], k)
    <3>1. run[k] = CHOOSE v \in {op(u, k) : u \in {run[k - 1]}} : TRUE
      BY <1>7, <2>1
    <3>2. QED
      BY <3>1
  <2>4. QED
    BY <2>2, <2>3
<1>9. \A k \in 0 .. n : run[k] \in C
  <2>1. \A k \in 1 .. n : run[k - 1] \in C => run[k] \in C
    BY <1>2, <1>8
  <2>2. run[0] \in C
    BY <1>1, <1>8
  <2>3. QED
    BY <1>1, <2>1, <2>2, WalkStays
<1> DEFINE G == [S \in SUBSET U |-> Round(S)]
<1>10. run[n].x \in SUBSET U
  BY <1>1, <1>9 DEF C
<1>11. Round(run[n].x) = run[n].x
  <2>1. G \in [SUBSET U -> SUBSET U] /\ \A S \in SUBSET U : G[S] = Round(S) /\ G[S] \subseteq S
    BY <1>c
  <2> HIDE DEF G
  <2>2. \A k \in 0 .. n : run[k] \in [x : SUBSET U, stable : BOOLEAN]
    BY <1>9 DEF C
  <2>3. ASSUME NEW k \in 1 .. n
        PROVE  Saturates(run[k - 1], run[k], G)
    <3>1. k - 1 \in 0 .. n
      BY <1>1
    <3>2. run[k - 1].x \in SUBSET U
      BY <2>2, <3>1
    <3>3. run[k] = op(run[k - 1], k)
      BY <1>8
    <3>4. Round(run[k - 1].x) = G[run[k - 1].x]
      BY <2>1, <3>2
    <3>5. run[k] = IF run[k - 1].stable THEN run[k - 1]
                  ELSE [x |-> G[run[k - 1].x], stable |-> G[run[k - 1].x] = run[k - 1].x]
      BY <3>3, <3>4 DEF op
    <3>6. CASE run[k - 1].stable
      BY <3>5, <3>6 DEF Saturates
    <3>7. CASE ~run[k - 1].stable
      <4>1. run[k] = [x |-> G[run[k - 1].x], stable |-> G[run[k - 1].x] = run[k - 1].x]
        BY <3>5, <3>7
      <4>2. run[k].x = G[run[k - 1].x]
        BY <4>1
      <4>3. run[k].stable = (G[run[k - 1].x] = run[k - 1].x)
        BY <4>1
      <4>4. QED
        BY <3>7, <4>2, <4>3 DEF Saturates
    <3>8. QED
      BY <3>6, <3>7
  <2>4. Saturation(run, n, U, G)
    <3>1. ~run[0].stable
      BY <1>8 DEF base
    <3>2. IsFiniteSet(U) /\ n \in Nat /\ Cardinality(U) =< n
      BY <1>a, <1>1
    <3>3. (\A S \in SUBSET U : S \subseteq G[S]) \/ (\A S \in SUBSET U : G[S] \subseteq S)
      BY <2>1
    <3>4. QED
      BY <2>1, <2>2, <2>3, <3>1, <3>2, <3>3 DEF Saturation
  <2>5. G[run[n].x] = run[n].x
    BY <2>4, Saturated
  <2>6. QED
    BY <1>10, <2>1, <2>5
<1>12. Keeps(p, run[n].x)
  BY <1>d, <1>11 DEF Keeps
<1>13. ASSUME NEW P, P \subseteq U, Keeps(p, P)
       PROVE  P \subseteq run[n].x
  <2> DEFINE D == {u \in C : P \subseteq u.x}
  <2>1. run[0] \in D
    <3>1. run[0] \in C
      BY <1>1, <1>9
    <3>2. QED
      BY <1>8, <1>13, <3>1 DEF base
  <2>2. ASSUME NEW k \in 1 .. n, run[k - 1] \in D PROVE run[k] \in D
    <3>1. k \in 0 .. n /\ run[k] \in C
      BY <1>1, <1>9
    <3>2. run[k] = op(run[k - 1], k)
      BY <1>8
    <3>3. P \subseteq Round(run[k - 1].x)
      BY <1>d, <1>13, <2>2 DEF Keeps
    <3>4. P \subseteq run[k].x
      BY <2>2, <3>2, <3>3 DEF op
    <3>5. QED
      BY <3>1, <3>4
  <2>3. \A k \in 0 .. n : run[k] \in D
    <3> HIDE DEF D
    <3>1. QED
      BY <1>1, <2>1, <2>2, WalkStays
  <2>4. QED
    BY <1>1, <2>3
<1>14. QED
  BY <1>3, <1>10, <1>12, <1>13 DEF U

\* A program with the functions of another or fewer, which call what they did or less.
Shrinks(p, q) ==
    /\ FunctionNames(q) \subseteq FunctionNames(p)
    /\ \A f \in FunctionNames(q) : Callees(FunctionNamed(q, f)) \subseteq Callees(FunctionNamed(p, f))

LEMMA RecursiveShrinks ==
    ASSUME NEW p, NEW q, IsProgram(p), IsProgram(q), Shrinks(p, q)
    PROVE  Recursive(q) \subseteq Recursive(p)
<1>1. \A g : CalleesNamed(q, g) \subseteq CalleesNamed(p, g)
  BY DEF Shrinks, CalleesNamed
<1>2. ASSUME NEW f PROVE Reached(q, f) \subseteq Reached(p, f)
  <2>1. CalleesNamed(q, f) \subseteq Reached(p, f)
    BY <1>1, ReachedIs
  <2>2. \A g \in Reached(p, f) : CalleesNamed(q, g) \subseteq Reached(p, f)
    BY <1>1, ReachedIs
  <2>3. QED
    BY <2>1, <2>2, ReachedIs
<1>3. QED
  BY <1>2 DEF Recursive, Shrinks

-----------------------------------------------------------------------------
(* The functions that main needs. *)

\* r lists what body has at the positions P, each once: f says where from.
Picks(r, body, P, f) ==
    /\ f \in [DOMAIN r -> P]
    /\ \A k \in DOMAIN r : r[k] = body[f[k]]
    /\ \A j, k \in DOMAIN r : f[j] = f[k] => j = k
    /\ \A m \in P : \E k \in DOMAIN r : f[k] = m

LEMMA KeepAtPicks ==
    ASSUME NEW S, NEW body \in Seq(S), NEW P \in SUBSET DOMAIN body
    PROVE  \E f : Picks(KeepAt(body, P), body, P, f)
<1> DEFINE n == Len(body)
           base == <<>>
           op(code, k) == IF k \in P THEN Append(code, body[k]) ELSE code
           Is(f) == f = [k \in 0 .. n |-> IF k = 0 THEN base
                                        ELSE CHOOSE v \in {op(u, k) : u \in {f[k - 1]}} : TRUE]
           run == CHOOSE f : Is(f)
           C == Seq(S)
<1>1. n \in Nat /\ base \in C
  OBVIOUS
<1>2. \A u \in C, k \in 1 .. n : op(u, k) \in C
  OBVIOUS
<1>3. KeepAt(body, P) = run[n]
  BY DEF KeepAt, Walk
<1> HIDE DEF op, C, n, base
<1> DEFINE H == [z \in C \X (1 .. n) |-> op(z[1], z[2])]
<1>4. H \in [C \X (1 .. n) -> C] /\ \A u \in C, k \in 1 .. n : H[<<u, k>>] = op(u, k)
  BY <1>2
<1> HIDE DEF H
<1>5. PICK f \in [0 .. n -> C] : Walks(f, n, base, H)
  BY <1>1, <1>4, WalkExists
<1>6. Is(f)
  <2>1. ASSUME NEW k \in 1 .. n PROVE k - 1 \in 0 .. n /\ k # 0 /\ f[k] = op(f[k - 1], k)
    <3>1. k - 1 \in 0 .. n /\ k # 0
      BY <1>1
    <3>2. f[k - 1] \in C
      BY <3>1
    <3>3. QED
      BY <1>4, <1>5, <3>1, <3>2 DEF Walks
  <2>2. \A k \in 0 .. n : k # 0 => k \in 1 .. n
    BY <1>1
  <2>3. f[0] = base
    BY <1>5 DEF Walks
  <2>4. QED
    BY <2>1, <2>2, <2>3
<1>7. Is(run)
  BY <1>6
<1> HIDE DEF run
<1>8. run[0] = base /\ \A k \in 1 .. n : run[k] = op(run[k - 1], k)
  <2>1. 0 \in 0 .. n /\ \A k \in 1 .. n : k \in 0 .. n /\ k # 0
    BY <1>1
  <2>2. run[0] = base
    BY <1>7, <2>1
  <2>3. ASSUME NEW k \in 1 .. n PROVE run[k] = op(run[k - 1], k)
    <3>1. run[k] = CHOOSE v \in {op(u, k) : u \in {run[k - 1]}} : TRUE
      BY <1>7, <2>1
    <3>2. QED
      BY <3>1
  <2>4. QED
    BY <2>2, <2>3
<1>9. \A k \in 0 .. n : run[k] \in C
  <2>1. \A k \in 1 .. n : run[k - 1] \in C => run[k] \in C
    BY <1>2, <1>8
  <2>2. run[0] \in C
    BY <1>1, <1>8
  <2>3. QED
    BY <1>1, <2>1, <2>2, WalkStays
<1> DEFINE Picked(k) == \E g : Picks(run[k], body, P \cap (1 .. k), g)
           T == {k \in Nat : k =< n => Picked(k)}
<1>10. 0 \in T
  <2>1. run[0] = <<>> /\ P \cap (1 .. 0) = {}
    BY <1>8 DEF base
  <2>2. Picks(<<>>, body, {}, <<>>)
    BY DEF Picks
  <2>3. QED
    BY <2>1, <2>2
<1>11. ASSUME NEW k \in Nat, k \in T PROVE k + 1 \in T
  <2>1. SUFFICES ASSUME k + 1 =< n PROVE Picked(k + 1)
    <3> HIDE DEF Picked
    <3>1. QED
      OBVIOUS
  <2>2. k \in 0 .. n /\ k + 1 \in 1 .. n /\ (k + 1) - 1 = k /\ k + 1 \in DOMAIN body
    BY <1>1, <2>1 DEF n
  <2>3. run[k + 1] = op(run[k], k + 1) /\ run[k] \in Seq(S)
    BY <1>8, <1>9, <2>2 DEF C
  <2>3a. Picked(k)
    <3> HIDE DEF Picked
    <3>1. QED
      BY <1>1, <1>11, <2>1
  <2>4. PICK g : Picks(run[k], body, P \cap (1 .. k), g)
    BY <2>3a
  <2>5. CASE k + 1 \notin P
    <3>1. run[k + 1] = run[k]
      BY <2>3, <2>5 DEF op
    <3>2. P \cap (1 .. k + 1) = P \cap (1 .. k)
      BY <2>5
    <3>3. QED
      BY <2>4, <3>1, <3>2
  <2>6. CASE k + 1 \in P
    <3> DEFINE r == run[k]
               l == Len(r)
               s == Append(r, body[k + 1])
               h == [j \in DOMAIN s |-> IF j = l + 1 THEN k + 1 ELSE g[j]]
               Q == P \cap (1 .. k)
               R == P \cap (1 .. k + 1)
    <3>1. run[k + 1] = s
      BY <2>3, <2>6 DEF op
    <3>2. R = Q \cup {k + 1} /\ k + 1 \notin Q
      BY <2>2, <2>6
    <3>3. /\ l \in Nat /\ DOMAIN r = 1 .. l /\ DOMAIN s = 1 .. l + 1 /\ s[l + 1] = body[k + 1]
          /\ \A j \in 1 .. l : s[j] = r[j]
      <4>1. body[k + 1] \in S
        BY <2>2
      <4>2. QED
        BY <2>3, <4>1
    <3>4. /\ g \in [1 .. l -> Q]
          /\ \A j \in 1 .. l : r[j] = body[g[j]]
          /\ \A i, j \in 1 .. l : g[i] = g[j] => i = j
          /\ \A m \in Q : \E j \in 1 .. l : g[j] = m
      BY <2>4, <3>3 DEF Picks
    <3> HIDE DEF r, l, s, Q, R
    <3>5. \A j \in 1 .. l + 1 : j = l + 1 \/ j \in 1 .. l
      BY <3>3
    <3>6. /\ h[l + 1] = k + 1
          /\ \A j \in 1 .. l : h[j] = g[j]
          /\ DOMAIN h = 1 .. l + 1
      BY <3>3
    <3>7. h \in [DOMAIN s -> R]
      BY <3>2, <3>3, <3>4, <3>5
    <3> HIDE DEF h
    <3>8. \A j \in DOMAIN s : s[j] = body[h[j]]
      BY <3>3, <3>4, <3>5, <3>6
    <3>9. \A i, j \in DOMAIN s : h[i] = h[j] => i = j
      BY <3>2, <3>3, <3>4, <3>5, <3>6
    <3>10. \A m \in R : \E j \in DOMAIN s : h[j] = m
      <4>1. 1 .. l \subseteq DOMAIN s /\ l + 1 \in DOMAIN s
        BY <3>3
      <4>2. QED
        BY <3>2, <3>4, <3>6, <4>1
    <3>11. Picks(s, body, R, h)
      BY <3>7, <3>8, <3>9, <3>10 DEF Picks
    <3>12. QED
      BY <3>1, <3>11 DEF R
  <2>7. QED
    BY <2>5, <2>6
<1>12. n \in T
  <2> HIDE DEF T
  <2>1. QED
    BY <1>1, <1>10, <1>11, Induction
<1>13. P \cap (1 .. n) = P
  BY DEF n
<1>14. QED
  BY <1>1, <1>3, <1>12, <1>13

LEMMA LiveIs ==
    ASSUME NEW p, IsProgram(p)
    PROVE  LET q == LiveFunctions(p)
           IN  /\ IsProgram(q) /\ FunctionNames(q) \subseteq FunctionNames(p)
               /\ \A f \in FunctionNames(q) : FunctionNamed(q, f) = FunctionNamed(p, f)
               /\ \A k \in DOMAIN q.functions : \E j \in DOMAIN p.functions :
                     q.functions[k] = p.functions[j]
<1> DEFINE q == LiveFunctions(p)
           fs == p.functions
           gs == q.functions
           alive == {"main"} \cup Reached(p, "main")
           P == {k \in DOMAIN fs : fs[k].name \in alive}
<1>1. p = [functions |-> fs] /\ IsList(fs)
  BY DEF IsProgram
<1>2. q = [functions |-> KeepAt(fs, P)]
  BY <1>1 DEF LiveFunctions
<1>3. q = [functions |-> gs] /\ gs = KeepAt(fs, P)
  BY <1>2
<1>4. IsList(gs)
  <2> DEFINE S == {fs[k] : k \in DOMAIN fs}
  <2>1. fs \in Seq(S)
    BY <1>1 DEF IsList
  <2> HIDE DEF S, P, gs
  <2>2. gs \in Seq(S)
    BY <1>3, <2>1, KeepAtStays
  <2>3. QED
    BY <2>2, ListIs
<1>5. PICK h : Picks(gs, fs, P, h)
  <2> DEFINE S == {fs[k] : k \in DOMAIN fs}
  <2>1. fs \in Seq(S)
    BY <1>1 DEF IsList
  <2>2. P \in SUBSET DOMAIN fs
    OBVIOUS
  <2> HIDE DEF S, P, gs
  <2>3. QED
    BY <1>3, <2>1, <2>2, KeepAtPicks
<1> HIDE DEF q
<1>6. /\ \A k \in DOMAIN gs : h[k] \in P /\ h[k] \in DOMAIN fs /\ gs[k] = fs[h[k]]
      /\ \A j, k \in DOMAIN gs : h[j] = h[k] => j = k
      /\ \A m \in P : \E k \in DOMAIN gs : h[k] = m
  BY <1>5 DEF Picks
<1>7. FunctionNames(q) = alive \cap FunctionNames(p)
  <2>1. \A f \in FunctionNames(q) : f \in alive /\ f \in FunctionNames(p)
    BY <1>6 DEF FunctionNames
  <2>2. ASSUME NEW f \in FunctionNames(p), f \in alive PROVE f \in FunctionNames(q)
    <3>1. PICK m \in DOMAIN fs : fs[m].name = f
      BY DEF FunctionNames
    <3>2. m \in P
      BY <2>2, <3>1
    <3>3. PICK k \in DOMAIN gs : h[k] = m
      BY <1>6, <3>2
    <3>4. gs[k].name = f
      BY <1>6, <3>1, <3>3
    <3>5. QED
      BY <3>4 DEF FunctionNames
  <2>3. QED
    BY <2>1, <2>2
<1>8. \A j, k \in DOMAIN gs : gs[j].name = gs[k].name => j = k
  <2>1. TAKE j, k \in DOMAIN gs
  <2>2. SUFFICES ASSUME gs[j].name = gs[k].name PROVE j = k
    OBVIOUS
  <2>3. fs[h[j]].name = fs[h[k]].name /\ h[j] \in DOMAIN fs /\ h[k] \in DOMAIN fs
    BY <1>6, <2>2
  <2>4. h[j] = h[k]
    BY <2>3 DEF IsProgram
  <2>5. QED
    BY <1>6, <2>4
<1>9. ASSUME NEW f \in FunctionNames(q) PROVE FunctionNamed(q, f) = FunctionNamed(p, f)
  <2> DEFINE l == CHOOSE l \in DOMAIN gs : gs[l].name = f
  <2>1. l \in DOMAIN gs /\ gs[l].name = f
    BY DEF FunctionNames
  <2>2. FunctionNamed(q, f) = gs[l]
    BY DEF FunctionNamed
  <2> HIDE DEF l
  <2>3. h[l] \in DOMAIN fs /\ gs[l] = fs[h[l]] /\ fs[h[l]].name = f
    BY <1>6, <2>1
  <2>4. FunctionNamed(p, f) = fs[h[l]]
    BY <2>3, NamedIs
  <2>5. QED
    BY <2>2, <2>3, <2>4
<1>10. ASSUME NEW k \in DOMAIN gs PROVE IsFunction(gs[k], Arity(q))
  <2> DEFINE fn == gs[k]
  <2>1. h[k] \in DOMAIN fs /\ fn = fs[h[k]] /\ fn.name \in alive
    BY <1>6
  <2>2. IsFunction(fn, Arity(p))
    BY <2>1 DEF IsProgram
  <2>3. fn.name \in FunctionNames(p) /\ FunctionNamed(p, fn.name) = fn
    BY <2>1, NamedIs
  <2>4. CalleesNamed(p, fn.name) = Callees(fn)
    BY <2>3, CalleesAre
  <2>5. Callees(fn) \subseteq alive
    BY <2>1, <2>4, ReachedIs
  <2>6. Callees(fn) \subseteq FunctionNames(q)
    BY <1>7, <2>1, <2>5, CallsAre
  <2>7. DOMAIN Arity(q) = FunctionNames(q) /\ \A g \in FunctionNames(q) : Arity(q)[g] = Arity(p)[g]
    BY <1>7, <1>9 DEF Arity
  <2> HIDE DEF fn
  <2>8. ASSUME NEW n \in DOMAIN fn.body PROVE FitsFrame(fn.body[n], fn.slotCount, Arity(q))
    <3>1. FitsFrame(fn.body[n], fn.slotCount, Arity(p))
      BY <2>2 DEF IsFunction
    <3>2. fn.body[n].op = "Call" => fn.body[n].name \in FunctionNames(q)
      BY <2>6 DEF Callees
    <3>3. QED
      BY <2>7, <3>1, <3>2 DEF FitsFrame
  <2>9. QED
    BY <2>2, <2>8 DEF IsFunction, fn
<1>11. "main" \in FunctionNames(q)
  BY <1>7 DEF IsProgram
<1>12. IsProgram(q)
  BY <1>3, <1>4, <1>8, <1>10, <1>11 DEF IsProgram
<1>13. \A k \in DOMAIN gs : \E j \in DOMAIN fs : gs[k] = fs[j]
  BY <1>6
<1>14. QED
  BY <1>7, <1>9, <1>12, <1>13 DEF q

-----------------------------------------------------------------------------
(* The invariant. *)

\* A program to start from: no constant in it stands for a division that stopped the
\* compiler, and nothing has been done.
Started == IsProgram(prog) /\ (\A k \in DOMAIN prog.functions : ~Stopped(prog.functions[k])) /\ Called

AtWork ==
    /\ stage \in Sweeps \cup {"inline", "dead", "done", "stopped"}
    /\ at \in Nat \ {0} /\ site \in Nat
    /\ stage \in Sweeps => at =< Len(prog.functions)

NoneStopped == stage # "stopped" => \A k \in DOMAIN prog.functions : ~Stopped(prog.functions[k])

PureKept == Keeps(prog, pure \cap FunctionNames(prog))

LeavesInlined ==
    stage = "inline" =>
        \A f \in inlinable : f \in FunctionNames(prog) /\ Callees(FunctionNamed(prog, f)) = {}

IInv ==
    /\ IsProgram(prog)
    /\ AtWork
    /\ NoneStopped
    /\ PureKept
    /\ Recursive(prog) \subseteq recursive
    /\ LeavesInlined

\* The invariant is what is claimed, and more.
LEMMA IInvImplies == IInv => WellFormed /\ AnalysesHold
<1> SUFFICES ASSUME IInv PROVE WellFormed /\ AnalysesHold
  OBVIOUS
<1>1. WellFormed
  BY DEF IInv, WellFormed
<1>2. pure \cap FunctionNames(prog) \subseteq PureFunctions(prog)
  BY PureIs DEF IInv, PureKept
<1>3. QED
  BY <1>1, <1>2 DEF IInv, AnalysesHold, LeavesInlined

\* A step adds no load of a global that no function loaded, and no parameter.
NothingNew ==
    /\ LoadedIn(prog)' \subseteq LoadedIn(prog)
    /\ Len(FunctionNamed(prog, "main").params)' = Len(FunctionNamed(prog, "main").params)

LEMMA Starts == Started => IInv
<1> SUFFICES ASSUME Started PROVE IInv
  OBVIOUS
<1>1. IsProgram(prog)
  BY DEF Started
<1>2. Len(prog.functions) \in Nat /\ Len(prog.functions) >= 1
  <2>1. Len(prog.functions) \in Nat /\ DOMAIN prog.functions = 1 .. Len(prog.functions)
    BY <1>1, NamesAreFinite
  <2>2. DOMAIN prog.functions # {}
    BY <1>1 DEF IsProgram, FunctionNames
  <2>3. QED
    BY <2>1, <2>2
<1>3. AtWork
  BY <1>2 DEF Started, Called, AtWork, Sweeps
<1>4. PureKept
  <2>1. pure = PureFunctions(prog)
    BY DEF Started, Called
  <2>2. pure \cap FunctionNames(prog) = pure
    BY <1>1, <2>1, PureIs
  <2>3. QED
    BY <1>1, <2>1, <2>2, PureIs DEF PureKept
<1>5. QED
  BY <1>1, <1>3, <1>4 DEF Started, Called, IInv, NoneStopped, LeavesInlined

\* Programs whose functions load what those of p load.
LEMMA LoadedShrinks ==
    ASSUME NEW p, NEW q,
           \A k \in DOMAIN q.functions : \A n \in DOMAIN q.functions[k].body :
              LET i == q.functions[k].body[n]
              IN  i.op = "LoadGlobal" => i.name \in LoadedIn(p)
    PROVE  LoadedIn(q) \subseteq LoadedIn(p)
<1> DEFINE In(k) == {q.functions[k].body[n] : n \in DOMAIN q.functions[k].body}
<1>1. InstructionsIn(q) = UNION {In(k) : k \in DOMAIN q.functions}
  BY DEF InstructionsIn
<1>2. \A i \in InstructionsIn(q) : i.op = "LoadGlobal" => i.name \in LoadedIn(p)
  <2>1. TAKE i \in InstructionsIn(q)
  <2>2. PICK k \in DOMAIN q.functions : i \in In(k)
    BY <1>1
  <2>3. PICK n \in DOMAIN q.functions[k].body : i = q.functions[k].body[n]
    BY <2>2
  <2>4. QED
    BY <2>3
<1>3. QED
  BY <1>2 DEF LoadedIn

\* A step that puts another function in the place of the current one, which calls,
\* stores and loads no more than that and maybe what pure leaves store.
LEMMA ReplacementKeeps ==
    ASSUME IInv, at \in DOMAIN prog.functions, NEW fn, IsFunction(fn, Arity(prog)),
           fn.name = Current.name, fn.params = Current.params,
           Callees(fn) \subseteq Callees(Current),
           Current.name \in pure /\ StoresGlobal(fn) => StoresGlobal(Current),
           \A n \in DOMAIN fn.body :
              fn.body[n].op = "LoadGlobal" => fn.body[n].name \in LoadedIn(prog),
           prog' = [prog EXCEPT !.functions[at] = fn],
           pure' = pure, recursive' = recursive
    PROVE  /\ IsProgram(prog)' /\ PureKept' /\ (Recursive(prog) \subseteq recursive)'
           /\ Len(prog.functions)' = Len(prog.functions)
           /\ NothingNew /\ FunctionNames(prog)' = FunctionNames(prog)
           /\ \A f \in FunctionNames(prog) :
                 Callees(FunctionNamed(prog, f))' \subseteq Callees(FunctionNamed(prog, f))
           /\ (\A k \in DOMAIN prog.functions : ~Stopped(prog.functions[k])) /\ ~Stopped(fn)
                => (\A k \in DOMAIN prog.functions : ~Stopped(prog.functions[k]))'
<1> DEFINE q == [prog EXCEPT !.functions[at] = fn]
<1>1. IsProgram(prog) /\ Current = prog.functions[at]
  BY DEF IInv, Current
<1>2. /\ IsProgram(q) /\ FunctionNames(q) = FunctionNames(prog)
      /\ DOMAIN q.functions = DOMAIN prog.functions /\ Len(q.functions) = Len(prog.functions)
      /\ q.functions[at] = fn
      /\ \A j \in DOMAIN prog.functions : j # at => q.functions[j] = prog.functions[j]
      /\ \A g \in FunctionNames(prog) :
            FunctionNamed(q, g) = IF g = fn.name THEN fn ELSE FunctionNamed(prog, g)
  BY <1>1, Replaced
<1>3. FunctionNamed(prog, fn.name) = Current /\ fn.name \in FunctionNames(prog)
  BY <1>1, NamedIs
<1> HIDE DEF q
<1>4. \A f \in FunctionNames(prog) : Callees(FunctionNamed(q, f)) \subseteq Callees(FunctionNamed(prog, f))
  BY <1>2, <1>3
<1>5. Keeps(q, pure \cap FunctionNames(q))
  <2> DEFINE P == pure \cap FunctionNames(prog)
  <2>1. Keeps(prog, P)
    BY DEF IInv, PureKept
  <2>2. ASSUME NEW f \in P
        PROVE  ~StoresGlobal(FunctionNamed(q, f)) /\ Callees(FunctionNamed(q, f)) \subseteq P
    <3>1. ~StoresGlobal(FunctionNamed(prog, f)) /\ Callees(FunctionNamed(prog, f)) \subseteq P
      BY <2>1 DEF Keeps
    <3>2. Callees(FunctionNamed(q, f)) \subseteq P
      BY <1>4, <3>1
    <3>3. CASE f = fn.name
      BY <1>2, <1>3, <2>2, <3>1, <3>2, <3>3
    <3>4. CASE f # fn.name
      BY <1>2, <3>1, <3>2, <3>4
    <3>5. QED
      BY <3>3, <3>4
  <2>3. QED
    BY <1>2, <2>2 DEF Keeps
<1>6. Recursive(q) \subseteq recursive
  <2>1. Shrinks(prog, q)
    BY <1>2, <1>4 DEF Shrinks
  <2>2. QED
    BY <1>1, <1>2, <2>1, RecursiveShrinks DEF IInv
<1>7. prog' = q
  BY DEF q
<1>8. (\A k \in DOMAIN prog.functions : ~Stopped(prog.functions[k])) /\ ~Stopped(fn)
        => (\A k \in DOMAIN q.functions : ~Stopped(q.functions[k]))
  BY <1>2
<1>9. LoadedIn(q) \subseteq LoadedIn(prog)
  <2>1. ASSUME NEW k \in DOMAIN q.functions, NEW n \in DOMAIN q.functions[k].body,
               q.functions[k].body[n].op = "LoadGlobal"
        PROVE  q.functions[k].body[n].name \in LoadedIn(prog)
    <3>1. CASE k = at
      BY <1>2, <2>1, <3>1
    <3>2. CASE k # at
      <4>1. k \in DOMAIN prog.functions /\ q.functions[k] = prog.functions[k]
        BY <1>2, <3>2
      <4>2. QED
        BY <2>1, <4>1, WordsOfProgram
    <3>3. QED
      BY <3>1, <3>2
  <2>2. QED
    BY <2>1, LoadedShrinks
<1>10. Len(FunctionNamed(q, "main").params) = Len(FunctionNamed(prog, "main").params)
  BY <1>1, <1>2, <1>3 DEF IsProgram
<1>11. NothingNew
  BY <1>7, <1>9, <1>10 DEF NothingNew
<1>12. QED
  BY <1>2, <1>4, <1>5, <1>6, <1>7, <1>8, <1>11 DEF PureKept

LEMMA AfterKeeps ==
    ASSUME IInv, stage \in Sweeps, NEW fn, After(fn), NEW values, Words \subseteq values, values \subseteq Constants,
           fn \in Versions(Context(prog, Current, values, StoresGlobal(Current)), Current)
    PROVE  IInv' /\ NothingNew
<1>1. IsProgram(prog)
  BY DEF IInv
<1>2. at \in DOMAIN prog.functions
  BY <1>1, NamesAreFinite DEF IInv, AtWork
<1>3. StoresGlobal(Current) \in BOOLEAN
  BY DEF StoresGlobal
<1>4. /\ IsFunction(fn, Arity(prog)) /\ fn.name = Current.name /\ fn.params = Current.params
      /\ Callees(fn) \subseteq Callees(Current)
      /\ StoresGlobal(fn) => StoresGlobal(Current)
      /\ \A n \in DOMAIN fn.body :
            fn.body[n].op = "LoadGlobal" => fn.body[n].name \in LoadedIn(prog)
  <2>1. Current = prog.functions[at]
    BY DEF Current
  <2> DEFINE stores == StoresGlobal(Current)
  <2>2. stores \in BOOLEAN /\ fn \in Versions(Context(prog, Current, values, stores), Current)
    BY <1>3
  <2>3. stores = StoresGlobal(Current)
    OBVIOUS
  <2> HIDE DEF stores
  <2>4. fn \in Versions(Context(prog, prog.functions[at], values, stores), prog.functions[at])
    BY <2>1, <2>2
  <2>5. QED
    BY <1>1, <1>2, <2>1, <2>2, <2>3, <2>4, VersionIsFunction
<1>5. /\ IsProgram(prog)' /\ PureKept' /\ (Recursive(prog) \subseteq recursive)'
      /\ Len(prog.functions)' = Len(prog.functions) /\ NothingNew
      /\ (\A k \in DOMAIN prog.functions : ~Stopped(prog.functions[k])) /\ ~Stopped(fn)
           => (\A k \in DOMAIN prog.functions : ~Stopped(prog.functions[k]))'
  BY <1>2, <1>4, ReplacementKeeps DEF After
<1>6. stage' = IF Stopped(fn) THEN "stopped" ELSE stage
  BY DEF After
<1>7. NoneStopped'
  <2>1. stage # "stopped"
    BY DEF Sweeps
  <2>2. QED
    BY <1>5, <1>6, <2>1 DEF IInv, NoneStopped
<1>8. AtWork'
  BY <1>5, <1>6 DEF IInv, AtWork, After, Sweeps
<1>9. LeavesInlined'
  BY <1>6 DEF LeavesInlined, Sweeps
<1>10. QED
  BY <1>5, <1>7, <1>8, <1>9 DEF IInv

Around(values) == Context(prog, Current, values, StoresGlobal(Current))

LEMMA CurrentFits ==
    ASSUME IInv, at \in DOMAIN prog.functions, stage # "stopped", NEW values \in {Words, Constants}
    PROVE  /\ IsContext(Around(values)) /\ Around(values).values = values
           /\ TailEntry \in Around(values).labels
           /\ Current \in Versions(Around(values), Current)
           /\ Current.slotCount \in Nat /\ Current.params \in Seq(Slots(Current.slotCount))
           /\ Current.body \in Seq(Code(Around(values), Current.slotCount))
           /\ Current.name \in DOMAIN Around(values).arity
                => Around(values).arity[Current.name] = Len(Current.params)
<1>1. IsProgram(prog) /\ ~Stopped(Current) /\ Current = prog.functions[at]
  BY DEF IInv, NoneStopped, Current
<1>2. StoresGlobal(Current) \in BOOLEAN
  BY DEF StoresGlobal
<1>3. Words \subseteq values /\ values \subseteq Constants
  BY DEF Constants
<1>4. /\ IsContext(Around(values)) /\ Around(values).values = values
      /\ TailEntry \in Around(values).labels
      /\ DOMAIN Around(values).arity = Callees(Current)
      /\ \A g \in Callees(Current) : Around(values).arity[g] = Arity(prog)[g]
  BY <1>2, <1>3, ContextIs DEF Around
<1>5. /\ Current \in Versions(Around(values), Current)
      /\ Current.slotCount \in Nat /\ Current.params \in Seq(Slots(Current.slotCount))
      /\ Current.body \in Seq(Code(Around(values), Current.slotCount))
  BY <1>1, <1>2, <1>3, FunctionIsVersion DEF Around
<1>6. Current.name \in FunctionNames(prog) /\ FunctionNamed(prog, Current.name) = Current
  BY <1>1, NamedIs
<1>7. Arity(prog)[Current.name] = Len(Current.params)
  BY <1>6 DEF Arity
<1>8. QED
  BY <1>4, <1>5, <1>7

LEMMA SweepIsAt == IInv /\ stage \in Sweeps => at \in DOMAIN prog.functions /\ stage # "stopped"
<1> SUFFICES ASSUME IInv, stage \in Sweeps PROVE at \in DOMAIN prog.functions /\ stage # "stopped"
  OBVIOUS
<1>1. /\ Len(prog.functions) \in Nat /\ DOMAIN prog.functions = 1 .. Len(prog.functions)
  BY NamesAreFinite DEF IInv
<1>2. QED
  BY <1>1 DEF IInv, AtWork, Sweeps

LEMMA NewBodyKeeps ==
    ASSUME IInv, stage \in Sweeps, NEW values \in {Words, Constants},
           NEW code \in Seq(Code(Around(values), Current.slotCount)), After(OnBody(code))
    PROVE  IInv' /\ NothingNew
<1>1. /\ Current \in Versions(Around(values), Current) /\ Current.slotCount \in Nat
  BY SweepIsAt, CurrentFits
<1>2. Current.slotCount =< Current.slotCount
  BY <1>1
<1>3. [Current EXCEPT !.body = code] \in Versions(Around(values), Current)
  BY <1>1, <1>2, NewVersion
<1>4. Words \subseteq values /\ values \subseteq Constants
  BY DEF Constants
<1>5. OnBody(code) \in Versions(Context(prog, Current, values, StoresGlobal(Current)), Current)
  BY <1>3 DEF OnBody, Around
<1>6. QED
  BY <1>4, <1>5, AfterKeeps

LEMMA PassKeeps == IInv /\ RunPass => IInv' /\ NothingNew
<1> SUFFICES ASSUME IInv, RunPass PROVE IInv' /\ NothingNew
  OBVIOUS
<1> DEFINE c == Around(Words)
           d == Around(Constants)
           m == Current.slotCount
           body == Current.body
<1>1. stage \in Sweeps
  BY DEF RunPass, RunTailCall, RunGlobalConstProp, RunGlobalCopyProp, RunGlobalCse, RunConstFold,
         RunBranchFold, RunDeadBlock, RunGotoCleanup, RunCopyProp, RunCse, RunCopyCoalesce,
         RunInstCombine, RunLicm, RunLoopSumElim, RunDce, Turn
<1>2. /\ IsContext(c) /\ c.values = Words /\ TailEntry \in c.labels
      /\ Current \in Versions(c, Current) /\ m \in Nat /\ Current.params \in Seq(Slots(m))
      /\ body \in Seq(Code(c, m))
      /\ Current.name \in DOMAIN c.arity => c.arity[Current.name] = Len(Current.params)
  BY <1>1, SweepIsAt, CurrentFits
<1>3. IsContext(d) /\ d.values = Constants /\ body \in Seq(Code(d, m))
  BY <1>1, SweepIsAt, CurrentFits
<1>4. \A code \in Seq(Code(c, m)) : After(OnBody(code)) => IInv' /\ NothingNew
  BY <1>1, NewBodyKeeps
<1>5. \A code \in Seq(Code(d, m)) : After(OnBody(code)) => IInv' /\ NothingNew
  BY <1>1, NewBodyKeeps
<1>6. \A fn \in Versions(c, Current) : After(fn) => IInv' /\ NothingNew
  <2>1. Words \subseteq Constants
    BY DEF Constants
  <2>2. QED
    BY <1>1, <2>1, AfterKeeps DEF Around
<1> HIDE DEF c, d, m, body
<1>7. CASE RunTailCall
  <2>1. After(TailCall(Current))
    BY <1>7 DEF RunTailCall
  <2>2. TailCall(Current) \in Versions(c, Current)
    BY <1>2, TailCallStays DEF m
  <2>3. QED
    BY <1>6, <2>1, <2>2
<1>8. CASE RunGlobalConstProp
  <2>1. After(OnBody(GlobalConstProp(body)))
    BY <1>8 DEF RunGlobalConstProp, body
  <2>2. GlobalConstProp(body) \in Seq(Code(d, m))
    BY <1>2, <1>3, GlobalPassesStay
  <2>3. QED
    BY <1>5, <2>1, <2>2
<1>9. CASE RunGlobalCopyProp
  <2>1. After(OnBody(GlobalCopyProp(body)))
    BY <1>9 DEF RunGlobalCopyProp, body
  <2>2. GlobalCopyProp(body) \in Seq(Code(c, m))
    BY <1>2, GlobalPassesStay
  <2>3. QED
    BY <1>4, <2>1, <2>2
<1>10. CASE RunGlobalCse
  <2>1. After(OnBody(GlobalCse(body)))
    BY <1>10 DEF RunGlobalCse, body
  <2>2. GlobalCse(body) \in Seq(Code(c, m))
    BY <1>2, GlobalPassesStay
  <2>3. QED
    BY <1>4, <2>1, <2>2
<1>11. CASE RunConstFold
  <2>1. After(OnBody(ConstFold(body)))
    BY <1>11 DEF RunConstFold, body
  <2>2. ConstFold(body) \in Seq(Code(d, m))
    BY <1>2, <1>3, ConstFoldStays
  <2>3. QED
    BY <1>5, <2>1, <2>2
<1>12. CASE RunBranchFold
  <2>1. After(OnBody(BranchFold(body)))
    BY <1>12 DEF RunBranchFold, body
  <2>2. BranchFold(body) \in Seq(Code(d, m))
    BY <1>2, <1>3, BranchFoldStays
  <2>3. QED
    BY <1>5, <2>1, <2>2
<1>13. CASE RunDeadBlock
  <2>1. After(OnBody(DeadBlock(body)))
    BY <1>13 DEF RunDeadBlock, body
  <2>2. DeadBlock(body) \in Seq(Code(c, m))
    BY <1>2, DeadBlockStays
  <2>3. QED
    BY <1>4, <2>1, <2>2
<1>14. CASE RunGotoCleanup
  <2>1. After(OnBody(GotoCleanup(body)))
    BY <1>14 DEF RunGotoCleanup, body
  <2>2. GotoCleanup(body) \in Seq(Code(c, m))
    BY <1>2, GotoCleanupStays
  <2>3. QED
    BY <1>4, <2>1, <2>2
<1>15. CASE RunCopyProp
  <2>1. After(OnBody(CopyProp(body)))
    BY <1>15 DEF RunCopyProp, body
  <2>2. CopyProp(body) \in Seq(Code(c, m))
    BY <1>2, CopyPropStays
  <2>3. QED
    BY <1>4, <2>1, <2>2
<1>16. CASE RunCse
  <2>1. After(OnBody(Cse(body)))
    BY <1>16 DEF RunCse, body
  <2>2. Cse(body) \in Seq(Code(c, m))
    BY <1>2, CseStays
  <2>3. QED
    BY <1>4, <2>1, <2>2
<1>17. CASE RunCopyCoalesce
  <2>1. After(OnBody(CopyCoalesce(body)))
    BY <1>17 DEF RunCopyCoalesce, body
  <2>2. CopyCoalesce(body) \in Seq(Code(c, m))
    BY <1>2, CopyCoalesceStays
  <2>3. QED
    BY <1>4, <2>1, <2>2
<1>18. CASE RunInstCombine
  <2>1. After(OnBody(InstCombine(body)))
    BY <1>18 DEF RunInstCombine, body
  <2>2. InstCombine(body) \in Seq(Code(c, m))
    BY <1>2, InstCombineStays
  <2>3. QED
    BY <1>4, <2>1, <2>2
<1>19. CASE RunLicm
  <2>1. After(OnBody(Licm(body, pure)))
    BY <1>19 DEF RunLicm, body
  <2>2. Licm(body, pure) \in Seq(Code(c, m))
    BY <1>2, LicmStays
  <2>3. QED
    BY <1>4, <2>1, <2>2
<1>20. CASE RunLoopSumElim
  <2>1. After(LoopSumElim(Current))
    BY <1>20 DEF RunLoopSumElim
  <2>2. LoopSumElim(Current) \in Versions(c, Current)
    BY <1>2, LoopSumElimStays DEF m
  <2>3. QED
    BY <1>6, <2>1, <2>2
<1>21. CASE RunDce
  <2>1. After(OnBody(Dce(body)))
    BY <1>21 DEF RunDce, body
  <2>2. Dce(body) \in Seq(Code(c, m))
    BY <1>2, DceStays
  <2>3. QED
    BY <1>4, <2>1, <2>2
<1>22. QED
  BY <1>7, <1>8, <1>9, <1>10, <1>11, <1>12, <1>13, <1>14, <1>15, <1>16, <1>17, <1>18, <1>19,
     <1>20, <1>21 DEF RunPass

\* Putting a function where it stands changes nothing.
LEMMA SameAgain ==
    ASSUME NEW p, p = [functions |-> p.functions], IsList(p.functions), NEW k
    PROVE  [p EXCEPT !.functions[k] = p.functions[k]] = p
<1> DEFINE S == {p.functions[j] : j \in DOMAIN p.functions}
           fs == p.functions
<1>1. fs \in Seq(S) /\ p = [functions |-> fs]
  BY DEF IsList
<1> HIDE DEF S, fs
<1>2. [fs EXCEPT ![k] = fs[k]] = fs
  BY <1>1
<1>3. [p EXCEPT !.functions[k] = fs[k]] = [functions |-> [fs EXCEPT ![k] = fs[k]]]
  BY <1>1
<1>4. QED
  BY <1>1, <1>2, <1>3 DEF fs

\* Inlining brings in what leaves store, and nothing else that is new.
LEMMA InlineKeeps == IInv /\ Inline => IInv' /\ NothingNew /\ (changed' \/ prog' = prog)
<1> SUFFICES ASSUME IInv, Inline PROVE IInv' /\ NothingNew /\ (changed' \/ prog' = prog)
  OBVIOUS
<1> DEFINE stores == \/ StoresGlobal(Current)
                     \/ \E g \in Callees(Current) \cap inlinable : StoresGlobal(FunctionNamed(prog, g))
           c == Context(prog, Current, Words, stores)
           e == InlineCalls(prog, Current, inlinable, site)
<1>1. /\ IsProgram(prog) /\ stage = "inline" /\ site \in Nat
      /\ at \in DOMAIN prog.functions /\ Current = prog.functions[at] /\ at \in Nat
  <2>1. Len(prog.functions) \in Nat /\ DOMAIN prog.functions = 1 .. Len(prog.functions)
    BY NamesAreFinite DEF IInv
  <2>2. QED
    BY <2>1 DEF IInv, AtWork, Inline, Current
<1>2. stores \in BOOLEAN /\ Words \subseteq Constants
  BY DEF StoresGlobal, Constants
<1>3. \A k \in DOMAIN prog.functions : ~Stopped(prog.functions[k])
  BY <1>1 DEF IInv, NoneStopped
<1>4. /\ IsContext(c)
      /\ c = [values |-> c.values, stores |-> c.stores, loads |-> c.loads, names |-> c.names,
              labels |-> c.labels, arity |-> c.arity]
      /\ \A k, j \in Nat : InlinedLabel(k, j) \in c.labels
      /\ \A k \in Nat : Continuation(k) \in c.labels
  <2> HIDE DEF stores
  <2>1. QED
    BY <1>2, ContextIs
<1>5. Current.slotCount \in Nat /\ Current \in Versions(c, Current)
  BY <1>1, <1>2, <1>3, FunctionIsVersion
<1>6. ASSUME NEW k \in DOMAIN Current.body, Current.body[k].op = "Call", Current.body[k].name \in inlinable
      PROVE  Expandable(c, prog, Current, Current.body[k].name)
  <2> DEFINE g == Current.body[k].name
             callee == FunctionNamed(prog, g)
             d == Context(prog, callee, Words, stores)
  <2>1. g \in FunctionNames(prog) /\ Callees(callee) = {}
    BY <1>1, <1>6 DEF IInv, LeavesInlined
  <2>2. PICK j \in DOMAIN prog.functions : callee = prog.functions[j]
    BY <1>1, <2>1, NamedIs
  <2>3. g \in Callees(Current) /\ (StoresGlobal(callee) => stores)
    BY <1>6 DEF Callees
  <2>4. \A n \in DOMAIN Current.body :
           Current.body[n].op = "Call" /\ Current.body[n].name = g
             => Len(Current.body[n].args) = Len(callee.params)
    BY <1>1, CallsAre
  <2> HIDE DEF callee, stores
  <2>5. /\ callee.slotCount \in Nat /\ callee.params \in Seq(Slots(callee.slotCount))
        /\ callee.body \in Seq(Code(d, callee.slotCount))
    BY <1>1, <1>2, <1>3, <2>2, <2>3, FunctionIsVersion
  <2>6. d = Leaf(c)
    <3>1. [h \in Callees(callee) |-> Arity(prog)[h]] = <<>>
      BY <2>1
    <3> DEFINE N == NamesIn(prog)
               L == LabelsIn(prog)
               G == LoadedIn(prog)
               A == [h \in Callees(Current) |-> Arity(prog)[h]]
    <3>2. d = [values |-> Words, stores |-> stores, loads |-> G, names |-> N, labels |-> L,
               arity |-> <<>>]
      BY <3>1 DEF Context
    <3>3. c = [values |-> Words, stores |-> stores, loads |-> G, names |-> N, labels |-> L,
               arity |-> A]
      BY DEF Context
    <3> HIDE DEF N, L, G, A, c, d
    <3>4. QED
      BY <3>2, <3>3 DEF Leaf
  <2>7. QED
    BY <2>4, <2>5, <2>6 DEF Expandable, callee
<1>7. /\ e \in [fn : Versions(c, Current), site : Nat]
      /\ site =< e.site /\ (e.site = site => e.fn = Current)
  <2> HIDE DEF c
  <2>1. QED
    BY <1>1, <1>4, <1>5, <1>6, InlineCallsStay
<1> HIDE DEF e
<1>8. /\ IsFunction(e.fn, Arity(prog)) /\ e.fn.name = Current.name /\ e.fn.params = Current.params
      /\ Callees(e.fn) \subseteq Callees(Current)
      /\ StoresGlobal(e.fn) => stores
      /\ \A n \in DOMAIN e.fn.body :
            e.fn.body[n].op = "LoadGlobal" => e.fn.body[n].name \in LoadedIn(prog)
  <2>1. e.fn \in Versions(c, Current)
    BY <1>7
  <2> HIDE DEF stores
  <2>2. e.fn \in Versions(Context(prog, prog.functions[at], Words, stores), prog.functions[at])
    BY <1>1, <2>1
  <2>3. Words \subseteq Words
    OBVIOUS
  <2> HIDE DEF c
  <2> DEFINE f == e.fn
             k == at
  <2>4. f \in Versions(Context(prog, prog.functions[k], Words, stores), prog.functions[k])
    BY <2>2
  <2>a. IsProgram(prog) /\ k \in DOMAIN prog.functions /\ stores \in BOOLEAN /\ Words \subseteq Constants
    BY <1>1, <1>2
  <2> HIDE DEF f, k
  <2>5. /\ IsFunction(f, Arity(prog)) /\ f.name = prog.functions[k].name
        /\ f.params = prog.functions[k].params
        /\ Callees(f) \subseteq Callees(prog.functions[k])
        /\ StoresGlobal(f) => stores
        /\ \A n \in DOMAIN f.body : f.body[n].op = "LoadGlobal" => f.body[n].name \in LoadedIn(prog)
    BY <2>3, <2>4, <2>a, VersionIsFunction
  <2>6. QED
    BY <1>1, <2>5 DEF f, k
<1>9. ~Stopped(e.fn)
  <2>1. e.fn.body \in Seq(Code(c, e.fn.slotCount))
    BY <1>7 DEF Versions
  <2>2. c.values = Words
    BY DEF Context
  <2>3. \A n \in DOMAIN e.fn.body : e.fn.body[n] \in Code(c, e.fn.slotCount)
    BY <2>1, ListIs
  <2>4. \A n \in DOMAIN e.fn.body : e.fn.body[n].op = "Const" => e.fn.body[n].value # Undef
    BY <2>2, <2>3, IRAssumption, WordsAre DEF Code
  <2>5. QED
    BY <2>4 DEF Stopped
<1>10. Current.name \in pure => ~stores
  <2> DEFINE P == pure \cap FunctionNames(prog)
  <2>1. SUFFICES ASSUME Current.name \in pure PROVE ~stores
    OBVIOUS
  <2>2. Current.name \in P /\ FunctionNamed(prog, Current.name) = Current
    BY <1>1, <2>1, NamedIs
  <2>3. Keeps(prog, P)
    BY DEF IInv, PureKept
  <2>4. ~StoresGlobal(Current) /\ Callees(Current) \subseteq P
    BY <2>2, <2>3 DEF Keeps
  <2>5. QED
    BY <2>3, <2>4 DEF Keeps
<1> HIDE DEF stores, c
<1>11. prog' = [prog EXCEPT !.functions[at] = e.fn] /\ site' = e.site
  BY DEF Inline, e
<1>12. /\ pure' = pure /\ recursive' = recursive /\ inlinable' = inlinable /\ stage' = stage
       /\ at' = at + 1
  BY DEF Inline
<1>13. /\ IsProgram(prog)' /\ PureKept' /\ (Recursive(prog) \subseteq recursive)'
       /\ NothingNew /\ FunctionNames(prog)' = FunctionNames(prog)
       /\ \A f \in FunctionNames(prog) :
             Callees(FunctionNamed(prog, f))' \subseteq Callees(FunctionNamed(prog, f))
       /\ (\A k \in DOMAIN prog.functions : ~Stopped(prog.functions[k]))'
  BY <1>1, <1>3, <1>8, <1>9, <1>10, <1>11, <1>12, ReplacementKeeps
<1>14. AtWork'
  BY <1>1, <1>7, <1>11, <1>12 DEF IInv, AtWork, Sweeps
<1>15. LeavesInlined'
  BY <1>12, <1>13 DEF IInv, LeavesInlined
<1>16. changed' \/ prog' = prog
  <2>1. SUFFICES ASSUME ~changed' PROVE prog' = prog
    OBVIOUS
  <2>2. ~(e.site > site)
    BY <2>1 DEF Inline, e
  <2>3. e.site = site
    BY <1>1, <1>7, <2>2
  <2>4. prog' = [prog EXCEPT !.functions[at] = prog.functions[at]]
    BY <1>1, <1>7, <1>11, <2>3
  <2>5. prog = [functions |-> prog.functions] /\ IsList(prog.functions)
    BY <1>1 DEF IsProgram
  <2>6. QED
    BY <2>4, <2>5, SameAgain
<1>17. QED
  BY <1>13, <1>14, <1>15, <1>16 DEF IInv, NoneStopped

LEMMA RemoveDeadKeeps == IInv /\ RemoveDead => IInv' /\ NothingNew
<1> SUFFICES ASSUME IInv, RemoveDead PROVE IInv' /\ NothingNew
  OBVIOUS
<1> DEFINE q == LiveFunctions(prog)
<1>1. /\ IsProgram(prog) /\ stage = "dead" /\ stage' = "done" /\ at' = 1 /\ site' = site
      /\ prog' = q /\ pure' = pure /\ recursive' = recursive
  BY DEF IInv, RemoveDead, Enter
<1>2. /\ IsProgram(q) /\ FunctionNames(q) \subseteq FunctionNames(prog)
      /\ \A f \in FunctionNames(q) : FunctionNamed(q, f) = FunctionNamed(prog, f)
      /\ \A k \in DOMAIN q.functions : \E j \in DOMAIN prog.functions : q.functions[k] = prog.functions[j]
  BY <1>1, LiveIs
<1> HIDE DEF q
<1>3. Keeps(q, pure \cap FunctionNames(q))
  <2>1. ASSUME NEW f \in pure \cap FunctionNames(q)
        PROVE  /\ ~StoresGlobal(FunctionNamed(q, f))
               /\ Callees(FunctionNamed(q, f)) \subseteq pure \cap FunctionNames(q)
    <3>1. f \in pure \cap FunctionNames(prog) /\ FunctionNamed(q, f) = FunctionNamed(prog, f)
      BY <1>2
    <3>2. ~StoresGlobal(FunctionNamed(prog, f)) /\ Callees(FunctionNamed(prog, f)) \subseteq pure
      BY <3>1 DEF IInv, PureKept, Keeps
    <3>3. Callees(FunctionNamed(q, f)) \subseteq FunctionNames(q)
      BY <1>2, CalleesAre
    <3>4. QED
      BY <3>1, <3>2, <3>3
  <2>2. QED
    BY <2>1 DEF Keeps
<1>4. Recursive(q) \subseteq recursive
  <2>1. Shrinks(prog, q)
    BY <1>2 DEF Shrinks
  <2>2. QED
    BY <1>1, <1>2, <2>1, RecursiveShrinks DEF IInv
<1>5. \A k \in DOMAIN q.functions : ~Stopped(q.functions[k])
  BY <1>1, <1>2 DEF IInv, NoneStopped
<1>6. AtWork'
  BY <1>1 DEF IInv, AtWork, Sweeps
<1>7. LoadedIn(q) \subseteq LoadedIn(prog)
  <2>1. ASSUME NEW k \in DOMAIN q.functions, NEW n \in DOMAIN q.functions[k].body,
               q.functions[k].body[n].op = "LoadGlobal"
        PROVE  q.functions[k].body[n].name \in LoadedIn(prog)
    <3>1. PICK j \in DOMAIN prog.functions : q.functions[k] = prog.functions[j]
      BY <1>2
    <3>2. QED
      BY <2>1, <3>1, WordsOfProgram
  <2>2. QED
    BY <2>1, LoadedShrinks
<1>8. "main" \in FunctionNames(q)
  BY <1>2 DEF IsProgram
<1>9. NothingNew
  BY <1>1, <1>2, <1>7, <1>8 DEF NothingNew
<1>10. QED
  BY <1>1, <1>2, <1>3, <1>4, <1>5, <1>6, <1>9 DEF IInv, PureKept, NoneStopped, LeavesInlined

\* The steps between the passes leave the program alone.
LEMMA RestKeeps ==
    IInv /\ (Again \/ NextFunction \/ EndSweep \/ EndInline \/ EndFinal \/ Finished) => IInv'
<1> SUFFICES ASSUME IInv, Again \/ NextFunction \/ EndSweep \/ EndInline \/ EndFinal \/ Finished
             PROVE  IInv'
  OBVIOUS
<1>1. prog' = prog /\ pure' = pure /\ recursive' = recursive /\ site' = site
  BY DEF Again, NextFunction, EndSweep, EndInline, EndFinal, Finished, Enter, vars
<1>2. IsProgram(prog)' /\ PureKept' /\ (Recursive(prog) \subseteq recursive)'
  BY <1>1 DEF IInv, PureKept
<1>3. Len(prog.functions) \in Nat /\ Len(prog.functions) >= 1
  <2>1. Len(prog.functions) \in Nat /\ DOMAIN prog.functions = 1 .. Len(prog.functions)
    BY NamesAreFinite DEF IInv
  <2>2. DOMAIN prog.functions # {}
    BY DEF IInv, IsProgram, FunctionNames
  <2>3. QED
    BY <2>1, <2>2
<1>4. (AtWork' /\ stage # "stopped") \/ UNCHANGED <<stage, at>>
  <2>1. CASE Again
    BY <2>1 DEF Again
  <2>2. CASE NextFunction
    BY <1>1, <1>3, <2>2 DEF NextFunction, IInv, AtWork, Sweeps, FunctionOver, RoundOver
  <2>3. CASE EndSweep
    BY <1>1, <1>3, <2>3 DEF EndSweep, Enter, IInv, AtWork, Sweeps, FunctionOver, RoundOver
  <2>4. CASE EndInline
    BY <1>1, <1>3, <2>4 DEF EndInline, Enter, IInv, AtWork, Sweeps
  <2>5. CASE EndFinal
    BY <1>1, <1>3, <2>5 DEF EndFinal, Enter, IInv, AtWork, Sweeps, FunctionOver, RoundOver
  <2>6. CASE Finished
    BY <2>6 DEF Finished, vars
  <2>7. QED
    BY <2>1, <2>2, <2>3, <2>4, <2>5, <2>6
<1>5. AtWork'
  BY <1>1, <1>4 DEF IInv, AtWork
<1>6. NoneStopped'
  BY <1>1, <1>4 DEF IInv, NoneStopped
<1>7. LeavesInlined'
  <2>1. CASE Again
    BY <1>1, <2>1 DEF Again, IInv, LeavesInlined
  <2>2. CASE NextFunction
    BY <1>1, <2>2 DEF NextFunction, IInv, LeavesInlined
  <2>3. CASE EndSweep
    BY <1>1, <2>3 DEF EndSweep, Enter, LeavesInlined, Inlinable
  <2>4. CASE EndInline
    BY <2>4 DEF EndInline, Enter, LeavesInlined
  <2>5. CASE EndFinal
    BY <2>5 DEF EndFinal, Enter, LeavesInlined
  <2>6. CASE Finished
    BY <2>6 DEF Finished, vars, IInv, LeavesInlined
  <2>7. QED
    BY <2>1, <2>2, <2>3, <2>4, <2>5, <2>6
<1>8. QED
  BY <1>2, <1>5, <1>6, <1>7 DEF IInv

LEMMA StutterKeeps == IInv /\ UNCHANGED vars => IInv'
<1> SUFFICES ASSUME IInv, UNCHANGED vars PROVE IInv'
  OBVIOUS
<1>1. prog' = prog /\ pure' = pure /\ recursive' = recursive /\ site' = site /\ stage' = stage
      /\ at' = at /\ inlinable' = inlinable
  BY DEF vars
<1>2. QED
  BY <1>1 DEF IInv, AtWork, NoneStopped, PureKept, LeavesInlined

LEMMA InvariantHolds == Started /\ [][Next]_vars => []IInv
<1>1. Started => IInv
  BY Starts
<1>2. IInv /\ [Next]_vars => IInv'
  BY PassKeeps, InlineKeeps, RemoveDeadKeeps, RestKeeps, StutterKeeps DEF Next
<1>3. QED
  BY <1>1, <1>2, PTL

\* From any program that lowering can hand over, every program on the way is one that
\* code generation takes: each pass, each inlining and the removal of dead functions
\* keep operands within the frame and calls to functions that are there (optimizeProgram).
THEOREM StaysWellFormed == Started /\ [][Next]_vars => []WellFormed
<1>1. Started /\ [][Next]_vars => []IInv
  BY InvariantHolds
<1>2. IInv => WellFormed
  BY IInvImplies
<1>3. QED
  BY <1>1, <1>2, PTL

\* And what computePureFunctions and findRecursive found out at the start, and
\* inlineCalls at the start of its round, stays true although the functions change.
THEOREM AnalysesStayTrue == Started /\ [][Next]_vars => []AnalysesHold
<1>1. Started /\ [][Next]_vars => []IInv
  BY InvariantHolds
<1>2. IInv => AnalysesHold
  BY IInvImplies
<1>3. QED
  BY <1>1, <1>2, PTL

=============================================================================
