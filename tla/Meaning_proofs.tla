--------------------------- MODULE Meaning_proofs ---------------------------
(***************************************************************************)
(* Passes that keep what a program returns, for every program, every input *)
(* and every word width.  A run of the program before the pass and one of  *)
(* the program behind it are compared step by step: as long as the first   *)
(* gets somewhere, the second gets to the same place, with every value the *)
(* first has.                                                              *)
(***************************************************************************)
EXTENDS PassManager_proofs

-----------------------------------------------------------------------------
(* Outcome as a run of Fuel * Fuel steps. *)

Now(p, m) == IF m.halted THEN m ELSE Step(p, m)

Begun(p, g) ==
    [stack |-> <<Frame(FunctionNamed(p, "main"), <<>>, NoSlot)>>,
     globals |-> g, halted |-> FALSE, result |-> Undef]

\* f is the run of p from m, n steps of it
IsRun(f, p, m, n) ==
    /\ f = [k \in 0 .. n |-> f[k]]
    /\ f[0] = m
    /\ \A k \in 1 .. n : f[k] = Now(p, f[k - 1])

LEMMA RunExists ==
    ASSUME NEW p, NEW m, NEW n \in Nat
    PROVE  \E f : IsRun(f, p, m, n)
<1> DEFINE T == {l \in Nat : \E f : IsRun(f, p, m, l)}
<1>1. 0 \in T
  <2> DEFINE f == [k \in 0 .. 0 |-> m]
  <2>1. f = [k \in 0 .. 0 |-> f[k]] /\ f[0] = m /\ 1 .. 0 = {}
    OBVIOUS
  <2> HIDE DEF f
  <2>2. IsRun(f, p, m, 0)
    BY <2>1 DEF IsRun
  <2>3. QED
    BY <2>2
<1>2. ASSUME NEW l \in Nat, l \in T PROVE l + 1 \in T
  <2>1. PICK f : IsRun(f, p, m, l)
    BY <1>2
  <2> DEFINE g == [k \in 0 .. l + 1 |-> IF k =< l THEN f[k] ELSE Now(p, f[l])]
  <2>2. /\ g = [k \in 0 .. l + 1 |-> g[k]]
        /\ \A k \in 0 .. l : g[k] = f[k]
        /\ g[l + 1] = Now(p, f[l])
    OBVIOUS
  <2> HIDE DEF g
  <2>3. g[0] = m
    <3>1. f[0] = m
      BY <2>1 DEF IsRun
    <3>2. QED
      BY <2>2, <3>1
  <2>4. ASSUME NEW k \in 1 .. l + 1 PROVE g[k] = Now(p, g[k - 1])
    <3>1. CASE k = l + 1
      <4>1. k - 1 = l /\ l \in 0 .. l
        BY <3>1
      <4>2. QED
        BY <2>2, <3>1, <4>1
    <3>2. CASE k # l + 1
      <4>1. k \in 1 .. l /\ k \in 0 .. l /\ k - 1 \in 0 .. l
        BY <3>2
      <4>2. QED
        BY <2>1, <2>2, <4>1 DEF IsRun
    <3>3. QED
      BY <3>1, <3>2
  <2>5. IsRun(g, p, m, l + 1)
    BY <2>2, <2>3, <2>4 DEF IsRun
  <2>6. QED
    BY <2>5
<1>3. Nat \subseteq T
  <2> HIDE DEF T
  <2>1. QED
    BY <1>1, <1>2, Induction
<1>4. QED
  BY <1>3

\* A machine that has halted does not change.
LEMMA HaltedStays ==
    ASSUME NEW p, NEW m, NEW n \in Nat, NEW f, IsRun(f, p, m, n),
           NEW j \in 0 .. n, f[j].halted
    PROVE  \A k \in j .. n : f[k] = f[j]
<1> DEFINE T == {l \in Nat : j + l =< n => f[j + l] = f[j]}
<1>1. 0 \in T
  OBVIOUS
<1>2. ASSUME NEW l \in Nat, l \in T PROVE l + 1 \in T
  <2>1. SUFFICES ASSUME j + (l + 1) =< n PROVE f[j + (l + 1)] = f[j]
    OBVIOUS
  <2>2. j + (l + 1) \in 1 .. n /\ (j + (l + 1)) - 1 = j + l /\ j + l =< n
    BY <2>1
  <2>3. f[j + (l + 1)] = Now(p, f[j + l]) /\ f[j + l] = f[j]
    BY <1>2, <2>2 DEF IsRun
  <2>4. QED
    BY <2>3 DEF Now
<1>3. Nat \subseteq T
  <2> HIDE DEF T
  <2>1. QED
    BY <1>1, <1>2, Induction
<1>4. ASSUME NEW k \in j .. n PROVE f[k] = f[j]
  <2>1. k - j \in T /\ j + (k - j) = k
    BY <1>3
  <2>2. QED
    BY <2>1
<1>5. QED
  BY <1>4

\* a round of Fuel steps
Bursts(p, m) == Walk(LAMBDA u, k : IF u.halted THEN u ELSE Step(p, u), m, Fuel)

LEMMA BurstIs ==
    ASSUME NEW p, NEW m, NEW f, IsRun(f, p, m, Fuel)
    PROVE  Bursts(p, m) = f[Fuel]
<1> DEFINE Is(h) == h = [k \in 0 .. Fuel |->
                            IF k = 0 THEN m
                            ELSE CHOOSE v \in {IF u.halted THEN u ELSE Step(p, u) : u \in {h[k - 1]}} : TRUE]
           run == CHOOSE h : Is(h)
<1>1. Bursts(p, m) = run[Fuel]
  BY DEF Bursts, Walk
<1>2. Fuel \in Nat
  BY IRAssumption
<1>3. Is(f)
  <2> DEFINE r == [k \in 0 .. Fuel |->
                            IF k = 0 THEN m
                            ELSE CHOOSE v \in {IF u.halted THEN u ELSE Step(p, u) : u \in {f[k - 1]}} : TRUE]
  <2>1. ASSUME NEW k \in 0 .. Fuel PROVE f[k] = r[k]
    <3>1. CASE k = 0
      BY <3>1 DEF IsRun
    <3>2. CASE k # 0
      <4>1. k \in 1 .. Fuel
        BY <1>2, <3>2
      <4>2. f[k] = Now(p, f[k - 1])
        BY <4>1 DEF IsRun
      <4>3. {IF u.halted THEN u ELSE Step(p, u) : u \in {f[k - 1]}} = {Now(p, f[k - 1])}
        BY DEF Now
      <4>4. r[k] = CHOOSE v \in {Now(p, f[k - 1])} : TRUE
        BY <3>2, <4>3
      <4> HIDE DEF r
      <4>5. QED
        BY <4>2, <4>4
    <3>3. QED
      BY <3>1, <3>2
  <2>2. f = [k \in 0 .. Fuel |-> f[k]] /\ r = [k \in 0 .. Fuel |-> r[k]]
    BY DEF IsRun
  <2> HIDE DEF r
  <2>3. f = r
    BY <2>1, <2>2
  <2>4. QED
    BY <2>3 DEF r
<1>4. Is(run)
  BY <1>3
<1> HIDE DEF run
<1> DEFINE T == {k \in Nat : k =< Fuel => run[k] = f[k]}
<1>5. 0 \in T
  <2>1. run[0] = m
    BY <1>2, <1>4
  <2>2. QED
    BY <2>1 DEF IsRun
<1>6. ASSUME NEW k \in Nat, k \in T PROVE k + 1 \in T
  <2>1. SUFFICES ASSUME k + 1 =< Fuel PROVE run[k + 1] = f[k + 1]
    OBVIOUS
  <2>2. k + 1 \in 0 .. Fuel /\ k + 1 \in 1 .. Fuel /\ k + 1 # 0 /\ (k + 1) - 1 = k /\ k =< Fuel
    BY <1>2, <2>1
  <2>3. run[k + 1] = CHOOSE v \in {IF u.halted THEN u ELSE Step(p, u) : u \in {run[k]}} : TRUE
    BY <1>4, <2>2
  <2>4. {IF u.halted THEN u ELSE Step(p, u) : u \in {run[k]}} = {Now(p, run[k])}
    BY DEF Now
  <2>5. run[k + 1] = Now(p, run[k])
    BY <2>3, <2>4
  <2>6. run[k] = f[k]
    BY <1>6, <2>2
  <2>7. f[k + 1] = Now(p, f[k])
    BY <2>2 DEF IsRun
  <2>8. QED
    BY <2>5, <2>6, <2>7
<1>7. Nat \subseteq T
  <2> HIDE DEF T
  <2>1. QED
    BY <1>5, <1>6, Induction
<1>8. QED
  BY <1>1, <1>2, <1>7


\* What a program returns is the result of its run after Fuel rounds of Fuel steps.
LEMMA OutcomeIs ==
    ASSUME NEW p, NEW g, NEW f, IsRun(f, p, Begun(p, g), Fuel * Fuel)
    PROVE  Outcome(p, g) = f[Fuel * Fuel].result
<1> DEFINE m == Begun(p, g)
           Is(h) == h = [k \in 0 .. Fuel |->
                            IF k = 0 THEN m
                            ELSE CHOOSE v \in {IF u.halted THEN u ELSE Bursts(p, u) : u \in {h[k - 1]}} : TRUE]
           run == CHOOSE h : Is(h)
<1>1. Outcome(p, g) = run[Fuel].result
  BY DEF Outcome, Walk, Bursts, Begun
<1>2. Fuel \in Nat
  BY IRAssumption
<1> DEFINE N == Fuel * Fuel
           r == [k \in 0 .. Fuel |-> f[k * Fuel]]
<1>3. N \in Nat /\ \A k \in 0 .. Fuel : k * Fuel \in 0 .. N
  <2>1. \A k \in 0 .. Fuel : k * Fuel \in Nat /\ k * Fuel =< N
    BY <1>2
  <2>2. QED
    BY <1>2, <2>1
<1>4. ASSUME NEW k \in 0 .. Fuel, k # 0
      PROVE  r[k] = IF r[k - 1].halted THEN r[k - 1] ELSE Bursts(p, r[k - 1])
  <2> DEFINE a == (k - 1) * Fuel
  <2>1. /\ k - 1 \in 0 .. Fuel /\ k * Fuel = a + Fuel
        /\ a \in Nat /\ a + Fuel =< N
    BY <1>2, <1>3, <1>4
  <2>2. r[k] = f[a + Fuel] /\ r[k - 1] = f[a]
    BY <2>1
  <2> HIDE DEF a, r, N, m
  <2>3. CASE f[a].halted
    <3>1. a \in 0 .. N /\ a + Fuel \in a .. N
      BY <1>2, <1>3, <2>1
    <3>2. f[a + Fuel] = f[a]
      <4>1. IsRun(f, p, m, N)
        BY DEF N, m
      <4>2. \A j \in a .. N : f[j] = f[a]
        BY <1>3, <2>3, <3>1, <4>1, HaltedStays
      <4>3. QED
        BY <3>1, <4>2
    <3>3. QED
      BY <2>2, <2>3, <3>2
  <2>4. CASE ~f[a].halted
    <3> DEFINE h == [n \in 0 .. Fuel |-> f[a + n]]
    <3>1. h = [n \in 0 .. Fuel |-> h[n]] /\ h[0] = f[a] /\ h[Fuel] = f[a + Fuel]
      BY <1>2, <2>1
    <3>2. ASSUME NEW n \in 1 .. Fuel PROVE h[n] = Now(p, h[n - 1])
      <4>1. a + n \in 1 .. N /\ (a + n) - 1 = a + (n - 1) /\ n - 1 \in 0 .. Fuel /\ n \in 0 .. Fuel
        BY <1>2, <1>3, <2>1
      <4>2. h[n] = f[a + n] /\ h[n - 1] = f[a + (n - 1)]
        BY <4>1
      <4>3. f[a + n] = Now(p, f[(a + n) - 1])
        BY <4>1 DEF IsRun, N
      <4> HIDE DEF h
      <4>4. QED
        BY <4>1, <4>2, <4>3
    <3> HIDE DEF h
    <3>3. IsRun(h, p, f[a], Fuel)
      BY <3>1, <3>2 DEF IsRun
    <3>4. QED
      BY <2>2, <2>4, <3>1, <3>3, BurstIs
  <2>5. QED
    BY <2>3, <2>4
<1>5. r[0] = m /\ r[Fuel] = f[N] /\ r = [k \in 0 .. Fuel |-> r[k]]
  <2>1. 0 * Fuel = 0 /\ 0 \in 0 .. Fuel /\ Fuel \in 0 .. Fuel
    BY <1>2
  <2>2. r[0] = f[0] /\ r[Fuel] = f[N]
    BY <2>1
  <2>3. f[0] = m
    BY DEF IsRun
  <2>4. QED
    BY <2>2, <2>3
<1> HIDE DEF r, N, m
<1>6. Is(r)
  <2> DEFINE w == [k \in 0 .. Fuel |->
                            IF k = 0 THEN m
                            ELSE CHOOSE v \in {IF u.halted THEN u ELSE Bursts(p, u) : u \in {r[k - 1]}} : TRUE]
  <2>1. ASSUME NEW k \in 0 .. Fuel PROVE r[k] = w[k]
    <3>1. CASE k = 0
      BY <1>5, <3>1
    <3>2. CASE k # 0
      <4>1. {IF u.halted THEN u ELSE Bursts(p, u) : u \in {r[k - 1]}} = {r[k]}
        BY <1>4, <3>2
      <4>2. w[k] = CHOOSE v \in {r[k]} : TRUE
        BY <3>2, <4>1
      <4> HIDE DEF w
      <4>3. QED
        BY <4>2
    <3>3. QED
      BY <3>1, <3>2
  <2>2. w = [k \in 0 .. Fuel |-> w[k]]
    OBVIOUS
  <2> HIDE DEF w
  <2>3. r = w
    BY <1>5, <2>1, <2>2
  <2>4. QED
    BY <2>3 DEF w
<1>7. Is(run)
  BY <1>6
<1> HIDE DEF run
<1> DEFINE T == {k \in Nat : k =< Fuel => run[k] = r[k]}
<1>8. 0 \in T
  <2>1. run[0] = m
    BY <1>2, <1>7
  <2>2. QED
    BY <1>5, <2>1
<1>9. ASSUME NEW k \in Nat, k \in T PROVE k + 1 \in T
  <2>1. SUFFICES ASSUME k + 1 =< Fuel PROVE run[k + 1] = r[k + 1]
    OBVIOUS
  <2>2. k + 1 \in 0 .. Fuel /\ k + 1 # 0 /\ (k + 1) - 1 = k /\ k =< Fuel
    BY <1>2, <2>1
  <2>3. run[k + 1] = CHOOSE v \in {IF u.halted THEN u ELSE Bursts(p, u) : u \in {run[k]}} : TRUE
    BY <1>7, <2>2
  <2>4. run[k] = r[k]
    BY <1>9, <2>2
  <2>5. r[k + 1] = IF r[k].halted THEN r[k] ELSE Bursts(p, r[k])
    BY <1>4, <2>2
  <2>6. {IF u.halted THEN u ELSE Bursts(p, u) : u \in {run[k]}} = {r[k + 1]}
    BY <2>4, <2>5
  <2>7. QED
    BY <2>3, <2>6
<1>10. Nat \subseteq T
  <2> HIDE DEF T
  <2>1. QED
    BY <1>8, <1>9, Induction
<1>11. QED
  <2>1. run[Fuel] = r[Fuel]
    BY <1>2, <1>10
  <2>2. QED
    BY <1>1, <1>5, <2>1 DEF N

-----------------------------------------------------------------------------
(* Simulation. *)

\* Rel relates machines of p to machines of q: a step of p is matched by a step of q
\* or by none, and what p returns q returns.
Simulates(Rel, p, q) ==
    /\ \A m, n : (<<m, n>> \in Rel /\ ~m.halted) =>
          /\ m.result = Undef
          /\ \/ <<Step(p, m), n>> \in Rel
             \/ ~n.halted /\ <<Step(p, m), Step(q, n)>> \in Rel
    /\ \A m, n : (<<m, n>> \in Rel /\ m.halted /\ m.result # Undef) =>
          n.halted /\ n.result = m.result

LEMMA Simulation ==
    ASSUME NEW p, NEW q, NEW g, NEW Rel, Simulates(Rel, p, q),
           <<Begun(p, g), Begun(q, g)>> \in Rel
    PROVE  Outcome(p, g) # Undef => Outcome(q, g) = Outcome(p, g)
<1> DEFINE N == Fuel * Fuel
<1>1. N \in Nat
  BY IRAssumption
<1>2. PICK f : IsRun(f, p, Begun(p, g), N)
  BY <1>1, RunExists
<1>3. PICK h : IsRun(h, q, Begun(q, g), N)
  BY <1>1, RunExists
<1>4. Outcome(p, g) = f[N].result /\ Outcome(q, g) = h[N].result
  BY <1>2, <1>3, OutcomeIs
<1> HIDE DEF N
<1> DEFINE T == {k \in Nat : k =< N => \E j \in 0 .. k : <<f[k], h[j]>> \in Rel}
<1>5. 0 \in T
  <2>1. f[0] = Begun(p, g) /\ h[0] = Begun(q, g)
    BY <1>2, <1>3 DEF IsRun
  <2>2. 0 \in 0 .. 0
    OBVIOUS
  <2>3. QED
    BY <2>1, <2>2
<1>6. ASSUME NEW k \in Nat, k \in T PROVE k + 1 \in T
  <2>1. SUFFICES ASSUME k + 1 =< N PROVE \E j \in 0 .. k + 1 : <<f[k + 1], h[j]>> \in Rel
    OBVIOUS
  <2>2. k + 1 \in 1 .. N /\ (k + 1) - 1 = k /\ k =< N
    BY <1>1, <2>1
  <2>3. PICK j \in 0 .. k : <<f[k], h[j]>> \in Rel
    BY <1>6, <2>2
  <2>4. f[k + 1] = Now(p, f[k])
    BY <1>2, <2>2 DEF IsRun
  <2>5. j \in 0 .. k + 1 /\ j + 1 \in 0 .. k + 1 /\ j + 1 \in 1 .. N /\ (j + 1) - 1 = j
    BY <1>1, <2>1, <2>2
  <2>6. h[j + 1] = Now(q, h[j])
    BY <1>3, <2>5 DEF IsRun
  <2>7. CASE f[k].halted
    BY <2>3, <2>4, <2>5, <2>7 DEF Now
  <2>8. CASE ~f[k].halted
    <3>1. f[k + 1] = Step(p, f[k])
      BY <2>4, <2>8 DEF Now
    <3>2. CASE <<Step(p, f[k]), h[j]>> \in Rel
      BY <2>5, <3>1, <3>2
    <3>3. CASE ~h[j].halted /\ <<Step(p, f[k]), Step(q, h[j])>> \in Rel
      <4>1. h[j + 1] = Step(q, h[j])
        BY <2>6, <3>3 DEF Now
      <4>2. QED
        BY <2>5, <3>1, <3>3, <4>1
    <3>4. QED
      BY <2>3, <2>8, <3>2, <3>3 DEF Simulates
  <2>9. QED
    BY <2>7, <2>8
<1>7. Nat \subseteq T
  <2> HIDE DEF T
  <2>1. QED
    BY <1>5, <1>6, Induction
<1>8. PICK j \in 0 .. N : <<f[N], h[j]>> \in Rel
  BY <1>1, <1>7
<1>9. SUFFICES ASSUME f[N].result # Undef PROVE h[N].result = f[N].result
  BY <1>4
<1>10. f[N].halted
  BY <1>8, <1>9 DEF Simulates
<1>11. h[j].halted /\ h[j].result = f[N].result
  BY <1>8, <1>9, <1>10 DEF Simulates
<1>12. h[N] = h[j]
  <2>1. \A k \in j .. N : h[k] = h[j]
    BY <1>1, <1>3, <1>11, HaltedStays
  <2>2. N \in j .. N
    BY <1>1
  <2>3. QED
    BY <2>1, <2>2
<1>13. QED
  BY <1>11, <1>12

-----------------------------------------------------------------------------
(* Machines. *)

Values == Words \cup {Undef}
Envs(n) == [Slots(n) -> Values]
Memories(D) == [D -> Values]

Frames(p) ==
    [fn : FunctionNames(p), pc : Nat, dest : Int, env : UNION {Envs(n) : n \in Nat}]
Machines(p, D) ==
    [stack : Seq(Frames(p)), globals : Memories(D), halted : BOOLEAN, result : Values]

\* w is what v is, if that is defined
Below(v, w) == v # Undef => w = v
AllBelow(a, b) == \A x \in DOMAIN a : Below(a[x], b[x])

\* An instruction that neither calls, returns nor stores; where control goes from it
\* and with which slots: nowhere when the program is stuck there.
Quiet(i) == i.op \in {"Label", "Goto", "Branch"} \/ DefinesSlot(i)

Targets(body, l) == IF l \in Labels(body) THEN {PositionOf(body, l)} ELSE {}
Lands(body, n, l) == IF l = NoLabel THEN {n + 1} ELSE Targets(body, l)

Goes(body, n, env, globals) ==
    LET i == body[n]
    IN  CASE i.op = "Label" -> {<<n + 1, env>>}
          [] i.op = "Goto" -> {<<k, env>> : k \in Targets(body, i.label)}
          [] i.op = "Branch" ->
                IF env[i.lhs] = Undef THEN {}
                ELSE {<<k, env>> : k \in Lands(body, n, IF env[i.lhs] # 0 THEN i.label ELSE i.falseLabel)}
          [] DefinesSlot(i) -> {<<n + 1, [env EXCEPT ![i.dest] = Effect(i, env, globals)]>>}

MovedTo(m, n, e) ==
    [m EXCEPT !.stack = [m.stack EXCEPT ![1] = [m.stack[1] EXCEPT !.pc = n, !.env = e]]]
Halted(m) == [m EXCEPT !.halted = TRUE]

\* The machine m of p has its topmost frame at the instruction i, position n of body.
AtInstruction(p, D, m, body, n, i) ==
    /\ m \in Machines(p, D) /\ m.stack # <<>>
    /\ body = FunctionNamed(p, m.stack[1].fn).body
    /\ n = m.stack[1].pc /\ n \in 1 .. Len(body) /\ Len(body) \in Nat /\ i = body[n]

LEMMA TopIs ==
    ASSUME NEW p, NEW D, NEW m \in Machines(p, D), m.stack # <<>>
    PROVE  /\ m = [stack |-> m.stack, globals |-> m.globals, halted |-> m.halted, result |-> m.result]
           /\ m.stack \in Seq(Frames(p)) /\ Len(m.stack) \in Nat /\ Len(m.stack) >= 1
           /\ 1 \in DOMAIN m.stack /\ Head(m.stack) = m.stack[1] /\ m.stack[1] \in Frames(p)
           /\ m.stack[1] = [fn |-> m.stack[1].fn, pc |-> m.stack[1].pc, dest |-> m.stack[1].dest,
                            env |-> m.stack[1].env]
<1>1. /\ m.stack \in Seq(Frames(p))
      /\ m = [stack |-> m.stack, globals |-> m.globals, halted |-> m.halted, result |-> m.result]
  BY DEF Machines
<1> DEFINE F == Frames(p)
           s == m.stack
<1>2. s \in Seq(F) /\ s # <<>>
  BY <1>1
<1> HIDE DEF F, s
<1>3. Len(s) \in Nat /\ Len(s) >= 1 /\ 1 \in DOMAIN s /\ Head(s) = s[1] /\ s[1] \in F
  BY <1>2
<1>4. \A x \in Frames(p) : x = [fn |-> x.fn, pc |-> x.pc, dest |-> x.dest, env |-> x.env]
  BY DEF Frames
<1>5. QED
  BY <1>1, <1>3, <1>4 DEF F, s

LEMMA StepPast ==
    ASSUME NEW p, NEW D, NEW m \in Machines(p, D), m.stack # <<>>,
           m.stack[1].pc > Len(FunctionNamed(p, m.stack[1].fn).body)
    PROVE  Step(p, m) = Halted(m)
<1>1. Head(m.stack) = m.stack[1]
  BY TopIs
<1>2. QED
  BY <1>1 DEF Step, Halted, DefinesSlot

LEMMA StepQuiet ==
    ASSUME NEW p, NEW D, NEW m, NEW body, NEW n, NEW i, AtInstruction(p, D, m, body, n, i), Quiet(i)
    PROVE  LET goes == Goes(body, n, m.stack[1].env, m.globals)
           IN  /\ goes = {} => Step(p, m) = Halted(m)
               /\ \A z \in goes : Step(p, m) = MovedTo(m, z[1], z[2])
<1> DEFINE t == m.stack[1]
           goes == Goes(body, n, t.env, m.globals)
           At(pc) == [m EXCEPT !.stack[1].pc = pc]
<1>1. /\ m \in Machines(p, D) /\ m.stack # <<>> /\ Head(m.stack) = t
      /\ body = FunctionNamed(p, t.fn).body /\ i = body[n] /\ n = t.pc /\ ~(t.pc > Len(body))
      /\ t \in Frames(p) /\ 1 \in DOMAIN m.stack
  <2>1. /\ m \in Machines(p, D) /\ m.stack # <<>> /\ body = FunctionNamed(p, t.fn).body
        /\ i = body[n] /\ n = t.pc /\ n \in 1 .. Len(body) /\ Len(body) \in Nat
    BY DEF AtInstruction
  <2>2. Head(m.stack) = t /\ t \in Frames(p) /\ 1 \in DOMAIN m.stack
    BY <2>1, TopIs, ZenonT(40)
  <2> HIDE DEF t
  <2>3. QED
    BY <2>1, <2>2
<1>2. ASSUME NEW k PROVE At(k) = MovedTo(m, k, t.env)
  <2>1. [t EXCEPT !.pc = k] = [t EXCEPT !.pc = k, !.env = t.env]
    BY <1>1 DEF Frames
  <2>2. QED
    BY <2>1 DEF MovedTo
<1> HIDE DEF t, At
<1>9. SUFFICES /\ goes = {} => Step(p, m) = Halted(m)
               /\ \A z \in goes : Step(p, m) = MovedTo(m, z[1], z[2])
  BY DEF t
<1>3. CASE i.op = "Label"
  <2>1. Step(p, m) = At(n + 1)
    BY <1>1, <1>3 DEF Step, At, DefinesSlot
  <2>2. goes = {<<n + 1, t.env>>}
    BY <1>1, <1>3 DEF Goes, DefinesSlot
  <2>3. At(n + 1) = MovedTo(m, n + 1, t.env)
    BY <1>2
  <2> HIDE DEF goes
  <2>4. goes # {}
    BY <2>2
  <2>5. ASSUME NEW z \in goes PROVE Step(p, m) = MovedTo(m, z[1], z[2])
    BY <2>1, <2>2, <2>3
  <2>6. QED
    BY <2>4, <2>5
<1>4. ASSUME NEW l
      PROVE  LET jump == IF l = NoLabel THEN At(n + 1)
                         ELSE IF l \in Labels(body) THEN At(PositionOf(body, l)) ELSE Halted(m)
             IN  /\ Lands(body, n, l) = {} => jump = Halted(m)
                 /\ \A k \in Lands(body, n, l) : jump = At(k)
  BY DEF Lands, Targets
<1>5. CASE i.op = "Goto"
  <2>1. Step(p, m) = IF i.label \in Labels(body) THEN At(PositionOf(body, i.label)) ELSE Halted(m)
    BY <1>1, <1>5 DEF Step, At, Halted, DefinesSlot
  <2>2. goes = {<<k, t.env>> : k \in Targets(body, i.label)}
    BY <1>1, <1>5 DEF Goes, DefinesSlot
  <2> HIDE DEF goes
  <2>3. ASSUME goes = {} PROVE Step(p, m) = Halted(m)
    <3>1. Targets(body, i.label) = {}
      BY <2>2, <2>3
    <3>2. QED
      BY <2>1, <3>1 DEF Targets
  <2>4. ASSUME NEW z \in goes PROVE Step(p, m) = MovedTo(m, z[1], z[2])
    <3>1. z[1] \in Targets(body, i.label) /\ z[2] = t.env
      BY <2>2
    <3>2. Step(p, m) = At(z[1])
      BY <2>1, <3>1 DEF Targets
    <3>3. QED
      BY <1>2, <3>1, <3>2
  <2>5. QED
    BY <2>3, <2>4
<1>6. CASE i.op = "Branch"
  <2> DEFINE l == IF t.env[i.lhs] # 0 THEN i.label ELSE i.falseLabel
  <2>1. CASE t.env[i.lhs] = Undef
    <3>1. Step(p, m) = Halted(m)
      BY <1>1, <1>6, <2>1 DEF Step, Halted, DefinesSlot
    <3>2. goes = {}
      BY <1>1, <1>6, <2>1 DEF Goes, DefinesSlot
    <3>3. QED
      BY <3>1, <3>2 DEF t
  <2>2. CASE t.env[i.lhs] # Undef
    <3>1. Step(p, m) = IF l = NoLabel THEN At(n + 1)
                       ELSE IF l \in Labels(body) THEN At(PositionOf(body, l)) ELSE Halted(m)
      BY <1>1, <1>6, <2>2 DEF Step, At, Halted, DefinesSlot
    <3>2. goes = {<<k, t.env>> : k \in Lands(body, n, l)}
      BY <1>1, <1>6, <2>2 DEF Goes, DefinesSlot
    <3> HIDE DEF l, goes
    <3>3. ASSUME goes = {} PROVE Step(p, m) = Halted(m)
      <4>1. Lands(body, n, l) = {}
        BY <3>2, <3>3
      <4>2. QED
        BY <1>4, <3>1, <4>1
    <3>4. ASSUME NEW z \in goes PROVE Step(p, m) = MovedTo(m, z[1], z[2])
      <4>1. z[1] \in Lands(body, n, l) /\ z[2] = t.env
        BY <3>2
      <4>2. Step(p, m) = At(z[1])
        BY <1>4, <3>1, <4>1
      <4>3. QED
        BY <1>2, <4>1, <4>2
    <3>5. QED
      BY <3>3, <3>4
  <2>3. QED
    BY <2>1, <2>2
<1>7. CASE DefinesSlot(i)
  <2> DEFINE e == [t.env EXCEPT ![i.dest] = Effect(i, t.env, m.globals)]
  <2>1. i.op \notin {"Label", "Goto", "Branch"}
    BY <1>7 DEF DefinesSlot
  <2>2. Step(p, m) = [m EXCEPT !.stack[1].pc = @ + 1,
                               !.stack[1].env[i.dest] = Effect(i, t.env, m.globals)]
    BY <1>1, <1>7, <2>1 DEF Step, DefinesSlot
  <2> DEFINE w == Effect(i, t.env, m.globals)
  <2>5. Step(p, m) = [m EXCEPT !.stack[1].pc = @ + 1, !.stack[1].env[i.dest] = w]
    BY <2>2
  <2> HIDE DEF w
  <2>6. m.stack[1] = t /\ t.pc = n
    BY <1>1 DEF t
  <2>7. [t EXCEPT !.pc = @ + 1, !.env[i.dest] = w]
            = [t EXCEPT !.pc = n + 1, !.env = [t.env EXCEPT ![i.dest] = w]]
    BY <1>1, <2>6 DEF Frames
  <2>8. DOMAIN m = {"stack", "globals", "halted", "result"}
    BY <1>1 DEF Machines
  <2> DEFINE s == m.stack
             t1 == [t EXCEPT !.pc = @ + 1]
             t2 == [t1 EXCEPT !.env[i.dest] = w]
             m1 == [m EXCEPT !.stack[1].pc = @ + 1]
             m2 == [m1 EXCEPT !.stack[1].env[i.dest] = w]
  <2>9. m2 = [m EXCEPT !.stack = [s EXCEPT ![1] = t2]]
    <3>1. m1 = [m EXCEPT !.stack = [s EXCEPT ![1] = t1]]
      BY <2>6
    <3>2. DOMAIN m1 = DOMAIN m /\ m1.stack = [s EXCEPT ![1] = t1] /\ m1.stack[1] = t1
      BY <1>1, <2>8, <3>1
    <3> HIDE DEF t1, m1
    <3>3. m2 = [m1 EXCEPT !.stack = [m1.stack EXCEPT ![1] = t2]]
      BY <3>2
    <3> HIDE DEF t2, m2
    <3>4. [m1.stack EXCEPT ![1] = t2] = [s EXCEPT ![1] = t2]
      BY <1>1, <3>2
    <3>5. QED
      BY <2>8, <3>1, <3>2, <3>3, <3>4
  <2>3. Step(p, m) = MovedTo(m, n + 1, e)
    BY <2>5, <2>6, <2>7, <2>9 DEF MovedTo, w, e
  <2>4. goes = {<<n + 1, e>>}
    BY <1>1, <1>7, <2>1 DEF Goes, DefinesSlot
  <2> HIDE DEF e, goes
  <2>10. goes # {}
    BY <2>4
  <2>11. ASSUME NEW z \in goes PROVE Step(p, m) = MovedTo(m, z[1], z[2])
    BY <2>3, <2>4
  <2>12. QED
    BY <2>10, <2>11
<1>8. QED
  BY <1>3, <1>5, <1>6, <1>7 DEF Quiet


LEMMA StepStore ==
    ASSUME NEW p, NEW D, NEW m, NEW body, NEW n, NEW i, AtInstruction(p, D, m, body, n, i),
           i.op = "StoreGlobal"
    PROVE  LET e == m.stack[1].env
           IN  Step(p, m) = [MovedTo(m, n + 1, e) EXCEPT !.globals = [m.globals EXCEPT ![i.name] = e[i.lhs]]]
<1> DEFINE t == m.stack[1]
<1>1. /\ m \in Machines(p, D) /\ Head(m.stack) = t
      /\ body = FunctionNamed(p, t.fn).body /\ i = body[n] /\ n = t.pc /\ ~(t.pc > Len(body))
      /\ t \in Frames(p) /\ 1 \in DOMAIN m.stack
  <2>1. /\ m \in Machines(p, D) /\ m.stack # <<>> /\ body = FunctionNamed(p, t.fn).body
        /\ i = body[n] /\ n = t.pc /\ n \in 1 .. Len(body) /\ Len(body) \in Nat
    BY DEF AtInstruction
  <2>2. Head(m.stack) = t /\ t \in Frames(p) /\ 1 \in DOMAIN m.stack
    BY <2>1, TopIs
  <2> HIDE DEF t
  <2>3. QED
    BY <2>1, <2>2
<1> HIDE DEF t
<1>2. Step(p, m) = [m EXCEPT !.stack[1].pc = @ + 1, !.globals[i.name] = t.env[i.lhs]]
  BY <1>1 DEF Step, DefinesSlot
<1>3. [t EXCEPT !.pc = @ + 1] = [t EXCEPT !.pc = n + 1, !.env = t.env]
  BY <1>1 DEF Frames
<1>4. QED
  BY <1>1, <1>2, <1>3 DEF MovedTo, t, Machines

Passed(i, env) == [k \in DOMAIN i.args |-> env[i.args[k]]]
Push(m, x) == [m EXCEPT !.stack = <<x>> \o @]

LEMMA StepCall ==
    ASSUME NEW p, NEW D, NEW m, NEW body, NEW n, NEW i, AtInstruction(p, D, m, body, n, i),
           i.op = "Call", i.name \in FunctionNames(p)
    PROVE  Step(p, m) = Push(m, Frame(FunctionNamed(p, i.name), Passed(i, m.stack[1].env), i.dest))
<1> DEFINE t == m.stack[1]
<1>1. /\ Head(m.stack) = t
      /\ body = FunctionNamed(p, t.fn).body /\ i = body[n] /\ n = t.pc /\ ~(t.pc > Len(body))
  <2>1. /\ m \in Machines(p, D) /\ m.stack # <<>> /\ body = FunctionNamed(p, t.fn).body
        /\ i = body[n] /\ n = t.pc /\ n \in 1 .. Len(body) /\ Len(body) \in Nat
    BY DEF AtInstruction
  <2>2. Head(m.stack) = t
    BY <2>1, TopIs
  <2> HIDE DEF t
  <2>3. QED
    BY <2>1, <2>2
<1> HIDE DEF t
<1>2. Step(p, m) = [m EXCEPT !.stack =
                        <<Frame(FunctionNamed(p, i.name),
                                [k \in DOMAIN i.args |-> t.env[i.args[k]]], i.dest)>> \o @]
  BY <1>1 DEF Step, DefinesSlot
<1>3. QED
  BY <1>2 DEF Push, Passed, t

\* what a returning instruction gives, and the stack it leaves
Given(i, env) == IF i.op = "Return" THEN env[i.lhs] ELSE Undef
Resumed(x, d, v) == [x EXCEPT !.pc = @ + 1, !.env = [@ EXCEPT ![d] = v]]
Pop(m, v) ==
    IF Len(m.stack) = 1 THEN [m EXCEPT !.halted = TRUE, !.result = v]
    ELSE [m EXCEPT !.stack = [Tail(m.stack) EXCEPT ![1] = Resumed(@, m.stack[1].dest, v)]]

LEMMA StepReturn ==
    ASSUME NEW p, NEW D, NEW m, NEW body, NEW n, NEW i, AtInstruction(p, D, m, body, n, i),
           i.op \in {"Return", "ReturnVoid"}
    PROVE  Step(p, m) = Pop(m, Given(i, m.stack[1].env))
<1> DEFINE t == m.stack[1]
           v == Given(i, t.env)
<1>1. /\ m \in Machines(p, D) /\ Head(m.stack) = t /\ m.stack \in Seq(Frames(p)) /\ m.stack # <<>>
      /\ body = FunctionNamed(p, t.fn).body /\ i = body[n] /\ n = t.pc /\ ~(t.pc > Len(body))
  <2>1. /\ m \in Machines(p, D) /\ m.stack # <<>> /\ body = FunctionNamed(p, t.fn).body
        /\ i = body[n] /\ n = t.pc /\ n \in 1 .. Len(body) /\ Len(body) \in Nat
    BY DEF AtInstruction
  <2>2. Head(m.stack) = t /\ m.stack \in Seq(Frames(p))
    BY <2>1, TopIs
  <2> HIDE DEF t
  <2>3. QED
    BY <2>1, <2>2
<1> HIDE DEF t
<1>2. Step(p, m) = IF Len(m.stack) = 1 THEN [m EXCEPT !.halted = TRUE, !.result = v]
                   ELSE [m EXCEPT !.stack = [Tail(m.stack) EXCEPT
                            ![1].pc = @ + 1, ![1].env[t.dest] = v]]
  <2>1. CASE i.op = "Return"
    BY <1>1, <2>1, ZenonT(40) DEF Step, DefinesSlot, Given
  <2>2. CASE i.op = "ReturnVoid"
    BY <1>1, <2>2, ZenonT(40) DEF Step, DefinesSlot, Given
  <2>3. QED
    BY <2>1, <2>2
<1> HIDE DEF v
<1>3. CASE Len(m.stack) = 1
  BY <1>2, <1>3 DEF Pop, v, t
<1>4. CASE Len(m.stack) # 1
  <2> DEFINE s == Tail(m.stack)
  <2>1. s \in Seq(Frames(p)) /\ s # <<>>
    <3> DEFINE F == Frames(p)
               r == m.stack
    <3>1. r \in Seq(F) /\ r # <<>> /\ Len(r) # 1
      BY <1>1, <1>4
    <3> HIDE DEF F, r
    <3>2. Tail(r) \in Seq(F) /\ Len(Tail(r)) = Len(r) - 1 /\ Len(r) \in Nat /\ Len(r) > 0
      BY <3>1
    <3>3. Len(Tail(r)) # 0
      BY <3>1, <3>2
    <3>6. Len(<<>>) = 0
      OBVIOUS
    <3>5. Tail(r) # <<>>
      BY <3>3, <3>6
    <3>4. QED
      BY <3>2, <3>5 DEF F, r
  <2> HIDE DEF s
  <2>2. 1 \in DOMAIN s /\ s[1] \in Frames(p)
    BY <2>1
  <2>3. [s EXCEPT ![1].pc = @ + 1, ![1].env[t.dest] = v] = [s EXCEPT ![1] = Resumed(@, t.dest, v)]
    BY <2>1, <2>2 DEF Resumed, Frames
  <2>4. QED
    BY <1>2, <1>4, <2>3 DEF Pop, v, t, s
<1>5. QED
  BY <1>3, <1>4

-----------------------------------------------------------------------------
(* Following.  A function is replaced by another; V says which position of *)
(* the one goes with which of the other, and with which slots.             *)

\* where a function with the body may be, and with which slots
Places(body, slotCount) == (1 .. Len(body) + 1) \X Envs(slotCount)

\* What g does at k with the slots b goes with what f does at n with a.
Answers(f, g, V, D, names, n, k, a, b) ==
    LET i == f.body[n]
        j == g.body[k]
        there == k \in DOMAIN g.body
    IN  /\ Quiet(i) =>
             \A G, H \in Memories(D) : AllBelow(G, H) =>
                \A z \in Goes(f.body, n, a, G) :
                   \/ <<z[1], k, z[2], b>> \in V
                   \/ /\ there /\ Quiet(j)
                      /\ \E y \in Goes(g.body, k, b, H) : <<z[1], y[1], z[2], y[2]>> \in V
        /\ i.op = "StoreGlobal" =>
             /\ there /\ j.op = "StoreGlobal" /\ j.name = i.name
             /\ a[i.lhs] \in Values /\ b[j.lhs] \in Values /\ Below(a[i.lhs], b[j.lhs])
             /\ <<n + 1, k + 1, a, b>> \in V
        /\ i.op = "Call" =>
             /\ there /\ j.op = "Call" /\ j.name = i.name /\ i.name \in names
             /\ Passed(i, a) \in Seq(Values) /\ Passed(j, b) \in Seq(Values)
             /\ Len(Passed(j, b)) = Len(Passed(i, a)) /\ AllBelow(Passed(i, a), Passed(j, b))
             /\ \A v, w \in Values : Below(v, w) =>
                   <<n + 1, k + 1, [a EXCEPT ![i.dest] = v], [b EXCEPT ![j.dest] = w]>> \in V
        /\ i.op \in {"Return", "ReturnVoid"} =>
             /\ there /\ j.op \in {"Return", "ReturnVoid"}
             /\ Given(i, a) \in Values /\ Given(j, b) \in Values /\ Below(Given(i, a), Given(j, b))

\* g follows f: it can start when f does, and at all places V tells has an answer
Follows(f, g, V, D, names) ==
    /\ \A n, k, a, b : <<n, k, a, b>> \in V =>
          /\ <<n, a>> \in Places(f.body, f.slotCount) /\ <<k, b>> \in Places(g.body, g.slotCount)
          /\ n =< Len(f.body) => Answers(f, g, V, D, names, n, k, a, b)
    /\ \A c, d \in Seq(Values) : \A x :
          Len(c) = Len(f.params) /\ Len(d) = Len(f.params) /\ AllBelow(c, d) =>
             <<1, 1, Frame(f, c, x).env, Frame(g, d, x).env>> \in V

\* q, whose functions follow those of p of the same name: all that a run can get to
FollowsAll(p, q, V, D, names) ==
    /\ IsProgram(p) /\ IsProgram(q)
    /\ "main" \in names /\ names \subseteq FunctionNames(p) /\ names \subseteq FunctionNames(q)
    /\ \A f \in names : Follows(FunctionNamed(p, f), FunctionNamed(q, f), V[f], D, names)

\* Frames that go together: at work, and waiting for a call to return.
AtWorkOn(x, y, V, names) ==
    x.fn \in names /\ y.fn = x.fn /\ <<x.pc, y.pc, x.env, y.env>> \in V[x.fn]
WaitingFor(x, y, d, e, V, names) ==
    /\ x.fn \in names /\ y.fn = x.fn
    /\ \A v, w \in Values : Below(v, w) =>
          <<x.pc + 1, y.pc + 1, [x.env EXCEPT ![d] = v], [y.env EXCEPT ![e] = w]>> \in V[x.fn]

Together(m, n, V, names) ==
    IF m.halted THEN m.result # Undef => n.halted /\ n.result = m.result
    ELSE /\ m.result = Undef /\ ~n.halted
         /\ m.stack # <<>> /\ Len(n.stack) = Len(m.stack)
         /\ AllBelow(m.globals, n.globals)
         /\ AtWorkOn(m.stack[1], n.stack[1], V, names)
         /\ \A k \in 2 .. Len(m.stack) :
               WaitingFor(m.stack[k], n.stack[k], m.stack[k - 1].dest, n.stack[k - 1].dest, V, names)

Companions(p, q, V, D, names) ==
    {z \in Machines(p, D) \X Machines(q, D) : Together(z[1], z[2], V, names)}

\* m1 is m but for where its topmost frame is, its slots and the globals.
OnlyTop(m, m1, k, e) ==
    /\ m1.halted = m.halted /\ m1.result = m.result /\ Len(m1.stack) = Len(m.stack)
    /\ m1.stack[1].fn = m.stack[1].fn /\ m1.stack[1].dest = m.stack[1].dest
    /\ m1.stack[1].pc = k /\ m1.stack[1].env = e
    /\ \A l \in 2 .. Len(m.stack) : m1.stack[l] = m.stack[l]

LEMMA MovedToIs ==
    ASSUME NEW p, NEW D, NEW m \in Machines(p, D), m.stack # <<>>, NEW k \in Nat,
           NEW c \in Nat, NEW e \in Envs(c)
    PROVE  /\ MovedTo(m, k, e) \in Machines(p, D) /\ MovedTo(m, k, e).globals = m.globals
           /\ OnlyTop(m, MovedTo(m, k, e), k, e)
<1> DEFINE F == Frames(p)
           s == m.stack
           x == [s[1] EXCEPT !.pc = k, !.env = e]
           r == [s EXCEPT ![1] = x]
<1>1. s \in Seq(F) /\ 1 \in DOMAIN s /\ s[1] \in F /\ Len(s) \in Nat
  BY TopIs
<1>2. x \in F /\ x.fn = s[1].fn /\ x.dest = s[1].dest /\ x.pc = k /\ x.env = e
  <2> DEFINE E == UNION {Envs(l) : l \in Nat}
  <2>1. e \in E
    OBVIOUS
  <2> HIDE DEF E
  <2>2. Frames(p) = [fn : FunctionNames(p), pc : Nat, dest : Int, env : E]
    BY DEF Frames, E
  <2> DEFINE z == s[1]
  <2>3. z \in [fn : FunctionNames(p), pc : Nat, dest : Int, env : E]
    BY <1>1, <2>2
  <2> HIDE DEF z
  <2>4. /\ [z EXCEPT !.pc = k, !.env = e] \in [fn : FunctionNames(p), pc : Nat, dest : Int, env : E]
        /\ [z EXCEPT !.pc = k, !.env = e].fn = z.fn /\ [z EXCEPT !.pc = k, !.env = e].dest = z.dest
        /\ [z EXCEPT !.pc = k, !.env = e].pc = k /\ [z EXCEPT !.pc = k, !.env = e].env = e
    BY <2>1, <2>3
  <2>5. QED
    BY <2>2, <2>4 DEF z
<1>3. MovedTo(m, k, e) = [m EXCEPT !.stack = r]
  BY DEF MovedTo
<1> HIDE DEF F, x
<1>4. r \in Seq(F) /\ Len(r) = Len(s) /\ r[1] = x /\ \A l \in 2 .. Len(s) : r[l] = s[l]
  BY <1>1, <1>2
<1> HIDE DEF r
<1>5. [m EXCEPT !.stack = r] \in Machines(p, D)
  BY <1>4 DEF F, Machines
<1>6. /\ [m EXCEPT !.stack = r].stack = r /\ [m EXCEPT !.stack = r].globals = m.globals
      /\ [m EXCEPT !.stack = r].halted = m.halted /\ [m EXCEPT !.stack = r].result = m.result
  BY DEF Machines
<1>7. QED
  BY <1>2, <1>3, <1>4, <1>5, <1>6 DEF OnlyTop

\* Both stay together when they go where V allows.
LEMMA MoveTogether ==
    ASSUME NEW p, NEW q, NEW V, NEW D, NEW names, NEW m, NEW n,
           <<m, n>> \in Companions(p, q, V, D, names), ~m.halted,
           NEW m1 \in Machines(p, D), NEW n1 \in Machines(q, D), AllBelow(m1.globals, n1.globals),
           NEW k, NEW l, NEW a, NEW b, OnlyTop(m, m1, k, a), OnlyTop(n, n1, l, b),
           <<k, l, a, b>> \in V[m.stack[1].fn]
    PROVE  <<m1, n1>> \in Companions(p, q, V, D, names)
<1>1. /\ m \in Machines(p, D) /\ n \in Machines(q, D) /\ m.result = Undef /\ ~n.halted
      /\ m.stack # <<>> /\ Len(n.stack) = Len(m.stack)
      /\ AtWorkOn(m.stack[1], n.stack[1], V, names)
      /\ \A j \in 2 .. Len(m.stack) :
            WaitingFor(m.stack[j], n.stack[j], m.stack[j - 1].dest, n.stack[j - 1].dest, V, names)
  BY DEF Companions, Together
<1>2. m1.stack # <<>> /\ Len(m1.stack) = Len(m.stack) /\ Len(m.stack) \in Nat
  <2>1. Len(m.stack) \in Nat /\ Len(m.stack) >= 1
    BY <1>1, TopIs
  <2>2. Len(<<>>) = 0
    OBVIOUS
  <2>3. QED
    BY <2>1, <2>2 DEF OnlyTop
<1>3. AtWorkOn(m1.stack[1], n1.stack[1], V, names)
  BY <1>1 DEF AtWorkOn, OnlyTop
<1>4. ASSUME NEW j \in 2 .. Len(m1.stack)
      PROVE  WaitingFor(m1.stack[j], n1.stack[j], m1.stack[j - 1].dest, n1.stack[j - 1].dest, V, names)
  <2>1. m1.stack[j] = m.stack[j] /\ n1.stack[j] = n.stack[j]
    BY <1>1, <1>2 DEF OnlyTop
  <2>2. m1.stack[j - 1].dest = m.stack[j - 1].dest /\ n1.stack[j - 1].dest = n.stack[j - 1].dest
    <3>1. CASE j = 2
      <4>1. j - 1 = 1
        BY <3>1
      <4>2. QED
        BY <4>1 DEF OnlyTop
    <3>2. CASE j # 2
      <4>1. j - 1 \in 2 .. Len(m.stack)
        BY <1>2, <3>2
      <4>2. QED
        BY <1>1, <4>1 DEF OnlyTop
    <3>3. QED
      BY <3>1, <3>2
  <2>3. QED
    BY <1>1, <1>2, <2>1, <2>2
<1>5. ~m1.halted /\ ~n1.halted /\ m1.result = Undef /\ Len(n1.stack) = Len(m1.stack)
  BY <1>1 DEF OnlyTop
<1>6. Together(m1, n1, V, names)
  BY <1>2, <1>3, <1>4, <1>5 DEF Together
<1>7. QED
  BY <1>6 DEF Companions

\* A program that is stuck returns nothing; the other may do anything.
LEMMA HaltedTogether ==
    ASSUME NEW p, NEW q, NEW V, NEW D, NEW names, NEW m, NEW n,
           <<m, n>> \in Companions(p, q, V, D, names), ~m.halted
    PROVE  <<Halted(m), n>> \in Companions(p, q, V, D, names)
<1>1. m \in Machines(p, D) /\ n \in Machines(q, D) /\ m.result = Undef
  BY DEF Companions, Together
<1>2. Halted(m) \in Machines(p, D) /\ Halted(m).halted = TRUE /\ Halted(m).result = Undef
  BY <1>1 DEF Halted, Machines
<1>3. QED
  BY <1>1, <1>2 DEF Companions, Together


LEMMA FunctionFacts ==
    ASSUME NEW p, IsProgram(p), NEW f \in FunctionNames(p)
    PROVE  LET fn == FunctionNamed(p, f)
           IN  /\ fn.name = f /\ fn.slotCount \in Nat /\ IsFunction(fn, Arity(p))
               /\ Len(fn.body) \in Nat /\ DOMAIN fn.body = 1 .. Len(fn.body)
               /\ Len(fn.params) \in Nat /\ Arity(p)[f] = Len(fn.params)
               /\ fn.params \in Seq(Slots(fn.slotCount))
               /\ \A n \in DOMAIN fn.body :
                     IsInstruction(fn.body[n]) /\ FitsFrame(fn.body[n], fn.slotCount, Arity(p))
<1> DEFINE fn == FunctionNamed(p, f)
<1>1. PICK k \in DOMAIN p.functions : p.functions[k].name = f /\ fn = p.functions[k]
  BY NamedIs
<1>2. IsFunction(fn, Arity(p))
  BY <1>1 DEF IsProgram
<1>3. fn.slotCount \in Nat /\ fn.params \in Seq(Slots(fn.slotCount)) /\ IsList(fn.body)
  BY <1>2 DEF IsFunction, Slots
<1>4. Len(fn.body) \in Nat /\ DOMAIN fn.body = 1 .. Len(fn.body) /\ Len(fn.params) \in Nat
  BY <1>3 DEF IsList
<1>5. Arity(p)[f] = Len(fn.params)
  BY DEF Arity
<1>6. \A n \in DOMAIN fn.body :
          IsInstruction(fn.body[n]) /\ FitsFrame(fn.body[n], fn.slotCount, Arity(p))
  BY <1>2 DEF IsFunction
<1> HIDE DEF fn
<1>7. QED
  BY <1>1, <1>2, <1>3, <1>4, <1>5, <1>6 DEF fn

\* Where companions are.
Paired(p, q, V, D, names, m, n) ==
    LET x == m.stack[1]
        y == n.stack[1]
        f == FunctionNamed(p, x.fn)
        g == FunctionNamed(q, x.fn)
    IN  /\ m \in Machines(p, D) /\ n \in Machines(q, D) /\ m.result = Undef /\ ~n.halted
        /\ m.stack # <<>> /\ n.stack # <<>> /\ Len(n.stack) = Len(m.stack)
        /\ AllBelow(m.globals, n.globals)
        /\ x.fn \in names /\ x.fn \in FunctionNames(p) /\ x.fn \in FunctionNames(q) /\ y.fn = x.fn
        /\ <<x.pc, y.pc, x.env, y.env>> \in V[x.fn]
        /\ x.pc \in Nat /\ y.pc \in Nat /\ f.slotCount \in Nat /\ g.slotCount \in Nat
        /\ x.env \in Envs(f.slotCount) /\ y.env \in Envs(g.slotCount)
        /\ Follows(f, g, V[x.fn], D, names)
        /\ \/ x.pc > Len(f.body)
           \/ /\ AtInstruction(p, D, m, f.body, x.pc, f.body[x.pc])
              /\ Answers(f, g, V[x.fn], D, names, x.pc, y.pc, x.env, y.env)
        /\ y.pc \in DOMAIN g.body => AtInstruction(q, D, n, g.body, y.pc, g.body[y.pc])

LEMMA WhereTheyAre ==
    ASSUME NEW p, NEW q, NEW V, NEW D, NEW names, FollowsAll(p, q, V, D, names), NEW m, NEW n,
           <<m, n>> \in Companions(p, q, V, D, names), ~m.halted
    PROVE  Paired(p, q, V, D, names, m, n)
<1> DEFINE x == m.stack[1]
           y == n.stack[1]
           f == FunctionNamed(p, x.fn)
           g == FunctionNamed(q, x.fn)
<1>1. /\ m \in Machines(p, D) /\ n \in Machines(q, D) /\ m.result = Undef /\ ~n.halted
      /\ m.stack # <<>> /\ Len(n.stack) = Len(m.stack) /\ AllBelow(m.globals, n.globals)
      /\ AtWorkOn(x, y, V, names)
  BY DEF Companions, Together
<1>2. n.stack # <<>>
  <2>1. Len(m.stack) \in Nat /\ Len(m.stack) >= 1 /\ Len(<<>>) = 0
    BY <1>1, TopIs
  <2>2. QED
    BY <1>1, <2>1
<1>3. /\ x.fn \in names /\ y.fn = x.fn /\ <<x.pc, y.pc, x.env, y.env>> \in V[x.fn]
      /\ x.fn \in FunctionNames(p) /\ x.fn \in FunctionNames(q) /\ IsProgram(p) /\ IsProgram(q)
      /\ Follows(f, g, V[x.fn], D, names)
  BY <1>1 DEF AtWorkOn, FollowsAll
<1>4. /\ f.slotCount \in Nat /\ g.slotCount \in Nat /\ Len(f.body) \in Nat /\ Len(g.body) \in Nat
      /\ DOMAIN g.body = 1 .. Len(g.body)
  BY <1>3, FunctionFacts
<1> HIDE DEF x, y, f, g
<1>5. /\ <<x.pc, x.env>> \in Places(f.body, f.slotCount) /\ <<y.pc, y.env>> \in Places(g.body, g.slotCount)
      /\ x.pc =< Len(f.body) => Answers(f, g, V[x.fn], D, names, x.pc, y.pc, x.env, y.env)
  BY <1>3 DEF Follows
<1>6. /\ x.pc \in 1 .. Len(f.body) + 1 /\ x.env \in Envs(f.slotCount)
      /\ y.pc \in 1 .. Len(g.body) + 1 /\ y.env \in Envs(g.slotCount)
  BY <1>5 DEF Places
<1>7. x.pc \in Nat /\ y.pc \in Nat /\ (x.pc > Len(f.body) \/ x.pc \in 1 .. Len(f.body))
  BY <1>4, <1>6
<1>8. x.pc \in 1 .. Len(f.body) => AtInstruction(p, D, m, f.body, x.pc, f.body[x.pc])
  BY <1>1, <1>4 DEF AtInstruction, x, f
<1>9. y.pc \in DOMAIN g.body => AtInstruction(q, D, n, g.body, y.pc, g.body[y.pc])
  BY <1>1, <1>2, <1>3, <1>4 DEF AtInstruction, y, g
<1>10. x.pc \in 1 .. Len(f.body) => x.pc =< Len(f.body)
  BY <1>4
<1>11. QED
  BY <1>1, <1>2, <1>3, <1>4, <1>5, <1>6, <1>7, <1>8, <1>9, <1>10 DEF x, y, f, g, Paired


-----------------------------------------------------------------------------
(* Companions stay together. *)

\* over an instruction that only moves on
LEMMA QuietTogether ==
    ASSUME NEW p, NEW q, NEW V, NEW D, NEW names, FollowsAll(p, q, V, D, names), NEW m, NEW n,
           <<m, n>> \in Companions(p, q, V, D, names), ~m.halted,
           NEW body, NEW k, NEW i, AtInstruction(p, D, m, body, k, i), Quiet(i)
    PROVE  \/ <<Step(p, m), n>> \in Companions(p, q, V, D, names)
           \/ ~n.halted /\ <<Step(p, m), Step(q, n)>> \in Companions(p, q, V, D, names)
<1> DEFINE x == m.stack[1]
           y == n.stack[1]
           f == FunctionNamed(p, x.fn)
           g == FunctionNamed(q, x.fn)
           goes == Goes(body, k, x.env, m.globals)
           U == V[x.fn]
<1>1. /\ m \in Machines(p, D) /\ n \in Machines(q, D) /\ ~n.halted /\ m.stack # <<>> /\ n.stack # <<>>
      /\ AllBelow(m.globals, n.globals) /\ <<x.pc, y.pc, x.env, y.env>> \in U
      /\ y.pc \in Nat /\ f.slotCount \in Nat /\ g.slotCount \in Nat
      /\ x.env \in Envs(f.slotCount) /\ y.env \in Envs(g.slotCount) /\ Follows(f, g, U, D, names)
      /\ \/ x.pc > Len(f.body)
         \/ Answers(f, g, U, D, names, x.pc, y.pc, x.env, y.env)
      /\ y.pc \in DOMAIN g.body => AtInstruction(q, D, n, g.body, y.pc, g.body[y.pc])
  <2>1. Paired(p, q, V, D, names, m, n)
    BY WhereTheyAre
  <2>2. QED
    BY <2>1 DEF Paired
<1>2. body = f.body /\ k = x.pc /\ i = f.body[x.pc] /\ ~(x.pc > Len(f.body))
  BY DEF AtInstruction
<1>3. m.globals \in Memories(D) /\ n.globals \in Memories(D)
  BY <1>1 DEF Machines
<1>4. /\ goes = {} => Step(p, m) = Halted(m)
      /\ \A z \in goes : Step(p, m) = MovedTo(m, z[1], z[2])
  BY StepQuiet
<1>5. CASE goes = {}
  BY <1>4, <1>5, HaltedTogether
<1>6. CASE goes # {}
  <2>1. PICK z \in goes : TRUE
    BY <1>6
  <2> HIDE DEF x, y, f, g
  <2>2. \/ <<z[1], y.pc, z[2], y.env>> \in U
        \/ /\ y.pc \in DOMAIN g.body /\ Quiet(g.body[y.pc])
           /\ \E w \in Goes(g.body, y.pc, y.env, n.globals) : <<z[1], w[1], z[2], w[2]>> \in U
    <3>1. Answers(f, g, U, D, names, x.pc, y.pc, x.env, y.env)
      BY <1>1, <1>2
    <3>2. z \in Goes(f.body, x.pc, x.env, m.globals)
      BY <1>2, <2>1
    <3> HIDE DEF goes, U
    <3>3. QED
      BY <1>1, <1>2, <1>3, <3>1, <3>2 DEF Answers
  <2>3. Step(p, m) = MovedTo(m, z[1], z[2])
    BY <1>4, <2>1
  <2>4. \A a, b, c, d : <<a, b, c, d>> \in U =>
           a \in Nat /\ b \in Nat /\ c \in Envs(f.slotCount) /\ d \in Envs(g.slotCount)
    <3>1. \A a, b, c, d : <<a, b, c, d>> \in U =>
             <<a, c>> \in Places(f.body, f.slotCount) /\ <<b, d>> \in Places(g.body, g.slotCount)
      BY <1>1 DEF Follows
    <3> HIDE DEF U
    <3>2. ASSUME NEW body1, NEW c, NEW a, NEW b, <<a, b>> \in Places(body1, c)
          PROVE  a \in Nat /\ b \in Envs(c)
      BY <3>2 DEF Places
    <3>3. QED
      BY <3>1, <3>2
  <2> HIDE DEF goes
  <2>5. CASE <<z[1], y.pc, z[2], y.env>> \in U
    <3>1. z[1] \in Nat /\ z[2] \in Envs(f.slotCount)
      BY <2>4, <2>5
    <3>2. /\ MovedTo(m, z[1], z[2]) \in Machines(p, D) /\ MovedTo(m, z[1], z[2]).globals = m.globals
          /\ OnlyTop(m, MovedTo(m, z[1], z[2]), z[1], z[2])
      BY <1>1, <3>1, MovedToIs
    <3>3. OnlyTop(n, n, y.pc, y.env)
      BY DEF OnlyTop, y
    <3>4. <<MovedTo(m, z[1], z[2]), n>> \in Companions(p, q, V, D, names)
      BY <1>1, <2>5, <3>2, <3>3, MoveTogether DEF U, x
    <3>5. QED
      BY <2>3, <3>4
  <2>6. ASSUME y.pc \in DOMAIN g.body, Quiet(g.body[y.pc]),
               NEW w \in Goes(g.body, y.pc, y.env, n.globals), <<z[1], w[1], z[2], w[2]>> \in U
        PROVE  <<Step(p, m), Step(q, n)>> \in Companions(p, q, V, D, names)
    <3>1. /\ z[1] \in Nat /\ z[2] \in Envs(f.slotCount) /\ w[1] \in Nat /\ w[2] \in Envs(g.slotCount)
      BY <2>4, <2>6
    <3>2. Step(q, n) = MovedTo(n, w[1], w[2])
      <4>1. AtInstruction(q, D, n, g.body, y.pc, g.body[y.pc])
        BY <1>1, <2>6
      <4>2. QED
        BY <2>6, <4>1, StepQuiet DEF y
    <3>3. /\ MovedTo(m, z[1], z[2]) \in Machines(p, D) /\ MovedTo(m, z[1], z[2]).globals = m.globals
          /\ OnlyTop(m, MovedTo(m, z[1], z[2]), z[1], z[2])
      BY <1>1, <3>1, MovedToIs
    <3>4. /\ MovedTo(n, w[1], w[2]) \in Machines(q, D) /\ MovedTo(n, w[1], w[2]).globals = n.globals
          /\ OnlyTop(n, MovedTo(n, w[1], w[2]), w[1], w[2])
      BY <1>1, <3>1, MovedToIs
    <3>5. <<MovedTo(m, z[1], z[2]), MovedTo(n, w[1], w[2])>> \in Companions(p, q, V, D, names)
      BY <1>1, <2>6, <3>3, <3>4, MoveTogether DEF U, x
    <3>6. QED
      BY <2>3, <3>2, <3>5
  <2>7. QED
    BY <1>1, <2>2, <2>3, <2>5, <2>6
<1>7. QED
  BY <1>5, <1>6

\* r with the value v in the global e
Stored(r, e, v) == [r EXCEPT !.globals = [r.globals EXCEPT ![e] = v]]
IsStored(s, P, D, r, e, v, r0, a, b) ==
    s \in Machines(P, D) /\ OnlyTop(r0, s, a, b) /\ s.globals = [r.globals EXCEPT ![e] = v]

LEMMA StoredIs ==
    ASSUME NEW P, NEW D, NEW r \in Machines(P, D), NEW e, NEW v \in Values, NEW r0, NEW a, NEW b,
           OnlyTop(r0, r, a, b)
    PROVE  IsStored(Stored(r, e, v), P, D, r, e, v, r0, a, b)
<1> DEFINE h == [r.globals EXCEPT ![e] = v]
           rr == [r EXCEPT !.globals = h]
<1>1. h \in Memories(D)
  BY DEF Machines, Memories
<1> HIDE DEF h
<1>2. /\ rr \in Machines(P, D) /\ rr.globals = h /\ rr.stack = r.stack
      /\ rr.halted = r.halted /\ rr.result = r.result
  BY <1>1 DEF Machines
<1> HIDE DEF rr
<1>3. OnlyTop(r0, rr, a, b)
  BY <1>2 DEF OnlyTop
<1>4. QED
  BY <1>2, <1>3 DEF h, rr, Stored, IsStored

\* over a store
LEMMA StoreTogether ==
    ASSUME NEW p, NEW q, NEW V, NEW D, NEW names, FollowsAll(p, q, V, D, names), NEW m, NEW n,
           <<m, n>> \in Companions(p, q, V, D, names), ~m.halted,
           NEW body, NEW k, NEW i, AtInstruction(p, D, m, body, k, i), i.op = "StoreGlobal"
    PROVE  ~n.halted /\ <<Step(p, m), Step(q, n)>> \in Companions(p, q, V, D, names)
<1> DEFINE x == m.stack[1]
           y == n.stack[1]
           f == FunctionNamed(p, x.fn)
           g == FunctionNamed(q, x.fn)
           j == g.body[y.pc]
           U == V[x.fn]
           m1 == MovedTo(m, x.pc + 1, x.env)
           n1 == MovedTo(n, y.pc + 1, y.env)
           m2 == Stored(m1, i.name, x.env[i.lhs])
           n2 == Stored(n1, j.name, y.env[j.lhs])
<1>1. /\ m \in Machines(p, D) /\ n \in Machines(q, D) /\ ~n.halted /\ m.stack # <<>> /\ n.stack # <<>>
      /\ AllBelow(m.globals, n.globals) /\ x.pc \in Nat
      /\ y.pc \in Nat /\ f.slotCount \in Nat /\ g.slotCount \in Nat
      /\ x.env \in Envs(f.slotCount) /\ y.env \in Envs(g.slotCount)
      /\ \/ x.pc > Len(f.body)
         \/ Answers(f, g, U, D, names, x.pc, y.pc, x.env, y.env)
      /\ y.pc \in DOMAIN g.body => AtInstruction(q, D, n, g.body, y.pc, g.body[y.pc])
  <2>1. Paired(p, q, V, D, names, m, n)
    BY WhereTheyAre
  <2>2. QED
    BY <2>1 DEF Paired
<1>2. body = f.body /\ k = x.pc /\ i = f.body[x.pc] /\ ~(x.pc > Len(f.body))
  BY DEF AtInstruction
<1>3. m.globals \in Memories(D) /\ n.globals \in Memories(D)
  BY <1>1 DEF Machines
<1>4. /\ m1 \in Machines(p, D) /\ m1.globals = m.globals /\ OnlyTop(m, m1, x.pc + 1, x.env)
      /\ n1 \in Machines(q, D) /\ n1.globals = n.globals /\ OnlyTop(n, n1, y.pc + 1, y.env)
  <2> HIDE DEF x, y
  <2>1. x.pc + 1 \in Nat /\ y.pc + 1 \in Nat
    BY <1>1
  <2>2. QED
    BY <1>1, <2>1, MovedToIs
<1>5. /\ y.pc \in DOMAIN g.body /\ j.op = "StoreGlobal" /\ j.name = i.name
      /\ x.env[i.lhs] \in Values /\ y.env[j.lhs] \in Values /\ Below(x.env[i.lhs], y.env[j.lhs])
      /\ <<x.pc + 1, y.pc + 1, x.env, y.env>> \in U
  <2> HIDE DEF x, y, f, g, U
  <2>1. Answers(f, g, U, D, names, x.pc, y.pc, x.env, y.env)
    BY <1>1, <1>2
  <2>2. QED
    BY <1>2, <2>1 DEF Answers
<1>6. Step(p, m) = m2
  <2>1. Step(p, m) = [MovedTo(m, k + 1, x.env) EXCEPT
                        !.globals = [m.globals EXCEPT ![i.name] = x.env[i.lhs]]]
    BY StepStore
  <2>2. QED
    BY <1>2, <1>4, <2>1 DEF Stored
<1>7. Step(q, n) = n2
  <2>1. AtInstruction(q, D, n, g.body, y.pc, j)
    BY <1>1, <1>5
  <2>2. Step(q, n) = [MovedTo(n, y.pc + 1, y.env) EXCEPT
                        !.globals = [n.globals EXCEPT ![j.name] = y.env[j.lhs]]]
    <3> HIDE DEF g, j
    <3>1. QED
      BY <1>5, <2>1, StepStore
  <2>3. QED
    BY <1>4, <2>2 DEF Stored
<1> HIDE DEF x, y, f, g, j, m1, n1, U
<1>9. /\ m2 \in Machines(p, D) /\ OnlyTop(m, m2, x.pc + 1, x.env)
      /\ m2.globals = [m.globals EXCEPT ![i.name] = x.env[i.lhs]]
  <2>1. m1 \in Machines(p, D) /\ m1.globals = m.globals /\ OnlyTop(m, m1, x.pc + 1, x.env)
        /\ x.env[i.lhs] \in Values
    BY <1>4, <1>5
  <2> DEFINE e == x.env[i.lhs]
             a == x.pc + 1
  <2>2. IsStored(m2, p, D, m1, i.name, e, m, a, x.env)
    BY <2>1, StoredIs
  <2>3. QED
    BY <2>1, <2>2 DEF IsStored
<1>10. /\ n2 \in Machines(q, D) /\ OnlyTop(n, n2, y.pc + 1, y.env)
       /\ n2.globals = [n.globals EXCEPT ![j.name] = y.env[j.lhs]]
  <2>1. n1 \in Machines(q, D) /\ n1.globals = n.globals /\ OnlyTop(n, n1, y.pc + 1, y.env)
        /\ y.env[j.lhs] \in Values
    BY <1>4, <1>5
  <2> DEFINE e == y.env[j.lhs]
             a == y.pc + 1
  <2>2. IsStored(n2, q, D, n1, j.name, e, n, a, y.env)
    BY <2>1, StoredIs
  <2>3. QED
    BY <2>1, <2>2 DEF IsStored
<1>11. AllBelow(m2.globals, n2.globals)
  BY <1>1, <1>3, <1>5, <1>9, <1>10 DEF AllBelow, Memories
<1> HIDE DEF m2, n2
<1>12. <<m2, n2>> \in Companions(p, q, V, D, names)
  BY <1>5, <1>9, <1>10, <1>11, MoveTogether DEF U, x
<1>13. QED
  BY <1>1, <1>6, <1>7, <1>12


\* over a call
LEMMA PushIs ==
    ASSUME NEW p, NEW D, NEW m \in Machines(p, D), NEW u \in Frames(p)
    PROVE  /\ Push(m, u) \in Machines(p, D) /\ Push(m, u).globals = m.globals
           /\ Push(m, u).halted = m.halted /\ Push(m, u).result = m.result
           /\ Len(m.stack) \in Nat /\ Len(Push(m, u).stack) = Len(m.stack) + 1 /\ Push(m, u).stack[1] = u
           /\ Push(m, u).stack # <<>>
           /\ \A l \in 2 .. Len(m.stack) + 1 : Push(m, u).stack[l] = m.stack[l - 1]
<1> DEFINE F == Frames(p)
           s == m.stack
           r == <<u>> \o s
<1>1. s \in Seq(F) /\ u \in F
  BY DEF Machines
<1>2. Push(m, u) = [m EXCEPT !.stack = r]
  BY DEF Push
<1> HIDE DEF F, s
<1>3. /\ r \in Seq(F) /\ Len(s) \in Nat /\ Len(r) = Len(s) + 1 /\ r[1] = u
      /\ \A l \in 2 .. Len(s) + 1 : r[l] = s[l - 1]
  BY <1>1
<1> HIDE DEF r
<1>4. r # <<>>
  BY <1>3
<1>5. [m EXCEPT !.stack = r] \in Machines(p, D)
  BY <1>3 DEF F, Machines
<1>6. /\ [m EXCEPT !.stack = r].stack = r /\ [m EXCEPT !.stack = r].globals = m.globals
      /\ [m EXCEPT !.stack = r].halted = m.halted /\ [m EXCEPT !.stack = r].result = m.result
  BY DEF Machines
<1>7. QED
  BY <1>2, <1>3, <1>4, <1>5, <1>6 DEF s

LEMMA PushTogether ==
    ASSUME NEW p, NEW q, NEW V, NEW D, NEW names, NEW m, NEW n,
           <<m, n>> \in Companions(p, q, V, D, names), ~m.halted,
           NEW u \in Frames(p), NEW v \in Frames(q), AtWorkOn(u, v, V, names),
           WaitingFor(m.stack[1], n.stack[1], u.dest, v.dest, V, names)
    PROVE  <<Push(m, u), Push(n, v)>> \in Companions(p, q, V, D, names)
<1>1. /\ m \in Machines(p, D) /\ n \in Machines(q, D) /\ m.result = Undef /\ ~n.halted
      /\ Len(n.stack) = Len(m.stack) /\ AllBelow(m.globals, n.globals)
      /\ \A j \in 2 .. Len(m.stack) :
            WaitingFor(m.stack[j], n.stack[j], m.stack[j - 1].dest, n.stack[j - 1].dest, V, names)
  BY DEF Companions, Together
<1> DEFINE m1 == Push(m, u)
           n1 == Push(n, v)
<1>2. /\ m1 \in Machines(p, D) /\ m1.globals = m.globals /\ m1.halted = m.halted /\ m1.result = m.result
      /\ Len(m.stack) \in Nat /\ Len(m1.stack) = Len(m.stack) + 1 /\ m1.stack[1] = u /\ m1.stack # <<>>
      /\ \A l \in 2 .. Len(m.stack) + 1 : m1.stack[l] = m.stack[l - 1]
  BY <1>1, PushIs
<1>3. /\ n1 \in Machines(q, D) /\ n1.globals = n.globals /\ n1.halted = n.halted
      /\ Len(n1.stack) = Len(n.stack) + 1 /\ n1.stack[1] = v
      /\ \A l \in 2 .. Len(n.stack) + 1 : n1.stack[l] = n.stack[l - 1]
  BY <1>1, PushIs
<1> HIDE DEF m1, n1
<1>4. ASSUME NEW j \in 2 .. Len(m1.stack)
      PROVE  WaitingFor(m1.stack[j], n1.stack[j], m1.stack[j - 1].dest, n1.stack[j - 1].dest, V, names)
  <2>1. m1.stack[j] = m.stack[j - 1] /\ n1.stack[j] = n.stack[j - 1]
    BY <1>1, <1>2, <1>3
  <2>2. CASE j = 2
    <3>1. j - 1 = 1
      BY <2>2
    <3>2. QED
      BY <1>2, <1>3, <2>1, <3>1
  <2>3. CASE j # 2
    <3>1. j - 1 \in 2 .. Len(m.stack) /\ j - 1 \in 2 .. Len(m.stack) + 1
      BY <1>2, <2>3
    <3>2. m1.stack[j - 1] = m.stack[(j - 1) - 1] /\ n1.stack[j - 1] = n.stack[(j - 1) - 1]
      BY <1>1, <1>2, <1>3, <3>1
    <3>3. QED
      BY <1>1, <2>1, <3>1, <3>2
  <2>4. QED
    BY <2>2, <2>3
<1>5. Together(m1, n1, V, names)
  BY <1>1, <1>2, <1>3, <1>4 DEF Together
<1>6. QED
  BY <1>2, <1>3, <1>5 DEF Companions, m1, n1

\* The frame of a call.
LEMMA FrameIs ==
    ASSUME NEW p, IsProgram(p), NEW f \in FunctionNames(p), NEW c \in Seq(Values), NEW d \in Int,
           Len(c) = Len(FunctionNamed(p, f).params)
    PROVE  LET x == Frame(FunctionNamed(p, f), c, d)
           IN  /\ x \in Frames(p) /\ x.fn = f /\ x.pc = 1 /\ x.dest = d
               /\ x.env \in Envs(FunctionNamed(p, f).slotCount)
<1> DEFINE fn == FunctionNamed(p, f)
           x == Frame(fn, c, d)
           e == [s \in 0 .. fn.slotCount - 1 |->
                    IF \E k \in DOMAIN c : fn.params[k] = s
                    THEN c[CHOOSE k \in DOMAIN c : fn.params[k] = s] ELSE Undef]
<1>1. fn.name = f /\ fn.slotCount \in Nat
  BY FunctionFacts
<1>2. x = [fn |-> fn.name, pc |-> 1, dest |-> d, env |-> e]
  BY DEF Frame
<1> HIDE DEF fn, x
<1>3. e \in Envs(fn.slotCount)
  <2>1. ASSUME NEW s \in 0 .. fn.slotCount - 1 PROVE e[s] \in Values
    <3>1. CASE \E k \in DOMAIN c : fn.params[k] = s
      <4> DEFINE l == CHOOSE k \in DOMAIN c : fn.params[k] = s
      <4>1. l \in DOMAIN c
        BY <3>1
      <4>2. e[s] = c[l]
        BY <3>1
      <4> HIDE DEF l, e
      <4>3. c[l] \in Values
        BY <4>1
      <4>4. QED
        BY <4>2, <4>3
    <3>2. CASE ~\E k \in DOMAIN c : fn.params[k] = s
      <4>1. e[s] = Undef
        BY <3>2
      <4>2. QED
        BY <4>1 DEF Values
    <3>3. QED
      BY <3>1, <3>2
  <2>2. QED
    BY <2>1 DEF Envs, Slots
<1> HIDE DEF e
<1>4. x \in Frames(p)
  BY <1>1, <1>2, <1>3 DEF Frames
<1>5. QED
  BY <1>1, <1>2, <1>3, <1>4 DEF x, fn

LEMMA CallTogether ==
    ASSUME NEW p, NEW q, NEW V, NEW D, NEW names, FollowsAll(p, q, V, D, names), NEW m, NEW n,
           <<m, n>> \in Companions(p, q, V, D, names), ~m.halted,
           NEW body, NEW k, NEW i, AtInstruction(p, D, m, body, k, i), i.op = "Call"
    PROVE  ~n.halted /\ <<Step(p, m), Step(q, n)>> \in Companions(p, q, V, D, names)
<1> DEFINE x == m.stack[1]
           y == n.stack[1]
           f == FunctionNamed(p, x.fn)
           g == FunctionNamed(q, x.fn)
           j == g.body[y.pc]
           U == V[x.fn]
           c == Passed(i, x.env)
           d == Passed(j, y.env)
           callee == FunctionNamed(p, i.name)
           other == FunctionNamed(q, i.name)
           u == Frame(callee, c, i.dest)
           v == Frame(other, d, j.dest)
<1>1. /\ ~n.halted /\ x.fn \in names /\ x.fn \in FunctionNames(p) /\ x.fn \in FunctionNames(q)
      /\ y.fn = x.fn /\ x.pc \in Nat /\ y.pc \in Nat
      /\ \/ x.pc > Len(f.body)
         \/ Answers(f, g, U, D, names, x.pc, y.pc, x.env, y.env)
      /\ y.pc \in DOMAIN g.body => AtInstruction(q, D, n, g.body, y.pc, g.body[y.pc])
  <2>1. Paired(p, q, V, D, names, m, n)
    BY WhereTheyAre
  <2>2. QED
    BY <2>1 DEF Paired
<1>2. body = f.body /\ k = x.pc /\ i = f.body[x.pc] /\ ~(x.pc > Len(f.body)) /\ x.pc \in 1 .. Len(f.body)
  BY DEF AtInstruction
<1>3. /\ y.pc \in DOMAIN g.body /\ j.op = "Call" /\ j.name = i.name /\ i.name \in names
      /\ c \in Seq(Values) /\ d \in Seq(Values) /\ Len(d) = Len(c) /\ AllBelow(c, d)
      /\ \A a, b \in Values : Below(a, b) =>
            <<x.pc + 1, y.pc + 1, [x.env EXCEPT ![i.dest] = a], [y.env EXCEPT ![j.dest] = b]>> \in U
  <2> HIDE DEF x, y, f, g, U, c, d
  <2>1. Answers(f, g, U, D, names, x.pc, y.pc, x.env, y.env)
    BY <1>1, <1>2
  <2>2. QED
    BY <1>2, <2>1 DEF Answers, c, d
<1>4. /\ IsProgram(p) /\ IsProgram(q) /\ i.name \in FunctionNames(p) /\ i.name \in FunctionNames(q)
      /\ Follows(callee, other, V[i.name], D, names)
  BY <1>3 DEF FollowsAll
<1>5. /\ i.dest \in Int /\ Len(c) = Len(callee.params) /\ j.dest \in Int /\ Len(d) = Len(other.params)
  <2>1. /\ x.pc \in DOMAIN f.body /\ IsInstruction(i) /\ FitsFrame(i, f.slotCount, Arity(p))
        /\ IsInstruction(j) /\ FitsFrame(j, g.slotCount, Arity(q))
    <3>1. /\ DOMAIN f.body = 1 .. Len(f.body) /\ \A l \in DOMAIN f.body : IsInstruction(f.body[l])
          /\ \A l \in DOMAIN f.body : FitsFrame(f.body[l], f.slotCount, Arity(p))
      BY <1>1, <1>4, FunctionFacts
    <3>2. /\ \A l \in DOMAIN g.body : IsInstruction(g.body[l])
          /\ \A l \in DOMAIN g.body : FitsFrame(g.body[l], g.slotCount, Arity(q))
      BY <1>1, <1>4, FunctionFacts
    <3> HIDE DEF f, g
    <3>3. QED
      BY <1>2, <1>3, <3>1, <3>2
  <2>2. Arity(p)[i.name] = Len(callee.params) /\ Arity(q)[i.name] = Len(other.params)
    BY <1>4, FunctionFacts
  <2>3. /\ i.dest \in Int /\ j.dest \in Int /\ i.args \in Seq(Int) /\ j.args \in Seq(Int)
        /\ Len(i.args) = Arity(p)[i.name] /\ Len(j.args) = Arity(q)[i.name]
    <3> HIDE DEF j, f, g
    <3>1. QED
      BY <1>3, <2>1 DEF IsInstruction, FitsFrame
  <2>4. Len(c) = Len(i.args) /\ Len(d) = Len(j.args)
    <3> HIDE DEF j, x, y
    <3>1. ASSUME NEW o, o.args \in Seq(Int), NEW e, Passed(o, e) \in Seq(Values)
          PROVE  Len(Passed(o, e)) = Len(o.args)
      BY <3>1 DEF Passed
    <3>2. QED
      BY <1>3, <2>3, <3>1
  <2>5. QED
    BY <2>2, <2>3, <2>4
<1>6. /\ u \in Frames(p) /\ u.fn = i.name /\ u.pc = 1 /\ u.dest = i.dest
      /\ v \in Frames(q) /\ v.fn = i.name /\ v.pc = 1 /\ v.dest = j.dest
  <2> HIDE DEF c, d, j
  <2>1. QED
    BY <1>3, <1>4, <1>5, FrameIs
<1>7. <<1, 1, u.env, v.env>> \in V[i.name]
  <2>1. \A z : <<1, 1, Frame(callee, c, z).env, Frame(other, d, z).env>> \in V[i.name]
    <3> HIDE DEF c, d, callee, other
    <3>1. QED
      BY <1>3, <1>4, <1>5 DEF Follows
  <2>2. v.env = Frame(other, d, i.dest).env
    BY DEF Frame
  <2>3. QED
    BY <2>1, <2>2
<1>8. Step(p, m) = Push(m, u)
  <2>1. Step(p, m) = Push(m, Frame(FunctionNamed(p, i.name), Passed(i, m.stack[1].env), i.dest))
    BY <1>4, StepCall
  <2>2. QED
    BY <2>1
<1>9. Step(q, n) = Push(n, v)
  <2>1. AtInstruction(q, D, n, g.body, y.pc, j)
    BY <1>1, <1>3
  <2> HIDE DEF g
  <2>2. j.op = "Call" /\ j.name \in FunctionNames(q) /\ other = FunctionNamed(q, j.name)
    BY <1>3, <1>4
  <2> HIDE DEF j, other
  <2>3. QED
    BY <2>1, <2>2, StepCall
<1> HIDE DEF x, y, f, g, j, U, c, d, callee, other, u, v
<1>10. AtWorkOn(u, v, V, names)
  BY <1>3, <1>6, <1>7 DEF AtWorkOn
<1>11. WaitingFor(x, y, u.dest, v.dest, V, names)
  BY <1>1, <1>3, <1>6 DEF WaitingFor, U
<1>12. <<Push(m, u), Push(n, v)>> \in Companions(p, q, V, D, names)
  BY <1>6, <1>10, <1>11, PushTogether DEF x, y
<1>13. QED
  BY <1>1, <1>8, <1>9, <1>12


\* over a return
IsResumed(r, x, d, v) ==
    r.fn = x.fn /\ r.pc = x.pc + 1 /\ r.dest = x.dest /\ r.env = [x.env EXCEPT ![d] = v]

LEMMA ResumedIs ==
    ASSUME NEW p, NEW x \in Frames(p), NEW d, NEW v \in Values
    PROVE  Resumed(x, d, v) \in Frames(p) /\ IsResumed(Resumed(x, d, v), x, d, v)
<1>1. PICK c \in Nat : x.env \in Envs(c)
  BY DEF Frames
<1>2. [x.env EXCEPT ![d] = v] \in Envs(c)
  BY <1>1 DEF Envs
<1> DEFINE e == [x.env EXCEPT ![d] = v]
<1>3. Resumed(x, d, v) = [x EXCEPT !.pc = @ + 1, !.env = e]
  BY DEF Resumed
<1>4. e \in UNION {Envs(k) : k \in Nat}
  BY <1>2
<1> HIDE DEF e
<1>5. Frames(p) = [fn : FunctionNames(p), pc : Nat, dest : Int, env : UNION {Envs(k) : k \in Nat}]
  BY DEF Frames
<1> DEFINE E == UNION {Envs(k) : k \in Nat}
           r == [x EXCEPT !.pc = @ + 1, !.env = e]
<1> HIDE DEF E
<1>6. x \in [fn : FunctionNames(p), pc : Nat, dest : Int, env : E] /\ e \in E
  BY <1>4, <1>5 DEF E
<1>7. /\ r \in [fn : FunctionNames(p), pc : Nat, dest : Int, env : E]
      /\ r.fn = x.fn /\ r.pc = x.pc + 1 /\ r.dest = x.dest /\ r.env = e
  <2> DEFINE N == FunctionNames(p)
  <2>1. x \in [fn : N, pc : Nat, dest : Int, env : E] /\ e \in E
    BY <1>6
  <2> HIDE DEF N
  <2>2. x.pc + 1 \in Nat
    BY <2>1
  <2>3. r \in [fn : N, pc : Nat, dest : Int, env : E]
    BY <2>1, <2>2
  <2>4. r.fn = x.fn /\ r.pc = x.pc + 1 /\ r.dest = x.dest /\ r.env = e
    BY <2>1
  <2>5. QED
    BY <2>3, <2>4 DEF N
<1> HIDE DEF r
<1>8. r \in Frames(p)
  BY <1>5, <1>7 DEF E
<1>9. QED
  BY <1>3, <1>7, <1>8 DEF e, r, IsResumed

LEMMA PopIs ==
    ASSUME NEW p, NEW D, NEW m \in Machines(p, D), m.stack # <<>>, NEW v \in Values
    PROVE  /\ Pop(m, v) \in Machines(p, D) /\ Pop(m, v).globals = m.globals /\ Len(m.stack) \in Nat
           /\ Len(m.stack) = 1 => Pop(m, v).halted /\ Pop(m, v).result = v
           /\ Len(m.stack) # 1 =>
                /\ Pop(m, v).halted = m.halted /\ Pop(m, v).result = m.result
                /\ 2 =< Len(m.stack) /\ Len(Pop(m, v).stack) = Len(m.stack) - 1
                /\ m.stack[2] \in Frames(p)
                /\ Pop(m, v).stack[1] = Resumed(m.stack[2], m.stack[1].dest, v)
                /\ \A l \in 2 .. Len(m.stack) - 1 : Pop(m, v).stack[l] = m.stack[l + 1]
<1> DEFINE F == Frames(p)
           s == m.stack
           d == m.stack[1].dest
           r == [Tail(s) EXCEPT ![1] = Resumed(@, d, v)]
<1>1. s \in Seq(F) /\ s # <<>> /\ Len(s) \in Nat /\ Len(s) >= 1
  BY TopIs
<1>2. CASE Len(s) = 1
  <2>1. Pop(m, v) = [m EXCEPT !.halted = TRUE, !.result = v]
    BY <1>2 DEF Pop
  <2> HIDE DEF s
  <2>2. QED
    BY <1>1, <1>2, <2>1 DEF s, Machines
<1>3. CASE Len(s) # 1
  <2>1. Pop(m, v) = [m EXCEPT !.stack = r]
    BY <1>3 DEF Pop
  <2> HIDE DEF F, s, d
  <2>2. /\ 2 =< Len(s) /\ s[2] \in F /\ Tail(s) \in Seq(F) /\ Len(Tail(s)) = Len(s) - 1
        /\ 1 \in DOMAIN Tail(s) /\ \A l \in 1 .. Len(s) - 1 : Tail(s)[l] = s[l + 1]
    <3>1. /\ 2 =< Len(s) /\ s[2] \in F /\ Tail(s) \in Seq(F) /\ Len(Tail(s)) = Len(s) - 1
      <4>1. Len(s) >= 2
        <5> DEFINE h == Len(s)
        <5>1. h \in Nat /\ h >= 1 /\ h # 1
          BY <1>1, <1>3
        <5> HIDE DEF h
        <5>2. h >= 2
          BY <5>1
        <5>3. QED
          BY <5>2 DEF h
      <4>2. Tail(s) \in Seq(F) /\ Len(Tail(s)) = Len(s) - 1
        BY <1>1
      <4>3. s[2] \in F
        BY <1>1, <4>1
      <4>4. QED
        BY <4>1, <4>2, <4>3
    <3>2. 1 \in DOMAIN Tail(s)
      BY <1>1, <3>1
    <3>3. \A l \in 1 .. Len(s) - 1 : Tail(s)[l] = s[l + 1]
      BY <1>1
    <3>4. QED
      BY <3>1, <3>2, <3>3
  <2>3. Tail(s)[1] = s[2]
    BY <2>2
  <2> DEFINE x == Resumed(s[2], d, v)
  <2>4. x \in F
    BY <2>2, ResumedIs DEF F
  <2>5. r = [Tail(s) EXCEPT ![1] = x]
    BY <2>2, <2>3
  <2> HIDE DEF r, x
  <2>6. /\ r \in Seq(F) /\ Len(r) = Len(s) - 1 /\ r[1] = x
        /\ \A l \in 2 .. Len(s) - 1 : r[l] = s[l + 1]
    <3> DEFINE t == Tail(s)
    <3>1. t \in Seq(F) /\ 1 \in DOMAIN t /\ Len(t) = Len(s) - 1 /\ r = [t EXCEPT ![1] = x]
      BY <2>2, <2>5
    <3>2. \A l \in 1 .. Len(s) - 1 : t[l] = s[l + 1]
      BY <2>2
    <3> HIDE DEF t
    <3>3. r \in Seq(F) /\ Len(r) = Len(t) /\ r[1] = x /\ \A l \in 2 .. Len(t) : r[l] = t[l]
      BY <2>4, <3>1
    <3>4. \A l \in 2 .. Len(s) - 1 : r[l] = s[l + 1]
      BY <1>1, <3>1, <3>2, <3>3
    <3>5. QED
      BY <3>1, <3>3, <3>4
  <2>7. [m EXCEPT !.stack = r] \in Machines(p, D)
    BY <2>6 DEF F, Machines
  <2>8. /\ [m EXCEPT !.stack = r].stack = r /\ [m EXCEPT !.stack = r].globals = m.globals
        /\ [m EXCEPT !.stack = r].halted = m.halted /\ [m EXCEPT !.stack = r].result = m.result
    BY DEF Machines
  <2>9. QED
    BY <1>1, <1>3, <2>1, <2>2, <2>6, <2>7, <2>8 DEF s, d, x, F
<1>4. QED
  BY <1>2, <1>3

LEMMA PopTogether ==
    ASSUME NEW p, NEW q, NEW V, NEW D, NEW names, NEW m, NEW n,
           <<m, n>> \in Companions(p, q, V, D, names), ~m.halted,
           NEW v \in Values, NEW w \in Values, Below(v, w)
    PROVE  <<Pop(m, v), Pop(n, w)>> \in Companions(p, q, V, D, names)
<1>1. /\ m \in Machines(p, D) /\ n \in Machines(q, D) /\ m.result = Undef /\ ~n.halted /\ m.stack # <<>>
      /\ Len(n.stack) = Len(m.stack) /\ AllBelow(m.globals, n.globals)
      /\ \A j \in 2 .. Len(m.stack) :
            WaitingFor(m.stack[j], n.stack[j], m.stack[j - 1].dest, n.stack[j - 1].dest, V, names)
  BY DEF Companions, Together
<1>2. Len(m.stack) \in Nat /\ Len(m.stack) >= 1
  BY <1>1, TopIs
<1>3. n.stack # <<>>
  <2>1. Len(<<>>) = 0
    OBVIOUS
  <2>2. QED
    BY <1>1, <1>2, <2>1
<1> DEFINE m1 == Pop(m, v)
           n1 == Pop(n, w)
<1>4. m1 \in Machines(p, D) /\ n1 \in Machines(q, D) /\ m1.globals = m.globals /\ n1.globals = n.globals
  BY <1>1, <1>3, PopIs
<1>5. CASE Len(m.stack) = 1
  <2>1. m1.halted /\ m1.result = v
    BY <1>1, <1>5, PopIs
  <2>2. n1.halted /\ n1.result = w
    BY <1>1, <1>3, <1>5, PopIs
  <2> HIDE DEF m1, n1
  <2>3. Together(m1, n1, V, names)
    BY <2>1, <2>2 DEF Together, Below
  <2>4. QED
    BY <1>4, <2>3 DEF Companions, m1, n1
<1>6. CASE Len(m.stack) # 1
  <2>1. /\ m1.halted = m.halted /\ m1.result = m.result /\ 2 =< Len(m.stack)
        /\ Len(m1.stack) = Len(m.stack) - 1 /\ m.stack[2] \in Frames(p)
        /\ m1.stack[1] = Resumed(m.stack[2], m.stack[1].dest, v)
        /\ \A l \in 2 .. Len(m.stack) - 1 : m1.stack[l] = m.stack[l + 1]
    BY <1>1, <1>6, PopIs
  <2>2. /\ n1.halted = n.halted /\ n1.result = n.result
        /\ Len(n1.stack) = Len(n.stack) - 1 /\ n.stack[2] \in Frames(q)
        /\ n1.stack[1] = Resumed(n.stack[2], n.stack[1].dest, w)
        /\ \A l \in 2 .. Len(n.stack) - 1 : n1.stack[l] = n.stack[l + 1]
    BY <1>1, <1>3, <1>6, PopIs
  <2> HIDE DEF m1, n1
  <2> DEFINE x == m.stack[2]
             y == n.stack[2]
             d == m.stack[1].dest
             e == n.stack[1].dest
  <2>3. /\ m1.stack[1].fn = x.fn /\ m1.stack[1].pc = x.pc + 1 /\ m1.stack[1].dest = x.dest
        /\ m1.stack[1].env = [x.env EXCEPT ![d] = v]
    <3>1. m1.stack[1] = Resumed(x, d, v) /\ x \in Frames(p)
      BY <2>1
    <3> HIDE DEF x, d
    <3>2. IsResumed(Resumed(x, d, v), x, d, v)
      BY <3>1, ResumedIs
    <3>3. QED
      BY <3>1, <3>2 DEF IsResumed
  <2>4. /\ n1.stack[1].fn = y.fn /\ n1.stack[1].pc = y.pc + 1 /\ n1.stack[1].dest = y.dest
        /\ n1.stack[1].env = [y.env EXCEPT ![e] = w]
    <3>1. n1.stack[1] = Resumed(y, e, w) /\ y \in Frames(q)
      BY <2>2
    <3> HIDE DEF y, e
    <3>2. IsResumed(Resumed(y, e, w), y, e, w)
      BY <3>1, ResumedIs
    <3>3. QED
      BY <3>1, <3>2 DEF IsResumed
  <2>5. WaitingFor(x, y, d, e, V, names)
    <3>1. 2 \in 2 .. Len(m.stack) /\ 2 - 1 = 1
      BY <1>2, <2>1
    <3>2. QED
      BY <1>1, <3>1
  <2>6. AtWorkOn(m1.stack[1], n1.stack[1], V, names)
    <3> HIDE DEF x, y, d, e
    <3>1. QED
      BY <2>3, <2>4, <2>5 DEF AtWorkOn, WaitingFor
  <2>7. ASSUME NEW j \in 2 .. Len(m1.stack)
        PROVE  WaitingFor(m1.stack[j], n1.stack[j], m1.stack[j - 1].dest, n1.stack[j - 1].dest, V, names)
    <3>1. j \in 2 .. Len(m.stack) - 1 /\ j + 1 \in 2 .. Len(m.stack) /\ (j + 1) - 1 = j
      BY <1>2, <2>1
    <3>2. m1.stack[j] = m.stack[j + 1] /\ n1.stack[j] = n.stack[j + 1]
      BY <1>1, <2>1, <2>2, <3>1
    <3>3. m1.stack[j - 1].dest = m.stack[j].dest /\ n1.stack[j - 1].dest = n.stack[j].dest
      <4>1. CASE j = 2
        <5>1. j - 1 = 1
          BY <4>1
        <5>2. QED
          BY <2>3, <2>4, <4>1, <5>1
      <4>2. CASE j # 2
        <5>1. j - 1 \in 2 .. Len(m.stack) - 1 /\ (j - 1) + 1 = j
          BY <1>2, <2>1, <4>2
        <5>2. QED
          BY <1>1, <2>1, <2>2, <5>1
      <4>3. QED
        BY <4>1, <4>2
    <3>4. WaitingFor(m.stack[j + 1], n.stack[j + 1], m.stack[j].dest, n.stack[j].dest, V, names)
      BY <1>1, <3>1
    <3>5. QED
      BY <3>2, <3>3, <3>4
  <2>8. m1.stack # <<>>
    <3>1. Len(<<>>) = 0
      OBVIOUS
    <3>2. QED
      BY <1>2, <2>1, <3>1
  <2>9. Together(m1, n1, V, names)
    BY <1>1, <1>4, <2>1, <2>2, <2>6, <2>7, <2>8 DEF Together
  <2>10. QED
    BY <1>4, <2>9 DEF Companions, m1, n1
<1>7. QED
  BY <1>5, <1>6

LEMMA ReturnTogether ==
    ASSUME NEW p, NEW q, NEW V, NEW D, NEW names, FollowsAll(p, q, V, D, names), NEW m, NEW n,
           <<m, n>> \in Companions(p, q, V, D, names), ~m.halted,
           NEW body, NEW k, NEW i, AtInstruction(p, D, m, body, k, i), i.op \in {"Return", "ReturnVoid"}
    PROVE  ~n.halted /\ <<Step(p, m), Step(q, n)>> \in Companions(p, q, V, D, names)
<1> DEFINE x == m.stack[1]
           y == n.stack[1]
           f == FunctionNamed(p, x.fn)
           g == FunctionNamed(q, x.fn)
           j == g.body[y.pc]
           v == Given(i, x.env)
           w == Given(j, y.env)
<1>1. /\ ~n.halted
      /\ \/ x.pc > Len(f.body)
         \/ Answers(f, g, V[x.fn], D, names, x.pc, y.pc, x.env, y.env)
      /\ y.pc \in DOMAIN g.body => AtInstruction(q, D, n, g.body, y.pc, g.body[y.pc])
  <2>1. Paired(p, q, V, D, names, m, n)
    BY WhereTheyAre
  <2>2. QED
    BY <2>1 DEF Paired
<1>2. body = f.body /\ k = x.pc /\ i = f.body[x.pc] /\ ~(x.pc > Len(f.body))
  BY DEF AtInstruction
<1>3. /\ y.pc \in DOMAIN g.body /\ j.op \in {"Return", "ReturnVoid"}
      /\ v \in Values /\ w \in Values /\ Below(v, w)
  <2> HIDE DEF x, y, f, g, v, w
  <2>1. Answers(f, g, V[x.fn], D, names, x.pc, y.pc, x.env, y.env)
    BY <1>1, <1>2
  <2>2. QED
    BY <1>2, <2>1 DEF Answers, v, w
<1>4. Step(p, m) = Pop(m, v)
  BY <1>2, StepReturn
<1>5. Step(q, n) = Pop(n, w)
  <2>1. AtInstruction(q, D, n, g.body, y.pc, j)
    BY <1>1, <1>3
  <2> HIDE DEF g
  <2>2. QED
    BY <1>3, <2>1, StepReturn
<1> HIDE DEF x, y, f, g, j, v, w
<1>6. <<Pop(m, v), Pop(n, w)>> \in Companions(p, q, V, D, names)
  BY <1>3, PopTogether
<1>7. QED
  BY <1>1, <1>4, <1>5, <1>6


\* Whatever the instruction, companions stay together.
LEMMA StayTogether ==
    ASSUME NEW p, NEW q, NEW V, NEW D, NEW names, FollowsAll(p, q, V, D, names)
    PROVE  Simulates(Companions(p, q, V, D, names), p, q)
<1> DEFINE Rel == Companions(p, q, V, D, names)
<1>1. ASSUME NEW m, NEW n, <<m, n>> \in Rel, ~m.halted
      PROVE  /\ m.result = Undef
             /\ \/ <<Step(p, m), n>> \in Rel
                \/ ~n.halted /\ <<Step(p, m), Step(q, n)>> \in Rel
  <2> DEFINE f == FunctionNamed(p, m.stack[1].fn)
             k == m.stack[1].pc
             i == f.body[k]
  <2>1. /\ m \in Machines(p, D) /\ m.stack # <<>> /\ m.result = Undef
        /\ m.stack[1].fn \in FunctionNames(p)
        /\ k > Len(f.body) \/ AtInstruction(p, D, m, f.body, k, i)
    <3>1. Paired(p, q, V, D, names, m, n)
      BY <1>1, WhereTheyAre
    <3>2. QED
      BY <3>1 DEF Paired
  <2>2. CASE k > Len(f.body)
    <3>1. Step(p, m) = Halted(m)
      BY <2>1, <2>2, StepPast
    <3>2. QED
      BY <1>1, <2>1, <3>1, HaltedTogether
  <2>3. CASE ~(k > Len(f.body))
    <3>1. AtInstruction(p, D, m, f.body, k, i)
      BY <2>1, <2>3
    <3>2. \/ Quiet(i) \/ i.op = "StoreGlobal" \/ i.op = "Call" \/ i.op \in {"Return", "ReturnVoid"}
      <4>1. IsProgram(p)
        BY DEF FollowsAll
      <4>2. k \in DOMAIN f.body
        <5>1. DOMAIN f.body = 1 .. Len(f.body)
          BY <2>1, <4>1, FunctionFacts
        <5>2. QED
          BY <3>1, <5>1 DEF AtInstruction
      <4>3. IsInstruction(i)
        BY <2>1, <4>1, <4>2, FunctionFacts
      <4> HIDE DEF i
      <4>4. QED
        BY <4>3 DEF IsInstruction, Quiet, DefinesSlot
    <3> DEFINE body == f.body
    <3>3. AtInstruction(p, D, m, body, k, i)
      BY <3>1
    <3> HIDE DEF i, k, body, f
    <3>4. CASE Quiet(i)
      BY <1>1, <2>1, <3>3, <3>4, QuietTogether
    <3>5. CASE i.op = "StoreGlobal"
      BY <1>1, <2>1, <3>3, <3>5, StoreTogether
    <3>6. CASE i.op = "Call"
      BY <1>1, <2>1, <3>3, <3>6, CallTogether
    <3>7. CASE i.op \in {"Return", "ReturnVoid"}
      BY <1>1, <2>1, <3>3, <3>7, ReturnTogether
    <3>8. QED
      BY <3>2, <3>4, <3>5, <3>6, <3>7
  <2>4. QED
    BY <2>2, <2>3
<1>2. ASSUME NEW m, NEW n, <<m, n>> \in Rel, m.halted, m.result # Undef
      PROVE  n.halted /\ n.result = m.result
  BY <1>2 DEF Companions, Together
<1> HIDE DEF Rel
<1>3. QED
  BY <1>1, <1>2 DEF Simulates, Rel

\* A program whose functions follow those of another returns what that returns.
LEMMA Followed ==
    ASSUME NEW p, NEW q, NEW V, NEW D, NEW names, FollowsAll(p, q, V, D, names),
           Len(FunctionNamed(p, "main").params) = 0, Len(FunctionNamed(q, "main").params) = 0,
           NEW g \in Memories(D)
    PROVE  Outcome(p, g) # Undef => Outcome(q, g) = Outcome(p, g)
<1> DEFINE x == Frame(FunctionNamed(p, "main"), <<>>, NoSlot)
           y == Frame(FunctionNamed(q, "main"), <<>>, NoSlot)
           m == Begun(p, g)
           n == Begun(q, g)
<1>1. /\ IsProgram(p) /\ IsProgram(q) /\ "main" \in names /\ names \subseteq FunctionNames(p)
      /\ names \subseteq FunctionNames(q)
      /\ Follows(FunctionNamed(p, "main"), FunctionNamed(q, "main"), V["main"], D, names)
  BY DEF FollowsAll
<1>2. <<>> \in Seq(Values) /\ Len(<<>>) = 0 /\ NoSlot \in Int /\ AllBelow(<<>>, <<>>)
  BY DEF NoSlot, AllBelow
<1>3. /\ x \in Frames(p) /\ x.fn = "main" /\ x.pc = 1
      /\ y \in Frames(q) /\ y.fn = "main" /\ y.pc = 1
  <2>1. "main" \in FunctionNames(p) /\ "main" \in FunctionNames(q)
    BY <1>1
  <2> DEFINE a == "main"
             c == <<>>
             d == NoSlot
  <2>2. /\ a \in FunctionNames(p) /\ a \in FunctionNames(q) /\ c \in Seq(Values) /\ d \in Int
        /\ Len(c) = Len(FunctionNamed(p, a).params) /\ Len(c) = Len(FunctionNamed(q, a).params)
    BY <1>2, <2>1
  <2> HIDE DEF a, c, d
  <2> DEFINE X == Frame(FunctionNamed(p, a), c, d)
             Y == Frame(FunctionNamed(q, a), c, d)
  <2>3. X \in Frames(p) /\ X.fn = a /\ X.pc = 1
    <3>1. IsProgram(p) /\ a \in FunctionNames(p) /\ Len(c) = Len(FunctionNamed(p, a).params)
      BY <1>1, <2>2
    <3>2. c \in Seq(Values) /\ d \in Int
      BY <2>2
    <3> HIDE DEF X
    <3>3. QED
      BY <3>1, <3>2, FrameIs DEF X
  <2>4. Y \in Frames(q) /\ Y.fn = a /\ Y.pc = 1
    BY <1>1, <2>2, FrameIs
  <2>5. QED
    BY <2>3, <2>4 DEF a, c, d
<1>4. <<1, 1, x.env, y.env>> \in V["main"]
  <2> DEFINE f == FunctionNamed(p, "main")
             h == FunctionNamed(q, "main")
  <2>1. Len(<<>>) = Len(f.params) /\ Follows(f, h, V["main"], D, names)
    BY <1>1, <1>2
  <2> HIDE DEF f, h
  <2>2. \A z : <<1, 1, Frame(f, <<>>, z).env, Frame(h, <<>>, z).env>> \in V["main"]
    BY <1>2, <2>1 DEF Follows
  <2>3. QED
    BY <2>2 DEF f, h
<1> HIDE DEF x, y
<1>5. AtWorkOn(x, y, V, names)
  BY <1>1, <1>3, <1>4 DEF AtWorkOn
<1>6. /\ m = [stack |-> <<x>>, globals |-> g, halted |-> FALSE, result |-> Undef]
      /\ n = [stack |-> <<y>>, globals |-> g, halted |-> FALSE, result |-> Undef]
  BY DEF Begun, x, y
<1> HIDE DEF m, n
<1>7. m \in Machines(p, D) /\ n \in Machines(q, D)
  <2>1. <<x>> \in Seq(Frames(p)) /\ <<y>> \in Seq(Frames(q))
    BY <1>3
  <2>2. QED
    BY <1>6, <2>1 DEF Machines, Values
<1>8. AllBelow(g, g)
  BY DEF AllBelow, Below
<1>9. Together(m, n, V, names)
  <2>1. /\ m.stack = <<x>> /\ n.stack = <<y>> /\ m.globals = g /\ n.globals = g
        /\ m.halted = FALSE /\ n.halted = FALSE /\ m.result = Undef
    BY <1>6
  <2>2. <<x>> # <<>> /\ Len(<<x>>) = 1 /\ Len(<<y>>) = 1 /\ <<x>>[1] = x /\ <<y>>[1] = y
    OBVIOUS
  <2>3. 2 .. 1 = {}
    OBVIOUS
  <2>4. QED
    BY <1>5, <1>8, <2>1, <2>2, <2>3 DEF Together
<1>10. <<m, n>> \in Companions(p, q, V, D, names)
  BY <1>7, <1>9 DEF Companions
<1>11. QED
  BY <1>10, StayTogether, Simulation DEF m, n


-----------------------------------------------------------------------------
(* What instructions do. *)

\* An instruction of a function with n slots that reads no global but those in D.
Sound(i, n, arity, D) ==
    IsInstruction(i) /\ FitsFrame(i, n, arity) /\ (i.op = "LoadGlobal" => i.name \in D)

LEMMA ReadsSlots ==
    ASSUME NEW n \in Nat, NEW arity, NEW D, NEW i, Sound(i, n, arity, D)
    PROVE  /\ i.op \in {"Move", "StoreGlobal", "Unary", "Branch", "Return", "Binary"} => i.lhs \in Slots(n)
           /\ i.op = "Binary" => i.rhs \in Slots(n) /\ i.oper \in BinaryOpers
           /\ i.op = "Unary" => i.oper \in UnaryOpers
           /\ i.op = "Const" => i.value \in Values
           /\ i.op = "LoadGlobal" => i.name \in D
           /\ i.op = "Call" => \A k \in DOMAIN i.args : i.args[k] \in Slots(n)
           /\ (DefinesSlot(i) \/ i.op = "Call") => i.dest \in Slots(n)
           /\ i.args \in Seq(Int)
           /\ \/ i.op \in {"Label", "Goto", "Branch", "StoreGlobal", "Call", "Return", "ReturnVoid"}
              \/ DefinesSlot(i)
<1>1. /\ Reads(i) \subseteq Slots(n) /\ (DefinesSlot(i) \/ i.op = "Call" => i.dest \in Slots(n))
      /\ i.value \in Values /\ i.args \in Seq(Int) /\ (i.op = "LoadGlobal" => i.name \in D)
      /\ i.op = "Unary" => i.oper \in UnaryOpers
      /\ i.op = "Binary" => i.oper \in BinaryOpers
      /\ i.op \in {"Label", "Goto", "Branch", "Const", "Move", "LoadGlobal", "StoreGlobal",
                 "Unary", "Binary", "Call", "Return", "ReturnVoid"}
  BY DEF Sound, IsInstruction, FitsFrame, Slots, Values
<1>2. i.op \in {"Move", "StoreGlobal", "Unary", "Branch", "Return", "Binary"} => i.lhs \in Slots(n)
  <2>1. i.op \in {"Move", "StoreGlobal", "Unary", "Branch", "Return"} => i.lhs \in Reads(i)
    BY ReadsAre
  <2>2. i.op = "Binary" => i.lhs \in Reads(i)
    BY ReadsAre
  <2>3. QED
    BY <1>1, <2>1, <2>2
<1>3. i.op = "Binary" => i.rhs \in Slots(n)
  <2>1. i.op = "Binary" => i.rhs \in Reads(i)
    BY ReadsAre
  <2>2. QED
    BY <1>1, <2>1
<1>4. i.op = "Call" => \A k \in DOMAIN i.args : i.args[k] \in Slots(n)
  <2>1. i.op = "Call" => Reads(i) = {i.args[k] : k \in DOMAIN i.args}
    BY ReadsAre
  <2>2. QED
    BY <1>1, <2>1
<1>5. QED
  BY <1>1, <1>2, <1>3, <1>4 DEF DefinesSlot

LEMMA EnvIs ==
    ASSUME NEW n \in Nat, NEW a \in Envs(n)
    PROVE  /\ DOMAIN a = Slots(n) /\ \A s \in Slots(n) : a[s] \in Values
           /\ \A d : \A v \in Values : [a EXCEPT ![d] = v] \in Envs(n)
           /\ \A d, v : DOMAIN [a EXCEPT ![d] = v] = Slots(n)
           /\ \A v : \A d \in Slots(n) : [a EXCEPT ![d] = v][d] = v
           /\ \A d, v : \A s \in Slots(n) \ {d} : [a EXCEPT ![d] = v][s] = a[s]
BY DEF Envs

LEMMA EffectIs ==
    ASSUME NEW n \in Nat, NEW arity, NEW D, NEW i, Sound(i, n, arity, D), DefinesSlot(i),
           NEW a \in Envs(n), NEW G \in Memories(D)
    PROVE  Effect(i, a, G) \in Values
<1>1. /\ i.op \in {"Move", "Unary", "Binary"} => a[i.lhs] \in Values
      /\ i.op = "Binary" => a[i.rhs] \in Values /\ i.oper \in BinaryOpers
      /\ i.op = "Unary" => i.oper \in UnaryOpers
      /\ i.op = "Const" => i.value \in Values
      /\ i.op = "LoadGlobal" => G[i.name] \in Values
  BY ReadsSlots, EnvIs DEF Memories
<1>2. CASE i.op = "Const"
  BY <1>1, <1>2 DEF Effect
<1>3. CASE i.op = "Move"
  BY <1>1, <1>3 DEF Effect
<1>4. CASE i.op = "LoadGlobal"
  BY <1>1, <1>4 DEF Effect
<1>5. CASE i.op = "Unary"
  <2>1. Effect(i, a, G) = IF a[i.lhs] = Undef THEN Undef ELSE UnaryValue(i.oper, a[i.lhs])
    BY <1>5 DEF Effect
  <2>2. a[i.lhs] # Undef => UnaryValue(i.oper, a[i.lhs]) \in Words
    BY <1>1, <1>5, ValuesAreWords DEF Values
  <2>3. QED
    BY <2>1, <2>2 DEF Values
<1>6. CASE i.op = "Binary"
  <2>1. Effect(i, a, G) = IF \/ Undef \in {a[i.lhs], a[i.rhs]}
                             \/ i.oper \in {"div", "mod"} /\ a[i.rhs] = 0
                          THEN Undef ELSE BinaryValue(i.oper, a[i.lhs], a[i.rhs])
    BY <1>6 DEF Effect
  <2>2. Undef \notin {a[i.lhs], a[i.rhs]} => BinaryValue(i.oper, a[i.lhs], a[i.rhs]) \in Words
    <3>1. /\ i.oper \in BinaryOpers
          /\ Undef \notin {a[i.lhs], a[i.rhs]} => a[i.lhs] \in Words /\ a[i.rhs] \in Words
      BY <1>1, <1>6 DEF Values
    <3>2. QED
      BY <3>1, ValuesAreWords
  <2>3. QED
    BY <2>1, <2>2 DEF Values
<1>7. QED
  BY <1>2, <1>3, <1>4, <1>5, <1>6 DEF DefinesSlot

\* With more defined of what it reads, as much is defined.
BelowOn(U, a, b) == \A s \in U : Below(a[s], b[s])

LEMMA EffectFollows ==
    ASSUME NEW n \in Nat, NEW arity, NEW D, NEW i, Sound(i, n, arity, D), DefinesSlot(i),
           NEW a \in Envs(n), NEW b \in Envs(n), BelowOn(Reads(i), a, b),
           NEW G \in Memories(D), NEW H \in Memories(D), AllBelow(G, H)
    PROVE  Below(Effect(i, a, G), Effect(i, b, H))
<1>1. /\ i.op \in {"Move", "Unary", "Binary"} => Below(a[i.lhs], b[i.lhs])
      /\ i.op = "Binary" => Below(a[i.rhs], b[i.rhs])
      /\ i.op = "LoadGlobal" => Below(G[i.name], H[i.name])
  <2>1. /\ i.op \in {"Move", "Unary", "Binary"} => i.lhs \in Reads(i)
        /\ i.op = "Binary" => i.rhs \in Reads(i)
    BY ReadsAre
  <2>2. i.op = "LoadGlobal" => i.name \in D
    BY ReadsSlots
  <2>3. QED
    BY <2>1, <2>2 DEF AllBelow, BelowOn, Memories
<1>2. CASE i.op = "Const"
  BY <1>2 DEF Effect, Below
<1>3. CASE i.op = "Move"
  BY <1>1, <1>3 DEF Effect
<1>4. CASE i.op = "LoadGlobal"
  BY <1>1, <1>4 DEF Effect
<1>5. CASE i.op = "Unary"
  <2>1. \A e, M : Effect(i, e, M) = IF e[i.lhs] = Undef THEN Undef ELSE UnaryValue(i.oper, e[i.lhs])
    BY <1>5 DEF Effect
  <2>2. QED
    BY <1>1, <1>5, <2>1 DEF Below
<1>6. CASE i.op = "Binary"
  <2>1. \A e, M : Effect(i, e, M) = IF \/ Undef \in {e[i.lhs], e[i.rhs]}
                                       \/ i.oper \in {"div", "mod"} /\ e[i.rhs] = 0
                                    THEN Undef ELSE BinaryValue(i.oper, e[i.lhs], e[i.rhs])
    BY <1>6 DEF Effect
  <2>2. QED
    BY <1>1, <1>6, <2>1 DEF Below
<1>7. QED
  BY <1>2, <1>3, <1>4, <1>5, <1>6 DEF DefinesSlot

LEMMA EffectGrows ==
    ASSUME NEW n \in Nat, NEW arity, NEW D, NEW i, Sound(i, n, arity, D), DefinesSlot(i),
           NEW a \in Envs(n), NEW b \in Envs(n), AllBelow(a, b),
           NEW G \in Memories(D), NEW H \in Memories(D), AllBelow(G, H)
    PROVE  Below(Effect(i, a, G), Effect(i, b, H))
<1>1. Reads(i) \subseteq DOMAIN a
  BY EnvIs DEF Sound, FitsFrame, Slots
<1>2. BelowOn(Reads(i), a, b)
  BY <1>1 DEF BelowOn, AllBelow
<1>3. QED
  BY <1>2, EffectFollows


-----------------------------------------------------------------------------
(* Instructions rewritten in place. *)

\* j does what i does, from any of the slots in A: as much is defined.
Mimics(i, j, A, D) ==
    /\ ~DefinesSlot(i) =>
         /\ j.op = i.op /\ j.label = i.label /\ j.falseLabel = i.falseLabel /\ j.name = i.name
         /\ j.dest = i.dest /\ j.args = i.args
         /\ i.op \in {"Branch", "StoreGlobal", "Return"} => \A a \in A : a[j.lhs] = a[i.lhs]
    /\ DefinesSlot(i) =>
         /\ DefinesSlot(j) /\ j.dest = i.dest
         /\ \A a \in A : \A G \in Memories(D) : Below(Effect(i, a, G), Effect(j, a, G))

\* where control may go from n with the slots as they are
Onward(body, n) ==
    LET i == body[n]
    IN  CASE i.op = "Goto" -> Targets(body, i.label)
          [] i.op = "Branch" -> Lands(body, n, i.label) \cup Lands(body, n, i.falseLabel)
          [] i.op \in {"Label", "StoreGlobal"} -> {n + 1}
          [] OTHER -> {}

\* From the slots in F[n] the instruction at n leads to slots that F has as well.
LeadsInto(body, n, F, D) ==
    LET i == body[n]
    IN  \A a \in F[n] :
          /\ \A k \in Onward(body, n) : a \in F[k]
          /\ DefinesSlot(i) => \A G \in Memories(D) : [a EXCEPT ![i.dest] = Effect(i, a, G)] \in F[n + 1]
          /\ i.op = "Call" => \A v \in Values : [a EXCEPT ![i.dest] = v] \in F[n + 1]

\* F has, for every position of fn, all slots that a run can get there with.
Covers(F, fn, D) ==
    /\ DOMAIN F = 1 .. Len(fn.body) + 1 /\ F[1] = Envs(fn.slotCount)
    /\ \A n \in 1 .. Len(fn.body) + 1 : F[n] \subseteq Envs(fn.slotCount)
    /\ \A n \in 1 .. Len(fn.body) : LeadsInto(fn.body, n, F, D)

\* The instructions of g mimic those of f, given what F tells of the slots at every
\* position of f.
InPlace(f, g, F, arity, D) ==
    /\ f.slotCount \in Nat /\ g.slotCount = f.slotCount /\ g.params = f.params
    /\ Len(f.body) \in Nat /\ DOMAIN f.body = 1 .. Len(f.body)
    /\ DOMAIN g.body = 1 .. Len(f.body) /\ Len(g.body) = Len(f.body)
    /\ Covers(F, f, D)
    /\ \A n \in 1 .. Len(f.body) :
         /\ Sound(f.body[n], f.slotCount, arity, D) /\ Sound(g.body[n], f.slotCount, arity, D)
         /\ Mimics(f.body[n], g.body[n], F[n], D)

\* at the same position, with as much defined
Beside(F, E) ==
    {v \in (DOMAIN F) \X (DOMAIN F) \X E \X E : v[2] = v[1] /\ v[3] \in F[v[1]] /\ AllBelow(v[3], v[4])}

LEMMA BesideIs ==
    ASSUME NEW F, NEW E, NEW n, NEW k, NEW a, NEW b
    PROVE  <<n, k, a, b>> \in Beside(F, E) <=>
              /\ n \in DOMAIN F /\ k = n /\ a \in E /\ b \in E
              /\ a \in F[n] /\ AllBelow(a, b)
BY DEF Beside

LEMMA FrameEnvIs ==
    ASSUME NEW fn, fn.slotCount \in Nat, NEW c \in Seq(Values), NEW d
    PROVE  Frame(fn, c, d).env \in Envs(fn.slotCount)
<1> DEFINE e == [s \in 0 .. fn.slotCount - 1 |->
                    IF \E k \in DOMAIN c : fn.params[k] = s
                    THEN c[CHOOSE k \in DOMAIN c : fn.params[k] = s] ELSE Undef]
<1>1. Frame(fn, c, d).env = e
  BY DEF Frame
<1>2. ASSUME NEW s \in 0 .. fn.slotCount - 1 PROVE e[s] \in Values
  <2>1. CASE \E k \in DOMAIN c : fn.params[k] = s
    <3> DEFINE l == CHOOSE k \in DOMAIN c : fn.params[k] = s
    <3>1. l \in DOMAIN c
      BY <2>1
    <3>2. e[s] = c[l]
      BY <2>1
    <3> HIDE DEF l, e
    <3>3. c[l] \in Values
      BY <3>1
    <3>4. QED
      BY <3>2, <3>3
  <2>2. CASE ~\E k \in DOMAIN c : fn.params[k] = s
    <3>1. e[s] = Undef
      BY <2>2
    <3>2. QED
      BY <3>1 DEF Values
  <2>3. QED
    BY <2>1, <2>2
<1>3. e \in Envs(fn.slotCount)
  BY <1>2 DEF Envs, Slots
<1> HIDE DEF e
<1>4. QED
  BY <1>1, <1>3

\* Calls with arguments of which as much is defined.
LEMMA FramesBelow ==
    ASSUME NEW f, NEW g, f.slotCount \in Nat, g.slotCount = f.slotCount, g.params = f.params,
           NEW c \in Seq(Values), NEW d \in Seq(Values), Len(d) = Len(c), AllBelow(c, d), NEW x
    PROVE  AllBelow(Frame(f, c, x).env, Frame(g, d, x).env)
<1> DEFINE Taken(e, s) == IF \E k \in DOMAIN e : f.params[k] = s
                          THEN e[CHOOSE k \in DOMAIN e : f.params[k] = s] ELSE Undef
<1>1. /\ Frame(f, c, x).env = [s \in 0 .. f.slotCount - 1 |-> Taken(c, s)]
      /\ Frame(g, d, x).env = [s \in 0 .. f.slotCount - 1 |-> Taken(d, s)]
  BY DEF Frame
<1>2. DOMAIN c = DOMAIN d
  OBVIOUS
<1>3. ASSUME NEW s PROVE Below(Taken(c, s), Taken(d, s))
  BY <1>2 DEF Below, AllBelow
<1> HIDE DEF Taken
<1>4. QED
  BY <1>1, <1>3 DEF AllBelow

LEMMA TargetsIn ==
    ASSUME NEW body, DOMAIN body = 1 .. Len(body), NEW l, NEW k \in Targets(body, l)
    PROVE  k \in 1 .. Len(body) /\ body[k].op = "Label" /\ body[k].label = l
<1>1. l \in Labels(body) /\ k = PositionOf(body, l)
  BY DEF Targets
<1>2. \E j \in 1 .. Len(body) : body[j].op = "Label" /\ body[j].label = l
  BY <1>1 DEF Labels
<1>3. QED
  BY <1>1, <1>2 DEF PositionOf

LEMMA LandsIn ==
    ASSUME NEW body, Len(body) \in Nat, DOMAIN body = 1 .. Len(body), NEW n \in 1 .. Len(body), NEW l,
           NEW k \in Lands(body, n, l)
    PROVE  \/ k = n + 1 /\ l = NoLabel
           \/ k \in 1 .. Len(body) /\ body[k].op = "Label" /\ body[k].label = l
<1>1. CASE l = NoLabel
  BY <1>1 DEF Lands
<1>2. CASE l # NoLabel
  <2>1. k \in Targets(body, l)
    BY <1>2 DEF Lands
  <2>2. QED
    BY <2>1, TargetsIn
<1>3. QED
  BY <1>1, <1>2

LEMMA LandsSame ==
    ASSUME NEW f, NEW g, NEW F, NEW arity, NEW D, InPlace(f, g, F, arity, D),
           NEW n \in 1 .. Len(f.body), NEW l
    PROVE  /\ Targets(g.body, l) = Targets(f.body, l)
           /\ Lands(g.body, n, l) = Lands(f.body, n, l)
<1> DEFINE Is(body, k) == body[k].op = "Label" /\ body[k].label = l
<1>1. DOMAIN f.body = 1 .. Len(f.body) /\ DOMAIN g.body = 1 .. Len(f.body)
  BY DEF InPlace
<1>2. ASSUME NEW k \in 1 .. Len(f.body) PROVE Is(g.body, k) <=> Is(f.body, k)
  <2>1. Mimics(f.body[k], g.body[k], F[k], D)
    BY DEF InPlace
  <2>2. QED
    BY <2>1 DEF Mimics, DefinesSlot
<1>3. \A body : l \in Labels(body) <=> \E k \in DOMAIN body : Is(body, k)
  BY DEF Labels
<1>4. l \in Labels(g.body) <=> l \in Labels(f.body)
  BY <1>1, <1>2, <1>3
<1>5. PositionOf(g.body, l) = PositionOf(f.body, l)
  <2>1. \A body : PositionOf(body, l) = CHOOSE k \in DOMAIN body : Is(body, k)
    BY DEF PositionOf
  <2>2. PositionOf(f.body, l) = CHOOSE k \in 1 .. Len(f.body) : Is(f.body, k)
    BY <1>1, <2>1
  <2>3. PositionOf(g.body, l) = CHOOSE k \in 1 .. Len(f.body) : Is(g.body, k)
    BY <1>1, <2>1
  <2> HIDE DEF Is
  <2>4. QED
    BY <1>2, <2>2, <2>3
<1>6. QED
  BY <1>4, <1>5 DEF Lands, Targets


\* What mimics an instruction gets, from slots with as much defined, to the same place
\* with as much defined.
LEMMA GoesAlike ==
    ASSUME NEW f, NEW g, NEW F, NEW arity, NEW D, InPlace(f, g, F, arity, D),
           NEW n \in 1 .. Len(f.body), Quiet(f.body[n]),
           NEW a \in F[n], NEW b \in Envs(f.slotCount), AllBelow(a, b),
           NEW G \in Memories(D), NEW H \in Memories(D), AllBelow(G, H),
           NEW z \in Goes(f.body, n, a, G)
    PROVE  /\ Quiet(g.body[n])
           /\ \E y \in Goes(g.body, n, b, H) :
                 <<z[1], y[1], z[2], y[2]>> \in Beside(F, Envs(f.slotCount))
<1> DEFINE i == f.body[n]
           j == g.body[n]
           m == f.slotCount
           E == Envs(m)
<1>1. /\ m \in Nat /\ Len(f.body) \in Nat /\ DOMAIN f.body = 1 .. Len(f.body)
      /\ DOMAIN F = 1 .. Len(f.body) + 1 /\ F[n] \subseteq E /\ F[n + 1] \subseteq E
      /\ Sound(i, m, arity, D) /\ Sound(j, m, arity, D)
      /\ Mimics(i, j, F[n], D) /\ LeadsInto(f.body, n, F, D)
      /\ n \in DOMAIN F /\ n + 1 \in DOMAIN F
  <2>1. n \in 1 .. Len(f.body) + 1 /\ n + 1 \in 1 .. Len(f.body) + 1
    BY DEF InPlace
  <2>2. Covers(F, f, D)
    BY DEF InPlace
  <2>3. QED
    BY <2>1, <2>2 DEF InPlace, Covers
<1>2. Quiet(j)
  BY <1>1 DEF Mimics, Quiet
<1>3. \A l : /\ Lands(g.body, n, l) = Lands(f.body, n, l)
            /\ Targets(g.body, l) = Targets(f.body, l)
  BY LandsSame
<1>4. a \in E
  BY <1>1
<1>5. ASSUME NEW k \in Onward(f.body, n), k \in DOMAIN F
      PROVE  <<k, k, a, b>> \in Beside(F, E)
  <2>1. a \in F[k]
    BY <1>1, <1>5 DEF LeadsInto
  <2> HIDE DEF E
  <2>2. b \in E
    BY DEF E, m
  <2>3. QED
    BY <1>4, <1>5, <2>1, <2>2, BesideIs
<1>6. \A l : \A k \in Lands(f.body, n, l) \cup Targets(f.body, l) : k \in DOMAIN F
  <2>1. ASSUME NEW l, NEW k \in Lands(f.body, n, l) \cup Targets(f.body, l) PROVE k \in DOMAIN F
    <3>1. k = n + 1 \/ k \in 1 .. Len(f.body)
      BY <1>1, <2>1, LandsIn, TargetsIn
    <3>2. QED
      BY <1>1, <3>1
  <2>2. QED
    BY <2>1
<1> DEFINE There == \E y \in Goes(g.body, n, b, H) : <<z[1], y[1], z[2], y[2]>> \in Beside(F, E)
<1>7. CASE i.op = "Label"
  <2>1. n + 1 \in Onward(f.body, n)
    BY <1>7 DEF Onward
  <2>2. j.op = "Label"
    BY <1>1, <1>7 DEF Mimics, DefinesSlot
  <2>3. Goes(f.body, n, a, G) = {<<n + 1, a>>} /\ Goes(g.body, n, b, H) = {<<n + 1, b>>}
    BY <1>7, <2>2 DEF Goes, DefinesSlot
  <2>4. <<n + 1, n + 1, a, b>> \in Beside(F, E)
    BY <1>1, <1>5, <2>1
  <2> HIDE DEF E
  <2>5. There
    <3> DEFINE y == <<n + 1, b>>
    <3>1. y \in Goes(g.body, n, b, H) /\ z[1] = n + 1 /\ z[2] = a
      BY <2>3
    <3>2. y[1] = n + 1 /\ y[2] = b
      OBVIOUS
    <3> HIDE DEF y
    <3>3. <<z[1], y[1], z[2], y[2]>> \in Beside(F, E)
      BY <2>4, <3>1, <3>2
    <3>4. QED
      BY <3>1, <3>3
  <2>6. QED
    BY <1>2, <2>5 DEF E, m
<1>8. CASE i.op = "Goto"
  <2>1. j.op = "Goto" /\ j.label = i.label
    BY <1>1, <1>8 DEF Mimics, DefinesSlot
  <2>2. /\ Goes(f.body, n, a, G) = {<<k, a>> : k \in Targets(f.body, i.label)}
        /\ Goes(g.body, n, b, H) = {<<k, b>> : k \in Targets(f.body, i.label)}
    BY <1>3, <1>8, <2>1 DEF Goes, DefinesSlot
  <2>3. PICK k \in Targets(f.body, i.label) : z = <<k, a>>
    BY <2>2
  <2>4. <<k, k, a, b>> \in Beside(F, E)
    <3>1. k \in Onward(f.body, n)
      BY <1>8 DEF Onward
    <3>2. QED
      BY <1>6, <1>5, <3>1
  <2> HIDE DEF E
  <2>5. There
    <3> DEFINE y == <<k, b>>
    <3>1. y \in Goes(g.body, n, b, H) /\ z[1] = k /\ z[2] = a
      BY <2>2, <2>3
    <3>2. y[1] = k /\ y[2] = b
      OBVIOUS
    <3> HIDE DEF y
    <3>3. <<z[1], y[1], z[2], y[2]>> \in Beside(F, E)
      BY <2>4, <3>1, <3>2
    <3>4. QED
      BY <3>1, <3>3
  <2>6. QED
    BY <1>2, <2>5 DEF E, m
<1>9. CASE i.op = "Branch"
  <2>1. /\ j.op = "Branch" /\ j.label = i.label /\ j.falseLabel = i.falseLabel
        /\ a[j.lhs] = a[i.lhs]
    BY <1>1, <1>9 DEF Mimics, DefinesSlot
  <2>2. j.lhs \in DOMAIN a
    <3>1. j.lhs \in Slots(m)
      BY <1>1, <2>1, ReadsSlots
    <3>2. QED
      BY <1>1, <1>4, <3>1, EnvIs
  <2>3. Below(a[j.lhs], b[j.lhs])
    BY <2>2 DEF AllBelow
  <2> DEFINE l == IF a[i.lhs] # 0 THEN i.label ELSE i.falseLabel
  <2>4. a[i.lhs] # Undef
    <3>1. a[i.lhs] = Undef => Goes(f.body, n, a, G) = {}
      BY <1>9 DEF Goes, DefinesSlot
    <3>2. QED
      BY <3>1
  <2>5. b[j.lhs] = a[i.lhs]
    BY <2>1, <2>3, <2>4 DEF Below
  <2>6. Goes(f.body, n, a, G) = {<<k, a>> : k \in Lands(f.body, n, l)}
    BY <1>9, <2>4 DEF Goes, DefinesSlot
  <2>7. Goes(g.body, n, b, H) = {<<k, b>> : k \in Lands(f.body, n, l)}
    <3>1. Goes(g.body, n, b, H) = {<<k, b>> : k \in Lands(g.body, n, l)}
      BY <2>1, <2>4, <2>5 DEF Goes, DefinesSlot
    <3> HIDE DEF l
    <3>2. QED
      BY <1>3, <3>1
  <2> HIDE DEF l
  <2>8. PICK k \in Lands(f.body, n, l) : z = <<k, a>>
    BY <2>6
  <2>9. <<k, k, a, b>> \in Beside(F, E)
    <3>1. k \in Onward(f.body, n)
      BY <1>9 DEF Onward, l
    <3>2. QED
      BY <1>6, <1>5, <3>1
  <2> HIDE DEF E
  <2>10. There
    <3> DEFINE y == <<k, b>>
    <3>1. y \in Goes(g.body, n, b, H) /\ z[1] = k /\ z[2] = a
      BY <2>7, <2>8
    <3>2. y[1] = k /\ y[2] = b
      OBVIOUS
    <3> HIDE DEF y
    <3>3. <<z[1], y[1], z[2], y[2]>> \in Beside(F, E)
      BY <2>9, <3>1, <3>2
    <3>4. QED
      BY <3>1, <3>3
  <2>11. QED
    BY <1>2, <2>10 DEF E, m
<1>10. CASE DefinesSlot(i)
  <2> DEFINE v == Effect(i, a, G)
             w == Effect(j, b, H)
  <2>1. DefinesSlot(j) /\ j.dest = i.dest /\ Below(v, Effect(j, a, G)) /\ i.dest \in Slots(m)
    <3>1. i.dest \in Slots(m)
      BY <1>1, <1>10, ReadsSlots
    <3>2. QED
      BY <1>1, <1>10, <3>1 DEF Mimics
  <2>2. Below(Effect(j, a, G), w)
    BY <1>1, <1>4, <2>1, EffectGrows
  <2>3. w \in Values
    BY <1>1, <2>1, EffectIs
  <2>4. [a EXCEPT ![i.dest] = v] \in F[n + 1]
    BY <1>1, <1>10 DEF LeadsInto
  <2>5. \A body, e, M : DefinesSlot(body[n])
            => Goes(body, n, e, M) = {<<n + 1, [e EXCEPT ![body[n].dest] = Effect(body[n], e, M)]>>}
    BY DEF Goes, DefinesSlot
  <2>6. /\ Goes(f.body, n, a, G) = {<<n + 1, [a EXCEPT ![i.dest] = v]>>}
        /\ Goes(g.body, n, b, H) = {<<n + 1, [b EXCEPT ![i.dest] = w]>>}
    BY <1>10, <2>1, <2>5
  <2>7. Below(v, w)
    BY <2>1, <2>2 DEF Below
  <2> HIDE DEF v, w
  <2>8. /\ AllBelow([a EXCEPT ![i.dest] = v], [b EXCEPT ![i.dest] = w])
        /\ [a EXCEPT ![i.dest] = v] \in E /\ [b EXCEPT ![i.dest] = w] \in E
    <3>1. [b EXCEPT ![i.dest] = w] \in E
      BY <1>1, <2>3, EnvIs, ZenonT(40)
    <3>2. [a EXCEPT ![i.dest] = v] \in E
      BY <1>1, <2>4
    <3>3. a \in [Slots(m) -> Values] /\ b \in [Slots(m) -> Values]
      BY <1>4 DEF Envs
    <3>4. AllBelow([a EXCEPT ![i.dest] = v], [b EXCEPT ![i.dest] = w])
      BY <2>7, <3>3 DEF AllBelow
    <3>5. QED
      BY <3>1, <3>2, <3>4
  <2> HIDE DEF E
  <2> DEFINE a1 == [a EXCEPT ![i.dest] = v]
             b1 == [b EXCEPT ![i.dest] = w]
  <2>9. <<n + 1, n + 1, [a EXCEPT ![i.dest] = v], [b EXCEPT ![i.dest] = w]>> \in Beside(F, E)
    BY <1>1, <2>4, <2>8, BesideIs
  <2>10. There
    <3> DEFINE y == <<n + 1, b1>>
    <3>1. y \in Goes(g.body, n, b, H) /\ z[1] = n + 1 /\ z[2] = a1
      BY <2>6
    <3>2. y[1] = n + 1 /\ y[2] = b1
      OBVIOUS
    <3> HIDE DEF y, a1, b1
    <3>3. <<z[1], y[1], z[2], y[2]>> \in Beside(F, E)
      BY <2>9, <3>1, <3>2 DEF a1, b1
    <3>4. QED
      BY <3>1, <3>3
  <2>11. QED
    BY <1>2, <2>10 DEF E, m
<1>11. QED
  BY <1>7, <1>8, <1>9, <1>10 DEF Quiet


\* So the one function follows the other, if it calls only what is compared as well.
LEMMA InPlaceFollows ==
    ASSUME NEW f, NEW g, NEW F, NEW arity, NEW D, InPlace(f, g, F, arity, D), NEW names,
           \A n \in 1 .. Len(f.body) : f.body[n].op = "Call" => f.body[n].name \in names
    PROVE  Follows(f, g, Beside(F, Envs(f.slotCount)), D, names)
<1> DEFINE m == f.slotCount
           E == Envs(m)
           V == Beside(F, E)
<1>1. /\ m \in Nat /\ g.slotCount = m /\ g.params = f.params
      /\ Len(f.body) \in Nat /\ DOMAIN g.body = 1 .. Len(f.body) /\ Len(g.body) = Len(f.body)
      /\ DOMAIN F = 1 .. Len(f.body) + 1 /\ F[1] = E
  BY DEF InPlace, Covers
<1>2. ASSUME NEW n, NEW k, NEW a, NEW b, <<n, k, a, b>> \in V
      PROVE  /\ <<n, a>> \in Places(f.body, f.slotCount) /\ <<k, b>> \in Places(g.body, g.slotCount)
             /\ n =< Len(f.body) => Answers(f, g, V, D, names, n, k, a, b)
  <2>1. n \in DOMAIN F /\ k = n /\ a \in E /\ b \in E /\ a \in F[n] /\ AllBelow(a, b)
    BY <1>2, BesideIs
  <2>2. <<n, a>> \in Places(f.body, f.slotCount) /\ <<k, b>> \in Places(g.body, g.slotCount)
    BY <1>1, <2>1 DEF Places
  <2>3. ASSUME n =< Len(f.body) PROVE Answers(f, g, V, D, names, n, n, a, b)
    <3> DEFINE i == f.body[n]
               j == g.body[n]
    <3>1. n \in 1 .. Len(f.body) /\ n \in DOMAIN g.body /\ n + 1 \in DOMAIN F
      BY <1>1, <2>1, <2>3
    <3>2. /\ Sound(i, m, arity, D) /\ Sound(j, m, arity, D)
          /\ Mimics(i, j, F[n], D) /\ LeadsInto(f.body, n, F, D)
      BY <3>1 DEF InPlace, Covers
    <3>3. ASSUME Quiet(i), NEW G \in Memories(D), NEW H \in Memories(D), AllBelow(G, H),
                 NEW z \in Goes(f.body, n, a, G)
          PROVE  /\ Quiet(j)
                 /\ \E y \in Goes(g.body, n, b, H) : <<z[1], y[1], z[2], y[2]>> \in V
      BY <2>1, <3>1, <3>3, GoesAlike
    <3>4. ASSUME i.op = "StoreGlobal"
          PROVE  /\ j.op = "StoreGlobal" /\ j.name = i.name
                 /\ a[i.lhs] \in Values /\ b[j.lhs] \in Values /\ Below(a[i.lhs], b[j.lhs])
                 /\ <<n + 1, n + 1, a, b>> \in V
      <4>1. j.op = "StoreGlobal" /\ j.name = i.name /\ a[j.lhs] = a[i.lhs] /\ a \in F[n + 1]
        <5>1. n + 1 \in Onward(f.body, n)
          BY <3>4 DEF Onward
        <5>2. QED
          BY <2>1, <3>2, <3>4, <5>1 DEF Mimics, LeadsInto, DefinesSlot
      <4>2. i.lhs \in Slots(m) /\ j.lhs \in Slots(m)
        BY <1>1, <3>2, <3>4, <4>1, ReadsSlots
      <4>3. a[i.lhs] \in Values /\ b[j.lhs] \in Values /\ j.lhs \in DOMAIN a
        BY <1>1, <2>1, <4>2, EnvIs
      <4>4. Below(a[i.lhs], b[j.lhs])
        BY <2>1, <4>1, <4>3 DEF AllBelow
      <4>5. <<n + 1, n + 1, a, b>> \in V
        BY <2>1, <3>1, <4>1, BesideIs
      <4>6. QED
        BY <4>1, <4>3, <4>4, <4>5
    <3>5. ASSUME i.op = "Call"
          PROVE  /\ j.op = "Call" /\ j.name = i.name /\ i.name \in names
                 /\ Passed(i, a) \in Seq(Values) /\ Passed(j, b) \in Seq(Values)
                 /\ Len(Passed(j, b)) = Len(Passed(i, a)) /\ AllBelow(Passed(i, a), Passed(j, b))
                 /\ \A v, w \in Values : Below(v, w) =>
                       <<n + 1, n + 1, [a EXCEPT ![i.dest] = v], [b EXCEPT ![j.dest] = w]>> \in V
      <4>1. /\ j.op = "Call" /\ j.name = i.name /\ j.dest = i.dest /\ j.args = i.args
            /\ \A v \in Values : [a EXCEPT ![i.dest] = v] \in F[n + 1]
        BY <2>1, <3>2, <3>5 DEF Mimics, LeadsInto, DefinesSlot
      <4>2. /\ i.args \in Seq(Int) /\ \A k1 \in DOMAIN i.args : i.args[k1] \in Slots(m)
            /\ i.dest \in Slots(m)
        BY <1>1, <3>2, <3>5, ReadsSlots
      <4> HIDE DEF i, j
      <4>3. /\ Passed(i, a) = [k1 \in DOMAIN i.args |-> a[i.args[k1]]]
            /\ Passed(j, b) = [k1 \in DOMAIN i.args |-> b[i.args[k1]]]
        BY <4>1 DEF Passed
      <4>4. a \in [Slots(m) -> Values] /\ b \in [Slots(m) -> Values]
        BY <2>1 DEF Envs
      <4>5. \A e \in [Slots(m) -> Values] : [k1 \in DOMAIN i.args |-> e[i.args[k1]]] \in Seq(Values)
        <5> DEFINE c == i.args
                   l == Len(c)
        <5>1. l \in Nat /\ DOMAIN c = 1 .. l
          BY <4>2
        <5> HIDE DEF l
        <5>2. ASSUME NEW e \in [Slots(m) -> Values]
              PROVE  [k1 \in DOMAIN c |-> e[c[k1]]] \in [1 .. l -> Values]
          BY <4>2, <5>1
        <5>3. \A s : s \in [1 .. l -> Values] => s \in Seq(Values)
          BY <5>1
        <5>4. QED
          BY <5>2, <5>3
      <4>6. Passed(i, a) \in Seq(Values) /\ Passed(j, b) \in Seq(Values)
        BY <4>3, <4>4, <4>5
      <4>7. Len(Passed(j, b)) = Len(Passed(i, a))
        <5>1. DOMAIN Passed(i, a) = DOMAIN Passed(j, b)
          BY <4>3
        <5> DEFINE c == Passed(i, a)
                   d == Passed(j, b)
        <5>2. c \in Seq(Values) /\ d \in Seq(Values) /\ DOMAIN c = DOMAIN d
          BY <4>6, <5>1
        <5> HIDE DEF c, d
        <5>3. Len(c) = Len(d)
          BY <5>2
        <5>4. QED
          BY <5>3 DEF c, d
      <4>8. AllBelow(Passed(i, a), Passed(j, b))
        <5>1. \A s \in Slots(m) : Below(a[s], b[s])
          BY <2>1, <4>4 DEF AllBelow
        <5>2. QED
          BY <4>2, <4>3, <5>1 DEF AllBelow
      <4>9. ASSUME NEW v \in Values, NEW w \in Values, Below(v, w)
            PROVE  <<n + 1, n + 1, [a EXCEPT ![i.dest] = v], [b EXCEPT ![j.dest] = w]>> \in V
        <5>1. [a EXCEPT ![i.dest] = v] \in E /\ [b EXCEPT ![i.dest] = w] \in E
          BY <1>1, <2>1, EnvIs
        <5>2. AllBelow([a EXCEPT ![i.dest] = v], [b EXCEPT ![i.dest] = w])
          BY <2>1, <4>4, <4>9 DEF AllBelow
        <5>3. [a EXCEPT ![i.dest] = v] \in F[n + 1]
          BY <4>1
        <5> HIDE DEF E
        <5>4. QED
          BY <3>1, <4>1, <5>1, <5>2, <5>3, BesideIs
      <4>10. i.name \in names
        BY <3>1, <3>5 DEF i
      <4>11. QED
        BY <4>1, <4>6, <4>7, <4>8, <4>9, <4>10
    <3>6. ASSUME i.op \in {"Return", "ReturnVoid"}
          PROVE  /\ j.op \in {"Return", "ReturnVoid"}
                 /\ Given(i, a) \in Values /\ Given(j, b) \in Values /\ Below(Given(i, a), Given(j, b))
      <4>1. j.op = i.op /\ (i.op = "Return" => a[j.lhs] = a[i.lhs])
        BY <2>1, <3>2, <3>6 DEF Mimics, DefinesSlot
      <4>2. CASE i.op = "Return"
        <5>1. i.lhs \in Slots(m) /\ j.lhs \in Slots(m)
          BY <1>1, <3>2, <4>1, <4>2, ReadsSlots
        <5>2. a[i.lhs] \in Values /\ b[j.lhs] \in Values /\ j.lhs \in DOMAIN a
          BY <1>1, <2>1, <5>1, EnvIs
        <5>3. Below(a[i.lhs], b[j.lhs])
          BY <2>1, <4>1, <4>2, <5>2 DEF AllBelow
        <5>4. Given(i, a) = a[i.lhs] /\ Given(j, b) = b[j.lhs]
          BY <4>1, <4>2 DEF Given
        <5>5. QED
          BY <4>1, <4>2, <5>2, <5>3, <5>4
      <4>3. CASE i.op = "ReturnVoid"
        BY <4>1, <4>3 DEF Given, Values, Below
      <4>4. QED
        BY <3>6, <4>2, <4>3
    <3> HIDE DEF V
    <3>7. QED
      BY <3>1, <3>3, <3>4, <3>5, <3>6 DEF Answers
  <2>4. QED
    BY <2>1, <2>2, <2>3
<1>3. ASSUME NEW c \in Seq(Values), NEW d \in Seq(Values), NEW x,
             Len(c) = Len(f.params), Len(d) = Len(f.params), AllBelow(c, d)
      PROVE  <<1, 1, Frame(f, c, x).env, Frame(g, d, x).env>> \in V
  <2>1. Frame(f, c, x).env \in E /\ Frame(g, d, x).env \in E
    BY <1>1, FrameEnvIs
  <2>2. AllBelow(Frame(f, c, x).env, Frame(g, d, x).env)
    BY <1>1, <1>3, FramesBelow
  <2>3. 1 \in DOMAIN F
    BY <1>1
  <2> HIDE DEF E
  <2>4. QED
    BY <1>1, <2>1, <2>2, <2>3, BesideIs
<1> HIDE DEF V
<1>4. Follows(f, g, V, D, names)
  BY <1>2, <1>3 DEF Follows
<1>5. QED
  BY <1>4 DEF V, E, m


\* The code reads no globals but those in D.
LoadsIn(fn, D) == \A n \in DOMAIN fn.body : fn.body[n].op = "LoadGlobal" => fn.body[n].name \in D
AllLoadsIn(p, D) == \A k \in DOMAIN p.functions : LoadsIn(p.functions[k], D)

LEMMA SoundIs ==
    ASSUME NEW p, IsProgram(p), NEW D, AllLoadsIn(p, D), NEW f \in FunctionNames(p)
    PROVE  LET fn == FunctionNamed(p, f)
           IN  \A n \in 1 .. Len(fn.body) : Sound(fn.body[n], fn.slotCount, Arity(p), D)
<1> DEFINE fn == FunctionNamed(p, f)
<1>1. /\ DOMAIN fn.body = 1 .. Len(fn.body)
      /\ \A n \in DOMAIN fn.body :
            IsInstruction(fn.body[n]) /\ FitsFrame(fn.body[n], fn.slotCount, Arity(p))
  BY FunctionFacts
<1>2. LoadsIn(fn, D)
  <2>1. PICK k \in DOMAIN p.functions : FunctionNamed(p, f) = p.functions[k]
    BY NamedIs
  <2>2. QED
    BY <2>1 DEF AllLoadsIn
<1> HIDE DEF fn
<1>3. \A n \in 1 .. Len(fn.body) : Sound(fn.body[n], fn.slotCount, Arity(p), D)
  BY <1>1, <1>2 DEF Sound, LoadsIn
<1>4. QED
  BY <1>3 DEF fn

\* Nothing is said of the slots of a function.
Anything(fn) == [n \in 1 .. Len(fn.body) + 1 |-> Envs(fn.slotCount)]

\* A function mimics itself.
LEMMA SelfInPlace ==
    ASSUME NEW fn, NEW arity, NEW D, fn.slotCount \in Nat, Len(fn.body) \in Nat,
           DOMAIN fn.body = 1 .. Len(fn.body),
           \A n \in 1 .. Len(fn.body) : Sound(fn.body[n], fn.slotCount, arity, D)
    PROVE  InPlace(fn, fn, Anything(fn), arity, D)
<1> DEFINE F == Anything(fn)
           E == Envs(fn.slotCount)
<1>1. DOMAIN F = 1 .. Len(fn.body) + 1 /\ \A n \in 1 .. Len(fn.body) + 1 : F[n] = E
  BY DEF Anything
<1> HIDE DEF F
<1>2. 1 \in 1 .. Len(fn.body) + 1 /\ \A n \in 1 .. Len(fn.body) :
         n \in 1 .. Len(fn.body) + 1 /\ n + 1 \in 1 .. Len(fn.body) + 1
  OBVIOUS
<1>3. ASSUME NEW n \in 1 .. Len(fn.body)
      PROVE  /\ Mimics(fn.body[n], fn.body[n], F[n], D)
             /\ LeadsInto(fn.body, n, F, D)
  <2> DEFINE i == fn.body[n]
  <2>1. F[n] = E /\ F[n + 1] = E
    BY <1>1, <1>2
  <2>2. Sound(i, fn.slotCount, arity, D)
    OBVIOUS
  <2>3. ASSUME NEW k \in Onward(fn.body, n) PROVE F[k] = E
    <3>1. k = n + 1 \/ k \in 1 .. Len(fn.body)
      <4>1. \A l : \A j \in Lands(fn.body, n, l) \cup Targets(fn.body, l) : j = n + 1 \/ j \in 1 .. Len(fn.body)
        BY LandsIn, TargetsIn
      <4>2. QED
        BY <2>3, <4>1 DEF Onward
    <3>2. QED
      BY <1>1, <1>2, <3>1
  <2>4. Mimics(i, i, F[n], D)
    BY DEF Mimics, Below
  <2>5. ASSUME NEW a \in E, DefinesSlot(i), NEW G \in Memories(D)
        PROVE  [a EXCEPT ![i.dest] = Effect(i, a, G)] \in E
    <3>1. Effect(i, a, G) \in Values
      BY <2>2, <2>5, EffectIs
    <3>2. QED
      BY <3>1, EnvIs
  <2>6. \A a \in E : \A v \in Values : [a EXCEPT ![i.dest] = v] \in E
    BY EnvIs
  <2> HIDE DEF E
  <2>7. LeadsInto(fn.body, n, F, D)
    BY <2>1, <2>3, <2>5, <2>6 DEF LeadsInto
  <2>8. QED
    BY <2>4, <2>7
<1>4. \A n \in 1 .. Len(fn.body) + 1 : F[n] \subseteq E
  BY <1>1
<1>5. F[1] = E
  BY <1>1, <1>2
<1>6. Covers(F, fn, D)
  BY <1>1, <1>3, <1>4, <1>5 DEF Covers
<1> HIDE DEF E
<1>7. InPlace(fn, fn, F, arity, D)
  BY <1>3, <1>6 DEF InPlace
<1>8. QED
  BY <1>7 DEF F

LEMMA FollowsSelf ==
    ASSUME NEW p, IsProgram(p), NEW D, AllLoadsIn(p, D), NEW f \in FunctionNames(p)
    PROVE  LET fn == FunctionNamed(p, f)
           IN  Follows(fn, fn, Beside(Anything(fn), Envs(fn.slotCount)), D, FunctionNames(p))
<1> DEFINE fn == FunctionNamed(p, f)
<1>1. /\ fn.slotCount \in Nat /\ Len(fn.body) \in Nat /\ DOMAIN fn.body = 1 .. Len(fn.body)
      /\ \A n \in DOMAIN fn.body :
            IsInstruction(fn.body[n]) /\ FitsFrame(fn.body[n], fn.slotCount, Arity(p))
  BY FunctionFacts
<1>2. \A n \in 1 .. Len(fn.body) : Sound(fn.body[n], fn.slotCount, Arity(p), D)
  BY SoundIs
<1> HIDE DEF fn
<1>3. InPlace(fn, fn, Anything(fn), Arity(p), D)
  BY <1>1, <1>2, SelfInPlace
<1>4. \A n \in 1 .. Len(fn.body) : fn.body[n].op = "Call" => fn.body[n].name \in FunctionNames(p)
  <2>1. DOMAIN Arity(p) = FunctionNames(p)
    BY DEF Arity
  <2>2. QED
    BY <1>1, <2>1 DEF FitsFrame
<1>5. QED
  BY <1>3, <1>4, InPlaceFollows DEF fn

\* Calls name functions of the program.
LEMMA CallsNamed ==
    ASSUME NEW p, IsProgram(p), NEW k \in DOMAIN p.functions
    PROVE  \A n \in 1 .. Len(p.functions[k].body) :
              p.functions[k].body[n].op = "Call" => p.functions[k].body[n].name \in FunctionNames(p)
<1> DEFINE old == p.functions[k]
<1>1. FunctionNamed(p, old.name) = old /\ old.name \in FunctionNames(p)
  BY NamedIs
<1>2. /\ DOMAIN old.body = 1 .. Len(old.body)
      /\ \A n \in DOMAIN old.body : FitsFrame(old.body[n], old.slotCount, Arity(p))
  BY <1>1, FunctionFacts
<1>3. DOMAIN Arity(p) = FunctionNames(p)
  BY DEF Arity
<1> HIDE DEF old
<1>4. \A n \in 1 .. Len(old.body) : old.body[n].op = "Call" => old.body[n].name \in FunctionNames(p)
  BY <1>2, <1>3 DEF FitsFrame
<1>5. QED
  BY <1>4 DEF old

\* A program with one function that follows the old one returns what it returned.
WithFunction(p, k, f) == [p EXCEPT !.functions[k] = f]
KeepsOutcome(p, q, g) == Outcome(p, g) # Undef => Outcome(q, g) = Outcome(p, g)

LEMMA FollowerKeeps ==
    ASSUME NEW p, IsProgram(p), NEW D, AllLoadsIn(p, D), Len(FunctionNamed(p, "main").params) = 0,
           NEW k \in DOMAIN p.functions, NEW f, IsFunction(f, Arity(p)),
           f.name = p.functions[k].name, f.params = p.functions[k].params,
           NEW W, Follows(p.functions[k], f, W, D, FunctionNames(p)), NEW g \in Memories(D)
    PROVE  KeepsOutcome(p, WithFunction(p, k, f), g)
<1> DEFINE q == WithFunction(p, k, f)
           old == p.functions[k]
           names == FunctionNames(p)
<1>1. /\ IsProgram(q) /\ FunctionNames(q) = names
      /\ \A h \in names : FunctionNamed(q, h) = IF h = f.name THEN f ELSE FunctionNamed(p, h)
  BY Replaced DEF WithFunction
<1>2. FunctionNamed(p, f.name) = old /\ f.name \in names
  BY NamedIs
<1>3. "main" \in names
  BY DEF IsProgram
<1> HIDE DEF q
<1> DEFINE V == [h \in names |-> IF h = f.name THEN W
                                 ELSE Beside(Anything(FunctionNamed(p, h)), Envs(FunctionNamed(p, h).slotCount))]
<1>4. ASSUME NEW h \in names PROVE Follows(FunctionNamed(p, h), FunctionNamed(q, h), V[h], D, names)
  <2>1. CASE h = f.name
    <3>1. V[h] = W
      BY <2>1
    <3>2. FunctionNamed(p, h) = old /\ FunctionNamed(q, h) = f
      BY <1>1, <1>2, <2>1
    <3> HIDE DEF V
    <3>3. QED
      BY <3>1, <3>2
  <2>2. CASE h # f.name
    <3> DEFINE fn == FunctionNamed(p, h)
    <3>1. V[h] = Beside(Anything(fn), Envs(fn.slotCount))
      BY <2>2
    <3>2. FunctionNamed(q, h) = fn
      BY <1>1, <2>2
    <3>3. Follows(fn, fn, Beside(Anything(fn), Envs(fn.slotCount)), D, names)
      BY FollowsSelf
    <3> HIDE DEF V, fn, names
    <3>4. Follows(fn, FunctionNamed(q, h), V[h], D, names)
      BY <3>1, <3>2, <3>3
    <3>5. QED
      BY <3>4 DEF fn
  <2>3. QED
    BY <2>1, <2>2
<1> HIDE DEF V, names
<1>5. FollowsAll(p, q, V, D, names)
  BY <1>1, <1>3, <1>4 DEF FollowsAll, names
<1>6. Len(FunctionNamed(q, "main").params) = 0
  <2>1. CASE f.name = "main"
    BY <1>1, <1>2, <1>3, <2>1
  <2>2. CASE f.name # "main"
    BY <1>1, <1>3, <2>2
  <2>3. QED
    BY <2>1, <2>2
<1>7. Outcome(p, g) # Undef => Outcome(q, g) = Outcome(p, g)
  BY <1>5, <1>6, Followed
<1>8. QED
  BY <1>7 DEF q, KeepsOutcome

\* So does one with a function whose instructions mimic those of the old one.
LEMMA InPlaceKeeps ==
    ASSUME NEW p, IsProgram(p), NEW D, AllLoadsIn(p, D), Len(FunctionNamed(p, "main").params) = 0,
           NEW k \in DOMAIN p.functions, NEW f, IsFunction(f, Arity(p)),
           f.name = p.functions[k].name, f.params = p.functions[k].params,
           NEW F, InPlace(p.functions[k], f, F, Arity(p), D), NEW g \in Memories(D)
    PROVE  KeepsOutcome(p, WithFunction(p, k, f), g)
<1> DEFINE old == p.functions[k]
           W == Beside(F, Envs(old.slotCount))
<1>1. \A n \in 1 .. Len(old.body) : old.body[n].op = "Call" => old.body[n].name \in FunctionNames(p)
  BY CallsNamed
<1>2. Follows(old, f, W, D, FunctionNames(p))
  <2> HIDE DEF old
  <2>1. InPlace(old, f, F, Arity(p), D)
    BY DEF old
  <2>2. QED
    BY <1>1, <2>1, InPlaceFollows
<1>3. QED
  <2> HIDE DEF W
  <2>1. QED
    BY <1>2, FollowerKeeps DEF old

-----------------------------------------------------------------------------
(* Known constants. *)

\* The slots in a hold what is known of them.  Undef is not known: it is what folding
\* leaves when it has stopped the compiler.
Holds(known, a) == \A s \in DOMAIN known : known[s] # Undef => Below(a[s], known[s])

\* An operation on known constants is folded to its value.
LEMMA FoldedIsEffect ==
    ASSUME NEW n \in Nat, NEW arity, NEW D, NEW i, Sound(i, n, arity, D), NEW k, Foldable(i, k),
           FoldedValue(i, k) # Undef, NEW a \in Envs(n), Holds(k, a), NEW G
    PROVE  Below(Effect(i, a, G), FoldedValue(i, k))
<1>1. i.op \in {"Move", "Unary", "Binary"} /\ Reads(i) \subseteq DOMAIN k
  BY DEF Foldable
<1>2. CASE i.op = "Move"
  <2>1. Reads(i) = {i.lhs}
    BY <1>2, ReadsAre
  <2>2. k[i.lhs] # Undef /\ FoldedValue(i, k) = k[i.lhs]
    BY <1>2, <2>1 DEF FoldedValue
  <2>3. Below(a[i.lhs], k[i.lhs])
    BY <1>1, <2>1, <2>2 DEF Holds
  <2>4. QED
    BY <1>2, <2>2, <2>3 DEF Effect
<1>3. CASE i.op = "Unary"
  <2>1. Reads(i) = {i.lhs}
    BY <1>3, ReadsAre
  <2>2. k[i.lhs] # Undef
    BY <1>3, <2>1 DEF FoldedValue
  <2>3. FoldedValue(i, k) = UnaryValue(i.oper, k[i.lhs])
    BY <1>3, <2>1, <2>2 DEF FoldedValue
  <2>4. Below(a[i.lhs], k[i.lhs])
    BY <1>1, <2>1, <2>2 DEF Holds
  <2>5. Effect(i, a, G) = IF a[i.lhs] = Undef THEN Undef ELSE UnaryValue(i.oper, a[i.lhs])
    BY <1>3 DEF Effect
  <2>6. QED
    BY <2>3, <2>4, <2>5 DEF Below
<1>4. CASE i.op = "Binary"
  <2> DEFINE u == k[i.lhs]
             v == k[i.rhs]
  <2>1. Reads(i) = {i.lhs, i.rhs}
    BY <1>4, ReadsAre
  <2>2. u # Undef /\ v # Undef
    BY <1>4, <2>1 DEF FoldedValue
  <2>3. FoldedValue(i, k) = IF Overflows(i.oper, u, v) THEN Undef ELSE BinaryValue(i.oper, u, v)
    BY <1>4, <2>1, <2>2 DEF FoldedValue
  <2>4. Below(a[i.lhs], u) /\ Below(a[i.rhs], v)
    BY <1>1, <2>1, <2>2 DEF Holds
  <2>5. Effect(i, a, G) = IF \/ Undef \in {a[i.lhs], a[i.rhs]}
                             \/ i.oper \in {"div", "mod"} /\ a[i.rhs] = 0
                          THEN Undef ELSE BinaryValue(i.oper, a[i.lhs], a[i.rhs])
    BY <1>4 DEF Effect
  <2> HIDE DEF u, v
  <2>6. FoldedValue(i, k) = BinaryValue(i.oper, u, v)
    BY <2>3
  <2>7. QED
    BY <2>4, <2>5, <2>6 DEF Below
<1>5. QED
  BY <1>1, <1>2, <1>3, <1>4

LEMMA ForgetHolds ==
    ASSUME NEW known, NEW a, NEW d, Holds(known, a)
    PROVE  /\ Holds(Forget(known, d), a) /\ d \notin DOMAIN Forget(known, d)
           /\ \A v : Holds(Forget(known, d), [a EXCEPT ![d] = v])
<1>1. /\ DOMAIN Forget(known, d) = DOMAIN known \ {d}
      /\ \A s \in DOMAIN known \ {d} : Forget(known, d)[s] = known[s]
  BY DEF Forget
<1>2. QED
  BY <1>1 DEF Holds

\* What an instruction teaches is so once it has run.
LEMMA LearnHolds ==
    ASSUME NEW n \in Nat, NEW arity, NEW D, NEW i, Sound(i, n, arity, D), NEW known,
           NEW a \in Envs(n), Holds(known, a)
    PROVE  /\ DefinesSlot(i) => \A G \in Memories(D) :
                 Holds(Learn(known, i), [a EXCEPT ![i.dest] = Effect(i, a, G)])
           /\ i.op = "Call" => \A v : Holds(Learn(known, i), [a EXCEPT ![i.dest] = v])
           /\ ~DefinesSlot(i) => Holds(Learn(known, i), a)
<1> DEFINE k == Forget(known, i.dest)
<1>1. /\ Holds(k, a) /\ i.dest \notin DOMAIN k
      /\ \A v : Holds(k, [a EXCEPT ![i.dest] = v])
  BY ForgetHolds
<1>2. DefinesSlot(i) => i.dest \in DOMAIN a
  BY ReadsSlots, EnvIs
<1>3. ASSUME NEW v, NEW w, v # Undef => Below(w, v), DefinesSlot(i)
      PROVE  Holds(Bind(k, i.dest, v), [a EXCEPT ![i.dest] = w])
  <2> DEFINE b == [a EXCEPT ![i.dest] = w]
  <2>1. b[i.dest] = w
    BY <1>2, <1>3
  <2>2. Holds(k, b)
    BY <1>1
  <2>3. /\ DOMAIN Bind(k, i.dest, v) = DOMAIN k \cup {i.dest}
        /\ Bind(k, i.dest, v)[i.dest] = v
        /\ \A s \in DOMAIN k \cup {i.dest} : s # i.dest => Bind(k, i.dest, v)[s] = k[s]
    BY DEF Bind
  <2> HIDE DEF b, k
  <2>4. QED
    BY <1>3, <2>1, <2>2, <2>3 DEF Holds, b
<1>4. CASE i.op = "Const"
  <2>1. Learn(known, i) = Bind(k, i.dest, i.value)
    BY <1>4 DEF Learn, Foldable
  <2>2. DefinesSlot(i) /\ \A G : Effect(i, a, G) = i.value
    BY <1>4 DEF DefinesSlot, Effect
  <2>3. Below(i.value, i.value)
    BY DEF Below
  <2> HIDE DEF k
  <2>4. QED
    BY <1>3, <1>4, <2>1, <2>2, <2>3
<1>5. CASE i.op # "Const" /\ Foldable(i, k)
  <2>1. Learn(known, i) = Bind(k, i.dest, FoldedValue(i, k))
    BY <1>5 DEF Learn
  <2>2. DefinesSlot(i) /\ i.op # "Call"
    BY <1>5 DEF DefinesSlot, Foldable
  <2>3. \A G : FoldedValue(i, k) # Undef => Below(Effect(i, a, G), FoldedValue(i, k))
    BY <1>1, <1>5, FoldedIsEffect
  <2> HIDE DEF k
  <2>4. QED
    BY <1>3, <2>1, <2>2, <2>3
<1>6. CASE i.op # "Const" /\ ~Foldable(i, k)
  <2>1. Learn(known, i) = k
    BY <1>6 DEF Learn
  <2>2. QED
    BY <1>1, <2>1
<1>7. QED
  BY <1>4, <1>5, <1>6

\* Adding 0, subtracting it or from it, and multiplying by 0 or 1.
LEMMA Units ==
    ASSUME NEW v \in Words
    PROVE  /\ BinaryValue("add", 0, v) = v /\ BinaryValue("add", v, 0) = v
           /\ BinaryValue("sub", v, 0) = v /\ BinaryValue("sub", 0, v) = UnaryValue("minus", v)
           /\ BinaryValue("mul", 0, v) = 0 /\ BinaryValue("mul", v, 0) = 0
           /\ BinaryValue("mul", 1, v) = v /\ BinaryValue("mul", v, 1) = v
<1>1. v \in Int /\ 0 \in Words /\ Wrap(v) = v /\ Wrap(0) = 0
  BY WordsAre, WrapFits
<1>2. 0 + v = v /\ v + 0 = v /\ v - 0 = v /\ 0 - v = -v
  BY <1>1
<1>3. 0 * v = 0 /\ v * 0 = 0 /\ 1 * v = v /\ v * 1 = v
  BY <1>1
<1>4. \A x, y : /\ BinaryValue("add", x, y) = Wrap(x + y) /\ BinaryValue("sub", x, y) = Wrap(x - y)
                /\ BinaryValue("mul", x, y) = Wrap(x * y)
  BY DEF BinaryValue
<1>5. UnaryValue("minus", v) = Wrap(-v)
  BY DEF UnaryValue
<1>6. QED
  BY <1>1, <1>2, <1>3, <1>4, <1>5

\* A binary operation simplified by one known operand does what it did.
LEMMA SimplifiedBinary ==
    ASSUME NEW n \in Nat, NEW arity, NEW D, NEW i, Sound(i, n, arity, D), i.op = "Binary",
           NEW known, ~Foldable(i, Forget(known, i.dest)),
           NEW a \in Envs(n), Holds(known, a), NEW G
    PROVE  LET j == Simplify(i, known)
           IN  DefinesSlot(j) /\ j.dest = i.dest /\ Below(Effect(i, a, G), Effect(j, a, G))
<1> DEFINE k == Forget(known, i.dest)
           j == Simplify(i, known)
           l == a[i.lhs]
           r == a[i.rhs]
           Is(s, v) == s \in DOMAIN k /\ k[s] = v
<1>1. l \in Values /\ r \in Values
  BY ReadsSlots, EnvIs
<1>2. Holds(k, a)
  BY ForgetHolds
<1>3. ASSUME NEW s, NEW v \in {0, 1}, Is(s, v) PROVE Below(a[s], v)
  <2>1. v # Undef
    BY IRAssumption
  <2>2. QED
    BY <1>2, <1>3, <2>1 DEF Holds
<1>4. Effect(i, a, G) = IF Undef \in {l, r} \/ (i.oper \in {"div", "mod"} /\ r = 0)
                        THEN Undef ELSE BinaryValue(i.oper, l, r)
  BY DEF Effect
<1> DEFINE e == Effect(i, a, G)
<1>5. e # Undef => e = BinaryValue(i.oper, l, r) /\ l \in Words /\ r \in Words
  BY <1>1, <1>4 DEF Values
<1>6. \/ j = i
      \/ i.oper = "add" /\ Is(i.lhs, 0) /\ j = Move(i.dest, i.rhs)
      \/ i.oper = "add" /\ Is(i.rhs, 0) /\ j = Move(i.dest, i.lhs)
      \/ i.oper = "sub" /\ Is(i.rhs, 0) /\ j = Move(i.dest, i.lhs)
      \/ i.oper = "sub" /\ Is(i.lhs, 0) /\ j = Unary(i.dest, "minus", i.rhs)
      \/ i.oper = "mul" /\ (Is(i.lhs, 0) \/ Is(i.rhs, 0)) /\ j = Const(i.dest, 0)
      \/ i.oper = "mul" /\ Is(i.lhs, 1) /\ j = Move(i.dest, i.rhs)
      \/ i.oper = "mul" /\ Is(i.rhs, 1) /\ j = Move(i.dest, i.lhs)
  BY DEF Simplify
<1>7. \A s : /\ Move(i.dest, s).op = "Move" /\ Move(i.dest, s).dest = i.dest
             /\ Effect(Move(i.dest, s), a, G) = a[s]
  BY DEF Move, Blank, Effect
<1>8. /\ Const(i.dest, 0).op = "Const" /\ Const(i.dest, 0).dest = i.dest
      /\ Effect(Const(i.dest, 0), a, G) = 0
  BY DEF Const, Blank, Effect
<1>9. LET m == Unary(i.dest, "minus", i.rhs)
      IN  /\ m.op = "Unary" /\ m.dest = i.dest
          /\ Effect(m, a, G) = IF r = Undef THEN Undef ELSE UnaryValue("minus", r)
  BY DEF Unary, Blank, Effect
<1>10. DefinesSlot(j) /\ j.dest = i.dest
  BY <1>6, <1>7, <1>8, <1>9 DEF DefinesSlot
<1>11. ASSUME e # Undef PROVE Effect(j, a, G) = e
  <2>1. e = BinaryValue(i.oper, l, r) /\ l \in Words /\ r \in Words /\ l # Undef /\ r # Undef
    BY <1>4, <1>5, <1>11
  <2>2. \A v \in {0, 1} : (Is(i.lhs, v) => l = v) /\ (Is(i.rhs, v) => r = v)
    BY <1>3, <2>1 DEF Below
  <2>3. \/ j = i
        \/ i.oper = "add" /\ l = 0 /\ Effect(j, a, G) = r
        \/ i.oper = "add" /\ r = 0 /\ Effect(j, a, G) = l
        \/ i.oper = "sub" /\ r = 0 /\ Effect(j, a, G) = l
        \/ i.oper = "sub" /\ l = 0 /\ Effect(j, a, G) = UnaryValue("minus", r)
        \/ i.oper = "mul" /\ (l = 0 \/ r = 0) /\ Effect(j, a, G) = 0
        \/ i.oper = "mul" /\ l = 1 /\ Effect(j, a, G) = r
        \/ i.oper = "mul" /\ r = 1 /\ Effect(j, a, G) = l
    <3> HIDE DEF Is, j
    <3>1. QED
      BY <1>6, <1>7, <1>8, <1>9, <2>1, <2>2
  <2> HIDE DEF l, r
  <2>4. QED
    BY <2>1, <2>3, Units
<1>12. QED
  BY <1>10, <1>11 DEF Below

\* Simplified by what holds of its operands, an instruction does what it did, unless the
\* compiler has stopped.
LEMMA SimplifyMimics ==
    ASSUME NEW n \in Nat, NEW arity, NEW D, NEW i, Sound(i, n, arity, D), NEW known,
           ~(Simplify(i, known).op = "Const" /\ Simplify(i, known).value = Undef),
           NEW A, A \subseteq Envs(n), \A a \in A : Holds(known, a)
    PROVE  Mimics(i, Simplify(i, known), A, D)
<1> DEFINE k == Forget(known, i.dest)
           j == Simplify(i, known)
<1>1. CASE Foldable(i, k)
  <2> DEFINE v == FoldedValue(i, k)
  <2>1. j = Const(i.dest, v)
    BY <1>1 DEF Simplify
  <2>2. j.op = "Const" /\ j.dest = i.dest /\ j.value = v
    BY <2>1 DEF Const, Blank
  <2>3. DefinesSlot(i) /\ DefinesSlot(j) /\ \A a, G : Effect(j, a, G) = v
    BY <1>1, <2>2 DEF DefinesSlot, Foldable, Effect
  <2>4. v # Undef
    BY <2>2
  <2>5. ASSUME NEW a \in A, NEW G PROVE Below(Effect(i, a, G), v)
    <3>1. Holds(k, a)
      BY ForgetHolds
    <3>2. QED
      BY <1>1, <2>4, <3>1, FoldedIsEffect
  <2> HIDE DEF v, j
  <2>6. QED
    BY <2>2, <2>3, <2>5 DEF Mimics, j
<1>2. CASE ~Foldable(i, k) /\ i.op = "Binary"
  <2>1. DefinesSlot(i)
    BY <1>2 DEF DefinesSlot
  <2>2. \A a \in A : \A G :
            DefinesSlot(j) /\ j.dest = i.dest /\ Below(Effect(i, a, G), Effect(j, a, G))
    BY <1>2, SimplifiedBinary
  <2>3. DefinesSlot(j) /\ j.dest = i.dest
    BY <1>2 DEF Simplify, DefinesSlot, Move, Unary, Const, Blank
  <2> HIDE DEF j
  <2>4. QED
    BY <2>1, <2>2, <2>3 DEF Mimics, j
<1>3. CASE ~Foldable(i, k) /\ i.op # "Binary"
  <2>1. j = i
    BY <1>3 DEF Simplify
  <2> HIDE DEF j
  <2>2. QED
    BY <2>1 DEF Mimics, Below, j
<1>4. QED
  BY <1>1, <1>2, <1>3

\* What is appended element by element.
Appending(f, x, n, S) ==
    /\ f[0] = <<>> /\ \A k \in 0 .. n : f[k] \in Seq(S)
    /\ \A k \in 1 .. n : f[k] = Append(f[k - 1], x[k])

LEMMA Appended ==
    ASSUME NEW S, NEW n \in Nat, NEW f, NEW x, Appending(f, x, n, S)
    PROVE  Len(f[n]) = n /\ DOMAIN f[n] = 1 .. n /\ \A j \in 1 .. n : f[n][j] = x[j]
<1> DEFINE T == {l \in Nat : l =< n => Len(f[l]) = l /\ \A j \in 1 .. l : f[l][j] = x[j]}
<1>1. /\ f[0] = <<>> /\ \A k \in 0 .. n : f[k] \in Seq(S)
      /\ \A k \in 1 .. n : f[k] = Append(f[k - 1], x[k])
  BY DEF Appending
<1>2. 0 \in T
  BY <1>1 DEF T
<1>3. ASSUME NEW l \in Nat, l \in T PROVE l + 1 \in T
  <2>1. SUFFICES ASSUME l + 1 =< n
                 PROVE  Len(f[l + 1]) = l + 1 /\ \A j \in 1 .. l + 1 : f[l + 1][j] = x[j]
    OBVIOUS
  <2>2. l =< n /\ l \in 0 .. n /\ l + 1 \in 1 .. n /\ (l + 1) - 1 = l
    BY <2>1
  <2>3. f[l] \in Seq(S) /\ Len(f[l]) = l /\ \A j \in 1 .. l : f[l][j] = x[j]
    BY <1>3, <1>1, <2>2
  <2>4. f[l + 1] = Append(f[l], x[l + 1])
    BY <1>1, <2>2
  <2> DEFINE u == f[l]
             v == f[l + 1]
             y == x[l + 1]
  <2>5. u \in Seq(S) /\ Len(u) = l /\ v = Append(u, y) /\ v \in Seq(S)
    BY <1>1, <2>2, <2>3, <2>4
  <2> HIDE DEF u, v, y
  <2>6. Len(v) = l + 1 /\ v[l + 1] = y /\ \A j \in 1 .. l : v[j] = u[j]
    BY <2>5
  <2>7. QED
    BY <2>3, <2>6 DEF u, v, y
<1>4. Nat \subseteq T
  <2> HIDE DEF T
  <2>1. QED
    BY <1>2, <1>3, Induction
<1>5. n =< n /\ n \in 0 .. n /\ n \in T
  BY <1>4
<1>6. QED
  BY <1>5

\* what is known before each instruction of body, K[n - 1] before the one at n
Knows(K, body) ==
    /\ K[0] = Nothing
    /\ \A n \in 1 .. Len(body) :
          K[n] = IF IsControlBoundary(body[n]) THEN Nothing ELSE Learn(K[n - 1], body[n])

\* Every instruction is simplified by what is known before it.
LEMMA ConstFoldIs ==
    ASSUME NEW c, IsContext(c), c.values = Constants, NEW m \in Nat, NEW body \in Seq(Code(c, m))
    PROVE  \E K \in [0 .. Len(body) -> Known(m)] :
              /\ Knows(K, body)
              /\ Len(ConstFold(body)) = Len(body) /\ DOMAIN ConstFold(body) = 1 .. Len(body)
              /\ \A n \in 1 .. Len(body) : ConstFold(body)[n] = Simplify(body[n], K[n - 1])
<1> DEFINE n == Len(body)
           base == [known |-> Nothing, code |-> <<>>]
           op(acc, k) ==
              [known |-> IF IsControlBoundary(body[k]) THEN Nothing ELSE Learn(acc.known, body[k]),
               code  |-> Append(acc.code, Simplify(body[k], acc.known))]
           Is(f) == f = [k \in 0 .. n |-> IF k = 0 THEN base
                                        ELSE CHOOSE v \in {op(u, k) : u \in {f[k - 1]}} : TRUE]
           run == CHOOSE f : Is(f)
           C == [known : Known(m), code : Seq(Code(c, m))]
<1>1. n \in Nat /\ base \in C
  BY MapsAre DEF Known
<1>2. \A u \in C, k \in 1 .. n : op(u, k) \in C
  <2>1. TAKE u \in C, k \in 1 .. n
  <2>2. body[k] \in Code(c, m) /\ u.known \in Known(m) /\ u.code \in Seq(Code(c, m))
    OBVIOUS
  <2>3. Nothing \in Known(m)
    BY MapsAre DEF Known
  <2>4. Learn(u.known, body[k]) \in Known(m) /\ Simplify(body[k], u.known) \in Code(c, m)
    BY <2>2, LearnStays, SimplifyStays
  <2>5. QED
    BY <2>2, <2>3, <2>4
<1>3. ConstFold(body) = run[n].code
  BY DEF ConstFold, Walk
<1> HIDE DEF op, C, n, base
<1> DEFINE H == [z \in C \X (1 .. n) |-> op(z[1], z[2])]
<1>4. H \in [C \X (1 .. n) -> C] /\ \A u \in C, k \in 1 .. n : H[<<u, k>>] = op(u, k)
  BY <1>2
<1> HIDE DEF H
<1>5. PICK f \in [0 .. n -> C] : Walks(f, n, base, H)
  BY <1>1, <1>4, WalkExists
<1>6. Is(f)
  <2>1. ASSUME NEW k \in 1 .. n PROVE k - 1 \in 0 .. n /\ k # 0 /\ f[k] = op(f[k - 1], k)
    <3>1. k - 1 \in 0 .. n /\ k # 0
      BY <1>1
    <3>2. f[k - 1] \in C
      BY <3>1
    <3>3. QED
      BY <1>4, <1>5, <3>1, <3>2 DEF Walks
  <2>2. \A k \in 0 .. n : k # 0 => k \in 1 .. n
    BY <1>1
  <2>3. f[0] = base
    BY <1>5 DEF Walks
  <2>4. QED
    BY <2>1, <2>2, <2>3
<1>7. Is(run)
  BY <1>6
<1> HIDE DEF run
<1>8. run[0] = base /\ \A k \in 1 .. n : run[k] = op(run[k - 1], k)
  <2>1. 0 \in 0 .. n /\ \A k \in 1 .. n : k \in 0 .. n /\ k # 0
    BY <1>1
  <2>2. run[0] = base
    BY <1>7, <2>1
  <2>3. ASSUME NEW k \in 1 .. n PROVE run[k] = op(run[k - 1], k)
    <3>1. run[k] = CHOOSE v \in {op(u, k) : u \in {run[k - 1]}} : TRUE
      BY <1>7, <2>1
    <3>2. QED
      BY <3>1
  <2>4. QED
    BY <2>2, <2>3
<1>9. \A k \in 0 .. n : run[k] \in C
  <2>1. \A k \in 1 .. n : run[k - 1] \in C => run[k] \in C
    BY <1>2, <1>8
  <2>2. run[0] \in C
    BY <1>1, <1>8
  <2>3. QED
    BY <1>1, <2>1, <2>2, WalkStays
<1> DEFINE K == [k \in 0 .. n |-> run[k].known]
           code == [k \in 0 .. n |-> run[k].code]
           x == [k \in 1 .. n |-> Simplify(body[k], K[k - 1])]
<1>10. \A k \in 1 .. n : k - 1 \in 0 .. n /\ k \in 0 .. n
  BY <1>1
<1>11. ASSUME NEW k \in 0 .. n PROVE run[k].known \in Known(m) /\ run[k].code \in Seq(Code(c, m))
  BY <1>9 DEF C
<1>12. run[0].known = Nothing /\ run[0].code = <<>>
  BY <1>8 DEF base
<1>13. ASSUME NEW k \in 1 .. n
       PROVE  /\ run[k].known = IF IsControlBoundary(body[k]) THEN Nothing
                                ELSE Learn(run[k - 1].known, body[k])
              /\ run[k].code = Append(run[k - 1].code, Simplify(body[k], run[k - 1].known))
  <2>1. run[k] = op(run[k - 1], k)
    BY <1>8
  <2>2. QED
    BY <2>1 DEF op
<1> HIDE DEF run
<1>14. K \in [0 .. n -> Known(m)]
  BY <1>11
<1>15. /\ \A k \in 0 .. n : code[k] \in Seq(Code(c, m))
       /\ code[0] = <<>> /\ \A k \in 1 .. n : code[k] = Append(code[k - 1], x[k])
  <2>1. 0 \in 0 .. n
    BY <1>1
  <2>2. QED
    BY <1>10, <1>11, <1>12, <1>13, <2>1
<1>16. Knows(K, body)
  <2>1. 0 \in 0 .. n
    BY <1>1
  <2>2. K[0] = Nothing
    BY <1>12, <2>1
  <2>3. \A k \in 1 .. n :
            K[k] = IF IsControlBoundary(body[k]) THEN Nothing ELSE Learn(K[k - 1], body[k])
    BY <1>10, <1>13
  <2> HIDE DEF K
  <2>4. QED
    BY <2>2, <2>3 DEF Knows, n
<1>17. code[n] = ConstFold(body)
  <2>1. n \in 0 .. n
    BY <1>1
  <2>2. QED
    BY <1>3, <2>1
<1>18. \A k \in 1 .. n : x[k] = Simplify(body[k], K[k - 1])
  OBVIOUS
<1> HIDE DEF code, x, K
<1>19. Len(code[n]) = n /\ DOMAIN code[n] = 1 .. n /\ \A j \in 1 .. n : code[n][j] = x[j]
  <2> DEFINE S == Code(c, m)
  <2>1. \A k \in 0 .. n : code[k] \in Seq(S)
    BY <1>15
  <2> HIDE DEF S
  <2>2. Appending(code, x, n, S)
    BY <1>15, <2>1 DEF Appending
  <2>3. QED
    BY <1>1, <2>2, Appended
<1>20. QED
  BY <1>14, <1>16, <1>17, <1>18, <1>19 DEF n

-----------------------------------------------------------------------------
(* One pass over one function. *)

\* p with code for the body of its function at k
WithBody(p, k, code) == [p EXCEPT !.functions[k] = [p.functions[k] EXCEPT !.body = code]]

\* What p is taken to be: it reads no globals but those in D, main takes no parameters,
\* and its function at k holds no constant that stands for a division that stopped the
\* compiler.
Comparable(p, k, D) ==
    /\ IsProgram(p) /\ AllLoadsIn(p, D)
    /\ Len(FunctionNamed(p, "main").params) = 0
    /\ k \in DOMAIN p.functions /\ ~Stopped(p.functions[k])

\* the instructions a pass over the function at k of p may leave
Allowed(p, k) == Context(p, p.functions[k], Constants, StoresGlobal(p.functions[k]))

LEMMA AllowedIs ==
    ASSUME NEW p, NEW k, NEW D, Comparable(p, k, D)
    PROVE  LET fn == p.functions[k]
           IN  /\ IsContext(Allowed(p, k)) /\ Allowed(p, k).values = Constants
               /\ fn.slotCount \in Nat /\ Len(fn.body) \in Nat /\ DOMAIN fn.body = 1 .. Len(fn.body)
               /\ fn \in Versions(Allowed(p, k), fn)
               /\ fn.body \in Seq(Code(Allowed(p, k), fn.slotCount))
               /\ \A n \in 1 .. Len(fn.body) : Sound(fn.body[n], fn.slotCount, Arity(p), D)
<1> DEFINE fn == p.functions[k]
           stores == StoresGlobal(fn)
<1>1. IsProgram(p) /\ AllLoadsIn(p, D) /\ k \in DOMAIN p.functions /\ ~Stopped(fn)
  BY DEF Comparable
<1>2. stores \in BOOLEAN /\ Words \subseteq Constants
  BY DEF StoresGlobal, Constants
<1>3. Allowed(p, k) = Context(p, fn, Constants, stores)
  BY DEF Allowed
<1>4. StoresGlobal(fn) => stores
  OBVIOUS
<1>5. /\ fn \in Versions(Context(p, fn, Constants, stores), fn) /\ fn.slotCount \in Nat
      /\ fn.body \in Seq(Code(Context(p, fn, Constants, stores), fn.slotCount))
  <2> HIDE DEF stores
  <2>1. QED
    BY <1>1, <1>2, <1>4, FunctionIsVersion
<1>6. IsContext(Allowed(p, k)) /\ Allowed(p, k).values = Constants
  <2> HIDE DEF stores, fn
  <2>1. QED
    BY <1>2, <1>3, ContextIs
<1>7. fn.name \in FunctionNames(p) /\ FunctionNamed(p, fn.name) = fn
  BY <1>1, NamedIs
<1>8. DOMAIN fn.body = 1 .. Len(fn.body) /\ Len(fn.body) \in Nat
  BY <1>1, <1>7, FunctionFacts
<1>9. \A n \in 1 .. Len(fn.body) : Sound(fn.body[n], fn.slotCount, Arity(p), D)
  BY <1>1, <1>7, SoundIs
<1>10. QED
  BY <1>3, <1>5, <1>6, <1>8, <1>9

\* A version, with whatever constants, could stand in the place of the function.
LEMMA VersionStands ==
    ASSUME NEW p, IsProgram(p), NEW k \in DOMAIN p.functions, NEW stores \in BOOLEAN,
           Words \subseteq Constants,
           NEW f \in Versions(Context(p, p.functions[k], Constants, stores), p.functions[k])
    PROVE  /\ IsFunction(f, Arity(p))
           /\ f.name = p.functions[k].name /\ f.params = p.functions[k].params
<1>1. Constants \subseteq Constants
  OBVIOUS
<1>2. QED
  BY <1>1, VersionIsFunction

\* The function of p at k, with that code, could stand in its place.
Stands(p, k, code) ==
    LET f == [p.functions[k] EXCEPT !.body = code]
    IN  /\ IsFunction(f, Arity(p)) /\ f.name = p.functions[k].name
        /\ f.params = p.functions[k].params /\ f.slotCount = p.functions[k].slotCount
        /\ f.body = code

LEMMA BodyStands ==
    ASSUME NEW p, NEW k, NEW D, Comparable(p, k, D),
           NEW code \in Seq(Code(Allowed(p, k), p.functions[k].slotCount))
    PROVE  Stands(p, k, code)
<1> DEFINE fn == p.functions[k]
           f == [fn EXCEPT !.body = code]
           c == Allowed(p, k)
           stores == StoresGlobal(fn)
<1>1. fn.slotCount \in Nat /\ fn \in Versions(c, fn)
  BY AllowedIs
<1>2. IsProgram(p) /\ k \in DOMAIN p.functions
  BY DEF Comparable
<1>3. f \in Versions(c, fn)
  <2>1. fn.slotCount =< fn.slotCount /\ code \in Seq(Code(c, fn.slotCount))
    BY <1>1
  <2> DEFINE m == fn.slotCount
  <2>2. fn \in Versions(c, fn) /\ m \in Nat /\ m =< m /\ fn.slotCount = m /\ code \in Seq(Code(c, m))
    BY <1>1, <2>1
  <2> HIDE DEF fn, c, m
  <2>3. QED
    BY <2>2, NewVersion
<1>4. /\ IsFunction(f, Arity(p)) /\ f.name = fn.name /\ f.params = fn.params
  <2>1. stores \in BOOLEAN /\ Words \subseteq Constants
    BY DEF StoresGlobal, Constants
  <2>2. c = Context(p, fn, Constants, stores)
    BY DEF Allowed
  <2> HIDE DEF f, c
  <2>3. f \in Versions(Context(p, p.functions[k], Constants, stores), p.functions[k])
    BY <1>3, <2>2
  <2> HIDE DEF stores, fn
  <2>4. IsFunction(f, Arity(p)) /\ f.name = p.functions[k].name /\ f.params = p.functions[k].params
    BY <1>2, <2>1, <2>3, VersionStands
  <2>5. QED
    BY <2>4 DEF fn
<1>5. f.body = code /\ f.slotCount = fn.slotCount
  <2>1. fn = [name |-> fn.name, params |-> fn.params, slotCount |-> fn.slotCount,
              named |-> fn.named, body |-> fn.body]
    BY <1>2 DEF IsProgram, IsFunction
  <2> HIDE DEF fn
  <2>2. QED
    BY <2>1
<1>6. QED
  BY <1>4, <1>5 DEF Stands

\* A pass that leaves as many instructions, each of which does what the one at its place
\* did, keeps what the program returns.
LEMMA BodyKeeps ==
    ASSUME NEW p, NEW k, NEW D, Comparable(p, k, D),
           NEW code \in Seq(Code(Allowed(p, k), p.functions[k].slotCount)),
           Len(code) = Len(p.functions[k].body),
           \A n \in 1 .. Len(code) : code[n].op = "LoadGlobal" => code[n].name \in D,
           NEW F, Covers(F, p.functions[k], D),
           \A n \in 1 .. Len(code) : Mimics(p.functions[k].body[n], code[n], F[n], D),
           NEW g \in Memories(D)
    PROVE  Outcome(p, g) # Undef => Outcome(WithBody(p, k, code), g) = Outcome(p, g)
<1> DEFINE fn == p.functions[k]
           f == [fn EXCEPT !.body = code]
<1>1. /\ fn.slotCount \in Nat /\ Len(fn.body) \in Nat /\ DOMAIN fn.body = 1 .. Len(fn.body)
      /\ \A n \in 1 .. Len(fn.body) : Sound(fn.body[n], fn.slotCount, Arity(p), D)
  BY AllowedIs
<1>2. IsProgram(p) /\ AllLoadsIn(p, D) /\ k \in DOMAIN p.functions
      /\ Len(FunctionNamed(p, "main").params) = 0
  BY DEF Comparable
<1>3. /\ IsFunction(f, Arity(p)) /\ f.name = fn.name /\ f.params = fn.params
      /\ f.body = code /\ f.slotCount = fn.slotCount
  BY BodyStands DEF Stands
<1>4. DOMAIN code = 1 .. Len(fn.body) /\ Len(code) = Len(fn.body)
  OBVIOUS
<1>5. \A n \in 1 .. Len(fn.body) : Sound(code[n], fn.slotCount, Arity(p), D)
  <2> HIDE DEF f
  <2>1. QED
    BY <1>3, <1>4 DEF Sound, IsFunction
<1>6. InPlace(fn, f, F, Arity(p), D)
  <2> HIDE DEF f
  <2>1. QED
    BY <1>1, <1>3, <1>4, <1>5 DEF InPlace
<1>7. KeepsOutcome(p, WithFunction(p, k, f), g)
  <2> HIDE DEF f
  <2>1. QED
    BY <1>2, <1>3, <1>6, InPlaceKeeps
<1>8. QED
  BY <1>7 DEF WithBody, WithFunction, KeepsOutcome

-----------------------------------------------------------------------------
(* What a pass finds out along the stretches between labels and jumps. *)

\* With slots in X[n] a run leaves the instruction at n, when it came to it with slots in
\* X[n - 1]; nothing is said behind a label or a jump.
Carries(X, body, E, D) ==
    /\ X[0] = E /\ \A n \in 0 .. Len(body) : X[n] \subseteq E
    /\ \A n \in 1 .. Len(body) :
         LET i == body[n]
         IN  /\ IsControlBoundary(i) => X[n] = E
             /\ ~IsControlBoundary(i) => \A a \in X[n - 1] :
                  /\ DefinesSlot(i) => \A G \in Memories(D) : [a EXCEPT ![i.dest] = Effect(i, a, G)] \in X[n]
                  /\ i.op = "Call" => \A v \in Values : [a EXCEPT ![i.dest] = v] \in X[n]
                  /\ ~DefinesSlot(i) /\ i.op # "Call" => a \in X[n]

\* the slots a run may come to an instruction with; to a label from anywhere
Before(X, body, E) ==
    [n \in 1 .. Len(body) + 1 |-> IF n =< Len(body) /\ body[n].op = "Label" THEN E ELSE X[n - 1]]

LEMMA BeforeCovers ==
    ASSUME NEW fn, NEW D, Len(fn.body) \in Nat, DOMAIN fn.body = 1 .. Len(fn.body),
           NEW X, Carries(X, fn.body, Envs(fn.slotCount), D)
    PROVE  Covers(Before(X, fn.body, Envs(fn.slotCount)), fn, D)
<1> DEFINE body == fn.body
           E == Envs(fn.slotCount)
           F == Before(X, body, E)
<1>1. /\ DOMAIN F = 1 .. Len(body) + 1
      /\ \A n \in 1 .. Len(body) + 1 :
            F[n] = IF n =< Len(body) /\ body[n].op = "Label" THEN E ELSE X[n - 1]
  BY DEF Before
<1> HIDE DEF F
<1>2. X[0] = E /\ \A n \in 0 .. Len(body) : X[n] \subseteq E
  BY DEF Carries
<1>3. \A n \in 1 .. Len(body) + 1 : F[n] \subseteq E
  <2>1. \A n \in 1 .. Len(body) + 1 : n - 1 \in 0 .. Len(body)
    OBVIOUS
  <2> HIDE DEF E
  <2>2. QED
    BY <1>1, <1>2, <2>1
<1>4. F[1] = E
  <2>1. 1 \in 1 .. Len(body) + 1 /\ 1 - 1 = 0
    OBVIOUS
  <2> HIDE DEF E
  <2>2. QED
    BY <1>1, <1>2, <2>1
<1>5. ASSUME NEW n \in 1 .. Len(body) PROVE LeadsInto(body, n, F, D)
  <2> DEFINE i == body[n]
  <2>1. /\ n + 1 \in 1 .. Len(body) + 1 /\ (n + 1) - 1 = n /\ n \in 1 .. Len(body) + 1
        /\ n \in 0 .. Len(body) /\ n =< Len(body)
    OBVIOUS
  <2>2. X[n] \subseteq F[n + 1]
    <3>1. X[n] \subseteq E
      BY <1>2, <2>1
    <3> HIDE DEF E
    <3>2. QED
      BY <1>1, <2>1, <3>1
  <2>3. F[n] \subseteq E /\ (~IsControlBoundary(i) => F[n] = X[n - 1])
    <3>1. i.op = "Label" => IsControlBoundary(i)
      BY DEF IsControlBoundary
    <3> HIDE DEF E
    <3>2. QED
      BY <1>1, <1>3, <2>1, <3>1
  <2>4. IsControlBoundary(i) => X[n] = E
    BY DEF Carries
  <2>5. ASSUME NEW a \in F[n], NEW l \in Onward(body, n) PROVE a \in F[l]
    <3>1. CASE IsControlBoundary(i)
      <4>1. a \in E /\ a \in F[n + 1]
        BY <2>2, <2>3, <2>4, <3>1
      <4>2. \A l2 : \A j \in Lands(body, n, l2) \cup Targets(body, l2) :
               j = n + 1 \/ (j \in 1 .. Len(body) /\ body[j].op = "Label")
        BY LandsIn, TargetsIn
      <4>3. l = n + 1 \/ (l \in 1 .. Len(body) /\ body[l].op = "Label")
        BY <2>5, <4>2 DEF Onward
      <4>4. ASSUME l \in 1 .. Len(body), body[l].op = "Label" PROVE a \in F[l]
        <5>1. l \in 1 .. Len(body) + 1 /\ l =< Len(body)
          BY <4>4
        <5>2. QED
          BY <1>1, <4>1, <4>4, <5>1
      <4>5. QED
        BY <4>1, <4>3, <4>4
    <3>2. CASE ~IsControlBoundary(i)
      <4>1. l = n + 1 /\ i.op = "StoreGlobal"
        BY <2>5, <3>2 DEF Onward, IsControlBoundary
      <4>2. a \in X[n - 1] /\ ~DefinesSlot(i) /\ i.op # "Call"
        BY <2>3, <3>2, <4>1 DEF DefinesSlot
      <4>3. a \in X[n]
        BY <3>2, <4>2 DEF Carries
      <4>4. QED
        BY <2>2, <4>1, <4>3
    <3>3. QED
      BY <3>1, <3>2
  <2>6. ASSUME NEW a \in F[n], DefinesSlot(i) \/ i.op = "Call"
        PROVE  ~IsControlBoundary(i) /\ a \in X[n - 1]
    BY <2>3, <2>6 DEF DefinesSlot, IsControlBoundary
  <2>7. ASSUME NEW a \in F[n], DefinesSlot(i), NEW G \in Memories(D)
        PROVE  [a EXCEPT ![i.dest] = Effect(i, a, G)] \in F[n + 1]
    <3>1. [a EXCEPT ![i.dest] = Effect(i, a, G)] \in X[n]
      BY <2>6, <2>7 DEF Carries
    <3>2. QED
      BY <2>2, <3>1
  <2>8. ASSUME NEW a \in F[n], i.op = "Call", NEW v \in Values
        PROVE  [a EXCEPT ![i.dest] = v] \in F[n + 1]
    <3>1. [a EXCEPT ![i.dest] = v] \in X[n]
      BY <2>6, <2>8 DEF Carries
    <3>2. QED
      BY <2>2, <3>1
  <2> HIDE DEF E
  <2>9. QED
    BY <2>5, <2>7, <2>8 DEF LeadsInto
<1> HIDE DEF E
<1>6. Covers(F, fn, D)
  BY <1>1, <1>3, <1>4, <1>5 DEF Covers, E
<1>7. QED
  BY <1>6 DEF F, E

-----------------------------------------------------------------------------
(* Constant folding. *)

\* the slots that hold what is known behind the instruction at n
Holding(K, body, E) == [n \in 0 .. Len(body) |-> {a \in E : Holds(K[n], a)}]

LEMMA HoldingCarries ==
    ASSUME NEW m \in Nat, NEW arity, NEW D, NEW body, Len(body) \in Nat,
           \A n \in 1 .. Len(body) : Sound(body[n], m, arity, D), NEW K, Knows(K, body)
    PROVE  Carries(Holding(K, body, Envs(m)), body, Envs(m), D)
<1> DEFINE E == Envs(m)
           X == Holding(K, body, E)
<1>1. \A n \in 0 .. Len(body) : X[n] = {a \in E : Holds(K[n], a)}
  BY DEF Holding
<1> HIDE DEF X
<1>2. 0 \in 0 .. Len(body) /\ \A n \in 1 .. Len(body) : n \in 0 .. Len(body) /\ n - 1 \in 0 .. Len(body)
  OBVIOUS
<1>3. ASSUME NEW n \in 0 .. Len(body), K[n] = Nothing PROVE X[n] = E
  <2>1. \A a : Holds(Nothing, a)
    BY DEF Holds, Nothing
  <2> HIDE DEF E
  <2>2. QED
    BY <1>1, <1>3, <2>1
<1>4. X[0] = E /\ \A n \in 0 .. Len(body) : X[n] \subseteq E
  BY <1>1, <1>2, <1>3 DEF Knows
<1>5. ASSUME NEW n \in 1 .. Len(body), ~IsControlBoundary(body[n]), NEW a \in X[n - 1]
      PROVE  LET i == body[n]
             IN  /\ DefinesSlot(i) => \A G \in Memories(D) : [a EXCEPT ![i.dest] = Effect(i, a, G)] \in X[n]
                 /\ i.op = "Call" => \A v \in Values : [a EXCEPT ![i.dest] = v] \in X[n]
                 /\ ~DefinesSlot(i) /\ i.op # "Call" => a \in X[n]
  <2> DEFINE i == body[n]
  <2>1. K[n] = Learn(K[n - 1], i) /\ Sound(i, m, arity, D) /\ a \in E /\ Holds(K[n - 1], a)
    BY <1>1, <1>2, <1>5 DEF Knows
  <2>2. \A b \in E : Holds(Learn(K[n - 1], i), b) => b \in X[n]
    BY <1>1, <1>2, <2>1
  <2>3. /\ DefinesSlot(i) => \A G \in Memories(D) :
              Holds(Learn(K[n - 1], i), [a EXCEPT ![i.dest] = Effect(i, a, G)])
        /\ i.op = "Call" => \A v : Holds(Learn(K[n - 1], i), [a EXCEPT ![i.dest] = v])
        /\ ~DefinesSlot(i) => Holds(Learn(K[n - 1], i), a)
    <3> HIDE DEF i
    <3>1. QED
      BY <2>1, LearnHolds
  <2>4. \A v \in Values : [a EXCEPT ![i.dest] = v] \in E
    BY <2>1, EnvIs
  <2>5. DefinesSlot(i) => \A G \in Memories(D) : Effect(i, a, G) \in Values
    BY <2>1, EffectIs
  <2> HIDE DEF i, E
  <2>6. QED
    BY <2>1, <2>2, <2>3, <2>4, <2>5 DEF i
<1>6. \A n \in 1 .. Len(body) : IsControlBoundary(body[n]) => X[n] = E
  BY <1>2, <1>3 DEF Knows
<1> HIDE DEF E
<1>7. Carries(X, body, E, D)
  BY <1>4, <1>5, <1>6 DEF Carries
<1>8. QED
  BY <1>7 DEF X, E

\* constFoldPass: every result is computed from operands that hold what is known of them,
\* so unless the compiler has stopped the program returns what it returned.
THEOREM ConstFoldKeeps ==
    ASSUME NEW p, NEW k, NEW D, Comparable(p, k, D), NEW g \in Memories(D),
           LET folded == WithBody(p, k, ConstFold(p.functions[k].body))
           IN  ~Stopped(folded.functions[k])
    PROVE  LET folded == WithBody(p, k, ConstFold(p.functions[k].body))
           IN  Outcome(p, g) # Undef => Outcome(folded, g) = Outcome(p, g)
<1> DEFINE fn == p.functions[k]
           c == Allowed(p, k)
           m == fn.slotCount
           body == fn.body
           code == ConstFold(body)
<1>1. /\ IsContext(c) /\ c.values = Constants /\ m \in Nat /\ Len(body) \in Nat
      /\ DOMAIN body = 1 .. Len(body) /\ body \in Seq(Code(c, m))
      /\ \A n \in 1 .. Len(body) : Sound(body[n], m, Arity(p), D)
  BY AllowedIs
<1> HIDE DEF c, m, body
<1>2. PICK K \in [0 .. Len(body) -> Known(m)] :
         /\ Knows(K, body)
         /\ Len(code) = Len(body) /\ DOMAIN code = 1 .. Len(body)
         /\ \A n \in 1 .. Len(body) : code[n] = Simplify(body[n], K[n - 1])
  BY <1>1, ConstFoldIs
<1>3. code \in Seq(Code(c, m))
  BY <1>1, ConstFoldStays
<1> HIDE DEF code
<1> DEFINE E == Envs(m)
           X == Holding(K, body, E)
           F == Before(X, body, E)
<1>4. Covers(F, fn, D)
  <2>1. Carries(X, body, E, D)
    BY <1>1, <1>2, HoldingCarries
  <2> HIDE DEF X
  <2>2. QED
    BY <1>1, <2>1, BeforeCovers DEF body, m
<1>5. ASSUME NEW n \in 1 .. Len(body) PROVE ~(code[n].op = "Const" /\ code[n].value = Undef)
  <2>1. k \in DOMAIN p.functions /\ IsProgram(p)
    BY DEF Comparable
  <2>2. WithBody(p, k, code).functions[k].body = code
    <3>1. p = [functions |-> p.functions] /\ IsFunction(fn, Arity(p))
      BY <2>1 DEF IsProgram
    <3>2. WithBody(p, k, code).functions[k] = [fn EXCEPT !.body = code]
      BY <2>1, <3>1 DEF WithBody
    <3>3. fn = [name |-> fn.name, params |-> fn.params, slotCount |-> fn.slotCount,
                named |-> fn.named, body |-> fn.body]
      BY <3>1 DEF IsFunction
    <3> HIDE DEF fn
    <3>4. QED
      BY <3>2, <3>3
  <2>3. ~Stopped(WithBody(p, k, code).functions[k])
    BY DEF code, body
  <2>4. n \in DOMAIN code
    BY <1>2
  <2>5. QED
    BY <2>2, <2>3, <2>4 DEF Stopped
<1>6. ASSUME NEW n \in 1 .. Len(body) PROVE Mimics(body[n], code[n], F[n], D)
  <2> DEFINE i == body[n]
             A == F[n]
  <2>1. i.op # "Label" => A = {a \in E : Holds(K[n - 1], a)}
    <3>1. n \in 1 .. Len(body) + 1 /\ n - 1 \in 0 .. Len(body)
      BY <1>1
    <3>2. X[n - 1] = {a \in E : Holds(K[n - 1], a)}
      BY <3>1 DEF Holding
    <3>3. i.op # "Label" => A = X[n - 1]
      BY <3>1 DEF Before
    <3> HIDE DEF X, A, i, E
    <3>4. QED
      BY <3>2, <3>3
  <2>2. code[n] = Simplify(i, K[n - 1]) /\ Sound(i, m, Arity(p), D)
    BY <1>1, <1>2
  <2>3. ~(code[n].op = "Const" /\ code[n].value = Undef)
    BY <1>5
  <2> HIDE DEF i, A, E, X
  <2>4. CASE i.op = "Label"
    <3>1. Simplify(i, K[n - 1]) = i
      BY <2>4 DEF Simplify, Foldable
    <3>2. QED
      BY <2>2, <2>4, <3>1 DEF Mimics, DefinesSlot, A, i
  <2>5. CASE i.op # "Label"
    <3>1. A \subseteq Envs(m) /\ \A a \in A : Holds(K[n - 1], a)
      BY <2>1, <2>5 DEF E
    <3>2. Mimics(i, code[n], A, D)
      BY <1>1, <2>2, <2>3, <3>1, SimplifyMimics
    <3>3. QED
      BY <3>2 DEF A, i
  <2>6. QED
    BY <2>4, <2>5
<1>7. ASSUME NEW n \in 1 .. Len(body), code[n].op = "LoadGlobal" PROVE code[n].name \in D
  <2>1. code[n] = Simplify(body[n], K[n - 1]) /\ Sound(body[n], m, Arity(p), D)
    BY <1>1, <1>2
  <2>2. code[n] = body[n]
    BY <1>7, <2>1 DEF Simplify, Const, Move, Unary, Blank
  <2>3. QED
    BY <1>7, <2>1, <2>2 DEF Sound
<1>8. Outcome(p, g) # Undef => Outcome(WithBody(p, k, code), g) = Outcome(p, g)
  <2> HIDE DEF F, X
  <2>1. QED
    BY <1>2, <1>3, <1>4, <1>6, <1>7, BodyKeeps DEF c, m, body
<1>9. QED
  BY <1>8 DEF code, body

-----------------------------------------------------------------------------
(* Copy propagation. *)

\* A slot with an alias holds what that holds.
Agrees(alias, a) == \A s \in DOMAIN alias : a[s] = a[alias[s]]

\* j is i but for the slots it reads, and those hold the same
Alike(i, j, A) ==
    LET O == {"Move", "Unary", "Binary", "StoreGlobal", "Branch", "Return"}
    IN  /\ j.op = i.op /\ j.dest = i.dest /\ j.oper = i.oper /\ j.value = i.value
        /\ j.label = i.label /\ j.falseLabel = i.falseLabel /\ j.name = i.name /\ j.args = i.args
        /\ i.op \notin O => j = i
        /\ i.op \in O => \A a \in A : a[j.lhs] = a[i.lhs] /\ a[j.rhs] = a[i.rhs]

LEMMA AlikeMimics ==
    ASSUME NEW i, NEW j, NEW A, NEW D, Alike(i, j, A)
    PROVE  Mimics(i, j, A, D)
<1> DEFINE O == {"Move", "Unary", "Binary", "StoreGlobal", "Branch", "Return"}
<1>1. /\ j.op = i.op /\ j.dest = i.dest /\ j.oper = i.oper /\ j.value = i.value
      /\ j.label = i.label /\ j.falseLabel = i.falseLabel /\ j.name = i.name /\ j.args = i.args
      /\ i.op \notin O => j = i
  BY DEF Alike
<1>2. \A a \in A : i.op \in O => a[j.lhs] = a[i.lhs] /\ a[j.rhs] = a[i.rhs]
  BY DEF Alike
<1>3. ASSUME DefinesSlot(i), NEW a \in A, NEW G PROVE Effect(j, a, G) = Effect(i, a, G)
  <2>1. CASE i.op \notin O
    BY <1>1, <2>1
  <2>2. CASE i.op = "Move"
    <3>1. Effect(i, a, G) = a[i.lhs] /\ Effect(j, a, G) = a[j.lhs]
      BY <1>1, <2>2 DEF Effect
    <3>2. QED
      BY <1>2, <2>2, <3>1
  <2>3. CASE i.op = "Unary"
    <3>1. \A h : h.op = "Unary" => Effect(h, a, G) =
             IF a[h.lhs] = Undef THEN Undef ELSE UnaryValue(h.oper, a[h.lhs])
      BY DEF Effect
    <3>2. QED
      BY <1>1, <1>2, <2>3, <3>1
  <2>4. CASE i.op = "Binary"
    <3>1. \A h : h.op = "Binary" => Effect(h, a, G) =
             IF Undef \in {a[h.lhs], a[h.rhs]} \/ (h.oper \in {"div", "mod"} /\ a[h.rhs] = 0)
             THEN Undef ELSE BinaryValue(h.oper, a[h.lhs], a[h.rhs])
      BY DEF Effect
    <3>2. a[j.lhs] = a[i.lhs] /\ a[j.rhs] = a[i.rhs]
      BY <1>2, <2>4
    <3>3. QED
      BY <1>1, <2>4, <3>1, <3>2
  <2>5. QED
    BY <1>3, <2>1, <2>2, <2>3, <2>4 DEF DefinesSlot
<1>4. DefinesSlot(j) <=> DefinesSlot(i)
  BY <1>1 DEF DefinesSlot
<1>5. QED
  BY <1>1, <1>2, <1>3, <1>4 DEF Mimics, Below

LEMMA RenamedIs ==
    ASSUME NEW c, NEW n \in Nat, NEW i \in Code(c, n), NEW alias
    PROVE  /\ Renamed(i, alias).op = i.op /\ Renamed(i, alias).dest = i.dest
           /\ Renamed(i, alias).oper = i.oper /\ Renamed(i, alias).value = i.value
           /\ Renamed(i, alias).label = i.label /\ Renamed(i, alias).falseLabel = i.falseLabel
           /\ Renamed(i, alias).name = i.name /\ Renamed(i, alias).args = i.args
           /\ i.op \notin {"Move", "Unary", "Binary", "StoreGlobal", "Branch", "Return"}
                => Renamed(i, alias) = i
           /\ i.op \in {"Move", "Unary", "Binary", "StoreGlobal", "Branch", "Return"}
                => /\ Renamed(i, alias).lhs = IF i.lhs \in DOMAIN alias THEN alias[i.lhs] ELSE i.lhs
                   /\ Renamed(i, alias).rhs = IF i.rhs \in DOMAIN alias THEN alias[i.rhs] ELSE i.rhs
<1> DEFINE To(s) == IF s \in DOMAIN alias THEN alias[s] ELSE s
           l == To(i.lhs)
           r == To(i.rhs)
<1>1. Renamed(i, alias) = IF i.op \in {"Move", "Unary", "Binary", "StoreGlobal", "Branch", "Return"}
                          THEN [i EXCEPT !.lhs = l, !.rhs = r] ELSE i
  BY DEF Renamed, Substitute
<1>2. i = [op |-> i.op, dest |-> i.dest, lhs |-> i.lhs, rhs |-> i.rhs, value |-> i.value,
           oper |-> i.oper, label |-> i.label, falseLabel |-> i.falseLabel, name |-> i.name,
           args |-> i.args]
  BY DEF Code, Instructions
<1> HIDE DEF To, l, r
<1>3. QED
  BY <1>1, <1>2 DEF To, l, r

\* Reading through aliases that agree is reading the same.
LEMMA RenamedMimics ==
    ASSUME NEW c, NEW n \in Nat, NEW i \in Code(c, n), NEW alias, NEW D,
           NEW A, \A a \in A : Agrees(alias, a)
    PROVE  Mimics(i, Renamed(i, alias), A, D)
<1> DEFINE j == Renamed(i, alias)
           O == {"Move", "Unary", "Binary", "StoreGlobal", "Branch", "Return"}
<1>1. /\ j.op = i.op /\ j.dest = i.dest /\ j.oper = i.oper /\ j.value = i.value
      /\ j.label = i.label /\ j.falseLabel = i.falseLabel /\ j.name = i.name /\ j.args = i.args
      /\ i.op \notin O => j = i
      /\ i.op \in O => /\ j.lhs = IF i.lhs \in DOMAIN alias THEN alias[i.lhs] ELSE i.lhs
                       /\ j.rhs = IF i.rhs \in DOMAIN alias THEN alias[i.rhs] ELSE i.rhs
  BY RenamedIs
<1> HIDE DEF j
<1>2. \A a \in A : i.op \in O => a[j.lhs] = a[i.lhs] /\ a[j.rhs] = a[i.rhs]
  BY <1>1 DEF Agrees
<1>3. Alike(i, j, A)
  BY <1>1, <1>2 DEF Alike
<1>4. QED
  BY <1>3, AlikeMimics DEF j

\* The aliases behind an instruction agree again.
LEMMA AfterMoveAgrees ==
    ASSUME NEW i, NEW alias, NEW a, Agrees(alias, a)
    PROVE  /\ i.op # "Move" => /\ Agrees(AfterMove(alias, i), a)
                               /\ \A v : Agrees(AfterMove(alias, i), [a EXCEPT ![i.dest] = v])
           /\ i.op = "Move" /\ i.dest \in DOMAIN a
                => Agrees(AfterMove(alias, i), [a EXCEPT ![i.dest] = a[i.lhs]])
<1> DEFINE less == Unalias(alias, i.dest)
<1>1. /\ DOMAIN less = {t \in DOMAIN alias : t # i.dest /\ alias[t] # i.dest}
      /\ \A s \in DOMAIN less : less[s] = alias[s]
  BY DEF Unalias
<1> HIDE DEF less
<1>2. Agrees(less, a) /\ \A v : Agrees(less, [a EXCEPT ![i.dest] = v])
  BY <1>1 DEF Agrees
<1>3. CASE i.op = "Move" /\ i.dest # i.lhs
  <2> DEFINE more == Bind(less, i.dest, i.lhs)
             b == [a EXCEPT ![i.dest] = a[i.lhs]]
  <2>1. /\ DOMAIN more = DOMAIN less \cup {i.dest} /\ more[i.dest] = i.lhs
        /\ \A s \in DOMAIN less : s # i.dest => more[s] = less[s]
    BY DEF Bind
  <2>2. i.dest \in DOMAIN a => b[i.dest] = a[i.lhs] /\ b[i.lhs] = a[i.lhs]
    BY <1>3
  <2>3. AfterMove(alias, i) = more
    BY <1>3 DEF AfterMove, less
  <2>4. Agrees(less, b)
    BY <1>2
  <2> HIDE DEF more, b
  <2>5. i.dest \in DOMAIN a => Agrees(more, b)
    BY <2>1, <2>2, <2>4 DEF Agrees
  <2>6. QED
    BY <1>3, <2>3, <2>5 DEF b
<1>4. CASE ~(i.op = "Move" /\ i.dest # i.lhs)
  <2>1. AfterMove(alias, i) = less
    BY <1>4 DEF AfterMove, less
  <2>2. QED
    BY <1>2, <2>1
<1>5. QED
  BY <1>3, <1>4

\* the aliases before each instruction of body, L[n - 1] before the one at n
Tells(L, body) ==
    /\ L[0] = Nothing
    /\ \A n \in 1 .. Len(body) :
          LET i == Renamed(body[n], L[n - 1])
          IN  L[n] = IF IsControlBoundary(i) THEN Nothing ELSE AfterMove(L[n - 1], i)

\* Every instruction reads through the aliases before it.
LEMMA CopyPropIs ==
    ASSUME NEW c, NEW m \in Nat, NEW body \in Seq(Code(c, m))
    PROVE  \E L \in [0 .. Len(body) -> Aliases(m)] :
              /\ Tells(L, body)
              /\ Len(CopyProp(body)) = Len(body) /\ DOMAIN CopyProp(body) = 1 .. Len(body)
              /\ \A n \in 1 .. Len(body) : CopyProp(body)[n] = Renamed(body[n], L[n - 1])
<1> DEFINE One(alias, i) ==
              Substitute(i, LAMBDA s : IF s \in DOMAIN alias THEN alias[s] ELSE s)
           n == Len(body)
           base == [alias |-> Nothing, code |-> <<>>]
           op(acc, k) ==
              LET i == One(acc.alias, body[k])
              IN  [alias |-> IF IsControlBoundary(i) THEN Nothing ELSE AfterMove(acc.alias, i),
                   code  |-> Append(acc.code, i)]
           Is(f) == f = [k \in 0 .. n |-> IF k = 0 THEN base
                                        ELSE CHOOSE v \in {op(u, k) : u \in {f[k - 1]}} : TRUE]
           run == CHOOSE f : Is(f)
           C == [alias : Aliases(m), code : Seq(Code(c, m))]
<1>1. n \in Nat /\ base \in C
  BY MapsAre DEF Aliases
<1>2. \A u \in C, k \in 1 .. n : op(u, k) \in C
  <2>1. TAKE u \in C, k \in 1 .. n
  <2>2. body[k] \in Code(c, m) /\ u.alias \in Aliases(m) /\ u.code \in Seq(Code(c, m))
    OBVIOUS
  <2>3. Nothing \in Aliases(m)
    BY MapsAre DEF Aliases
  <2>4. One(u.alias, body[k]) \in Code(c, m)
    BY <2>2, RenamedStays DEF Renamed
  <2>5. AfterMove(u.alias, One(u.alias, body[k])) \in Aliases(m)
    BY <2>2, <2>4, AfterMoveStays
  <2> HIDE DEF One
  <2>6. QED
    BY <2>2, <2>3, <2>4, <2>5
<1>3. CopyProp(body) = run[n].code
  BY DEF CopyProp, Walk
<1> HIDE DEF op, C, n, base
<1> DEFINE H == [z \in C \X (1 .. n) |-> op(z[1], z[2])]
<1>4. H \in [C \X (1 .. n) -> C] /\ \A u \in C, k \in 1 .. n : H[<<u, k>>] = op(u, k)
  BY <1>2
<1> HIDE DEF H
<1>5. PICK f \in [0 .. n -> C] : Walks(f, n, base, H)
  BY <1>1, <1>4, WalkExists
<1>6. Is(f)
  <2>1. ASSUME NEW k \in 1 .. n PROVE k - 1 \in 0 .. n /\ k # 0 /\ f[k] = op(f[k - 1], k)
    <3>1. k - 1 \in 0 .. n /\ k # 0
      BY <1>1
    <3>2. f[k - 1] \in C
      BY <3>1
    <3>3. QED
      BY <1>4, <1>5, <3>1, <3>2 DEF Walks
  <2>2. \A k \in 0 .. n : k # 0 => k \in 1 .. n
    BY <1>1
  <2>3. f[0] = base
    BY <1>5 DEF Walks
  <2>4. QED
    BY <2>1, <2>2, <2>3
<1>7. Is(run)
  BY <1>6
<1> HIDE DEF run
<1>8. run[0] = base /\ \A k \in 1 .. n : run[k] = op(run[k - 1], k)
  <2>1. 0 \in 0 .. n /\ \A k \in 1 .. n : k \in 0 .. n /\ k # 0
    BY <1>1
  <2>2. run[0] = base
    BY <1>7, <2>1
  <2>3. ASSUME NEW k \in 1 .. n PROVE run[k] = op(run[k - 1], k)
    <3>1. run[k] = CHOOSE v \in {op(u, k) : u \in {run[k - 1]}} : TRUE
      BY <1>7, <2>1
    <3>2. QED
      BY <3>1
  <2>4. QED
    BY <2>2, <2>3
<1>9. \A k \in 0 .. n : run[k] \in C
  <2>1. \A k \in 1 .. n : run[k - 1] \in C => run[k] \in C
    BY <1>2, <1>8
  <2>2. run[0] \in C
    BY <1>1, <1>8
  <2>3. QED
    BY <1>1, <2>1, <2>2, WalkStays
<1> DEFINE L == [k \in 0 .. n |-> run[k].alias]
           code == [k \in 0 .. n |-> run[k].code]
           x == [k \in 1 .. n |-> Renamed(body[k], L[k - 1])]
<1>10. \A k \in 1 .. n : k - 1 \in 0 .. n /\ k \in 0 .. n
  BY <1>1
<1>11. ASSUME NEW k \in 0 .. n PROVE run[k].alias \in Aliases(m) /\ run[k].code \in Seq(Code(c, m))
  BY <1>9 DEF C
<1>12. run[0].alias = Nothing /\ run[0].code = <<>>
  BY <1>8 DEF base
<1>13. ASSUME NEW k \in 1 .. n
       PROVE  LET i == Renamed(body[k], run[k - 1].alias)
              IN  /\ run[k].alias = IF IsControlBoundary(i) THEN Nothing ELSE AfterMove(run[k - 1].alias, i)
                  /\ run[k].code = Append(run[k - 1].code, i)
  <2>1. run[k] = op(run[k - 1], k)
    BY <1>8
  <2>2. One(run[k - 1].alias, body[k]) = Renamed(body[k], run[k - 1].alias)
    BY DEF Renamed
  <2> HIDE DEF One
  <2>3. QED
    BY <2>1, <2>2 DEF op
<1> HIDE DEF run
<1>14. L \in [0 .. n -> Aliases(m)]
  BY <1>11
<1>15. /\ \A k \in 0 .. n : code[k] \in Seq(Code(c, m))
       /\ code[0] = <<>> /\ \A k \in 1 .. n : code[k] = Append(code[k - 1], x[k])
  <2>1. 0 \in 0 .. n
    BY <1>1
  <2>2. QED
    BY <1>10, <1>11, <1>12, <1>13, <2>1
<1>16. Tells(L, body)
  <2>1. 0 \in 0 .. n
    BY <1>1
  <2>2. L[0] = Nothing
    BY <1>12, <2>1
  <2>3. \A k \in 1 .. n : LET i == Renamed(body[k], L[k - 1])
                          IN  L[k] = IF IsControlBoundary(i) THEN Nothing ELSE AfterMove(L[k - 1], i)
    BY <1>10, <1>13
  <2> HIDE DEF L
  <2>4. QED
    BY <2>2, <2>3 DEF Tells, n
<1>17. code[n] = CopyProp(body)
  <2>1. n \in 0 .. n
    BY <1>1
  <2>2. QED
    BY <1>3, <2>1
<1>18. \A k \in 1 .. n : x[k] = Renamed(body[k], L[k - 1])
  OBVIOUS
<1> HIDE DEF code, x, L
<1>19. Len(code[n]) = n /\ DOMAIN code[n] = 1 .. n /\ \A j \in 1 .. n : code[n][j] = x[j]
  <2> DEFINE S == Code(c, m)
  <2>1. \A k \in 0 .. n : code[k] \in Seq(S)
    BY <1>15
  <2> HIDE DEF S
  <2>2. Appending(code, x, n, S)
    BY <1>15, <2>1 DEF Appending
  <2>3. QED
    BY <1>1, <2>2, Appended
<1>20. QED
  BY <1>14, <1>16, <1>17, <1>18, <1>19 DEF n

\* the slots that agree with the aliases behind the instruction at n
Agreeing(L, body, E) == [n \in 0 .. Len(body) |-> {a \in E : Agrees(L[n], a)}]

LEMMA AgreeingCarries ==
    ASSUME NEW c, NEW m \in Nat, NEW arity, NEW D, NEW body \in Seq(Code(c, m)),
           \A n \in 1 .. Len(body) : Sound(body[n], m, arity, D),
           NEW L \in [0 .. Len(body) -> Aliases(m)], Tells(L, body)
    PROVE  Carries(Agreeing(L, body, Envs(m)), body, Envs(m), D)
<1> DEFINE E == Envs(m)
           X == Agreeing(L, body, E)
<1>1. \A n \in 0 .. Len(body) : X[n] = {a \in E : Agrees(L[n], a)}
  BY DEF Agreeing
<1> HIDE DEF X
<1>2. 0 \in 0 .. Len(body) /\ \A n \in 1 .. Len(body) : n \in 0 .. Len(body) /\ n - 1 \in 0 .. Len(body)
  OBVIOUS
<1>3. ASSUME NEW n \in 0 .. Len(body), L[n] = Nothing PROVE X[n] = E
  <2>1. \A a : Agrees(Nothing, a)
    BY DEF Agrees, Nothing
  <2> HIDE DEF E
  <2>2. QED
    BY <1>1, <1>3, <2>1
<1>4. X[0] = E /\ \A n \in 0 .. Len(body) : X[n] \subseteq E
  BY <1>1, <1>2, <1>3 DEF Tells
<1>5. ASSUME NEW n \in 1 .. Len(body)
      PROVE  LET i == body[n]
                 j == Renamed(i, L[n - 1])
             IN  /\ j.op = i.op /\ j.dest = i.dest /\ (IsControlBoundary(j) <=> IsControlBoundary(i))
                 /\ L[n] = IF IsControlBoundary(i) THEN Nothing ELSE AfterMove(L[n - 1], j)
  <2> DEFINE i == body[n]
             j == Renamed(i, L[n - 1])
  <2>1. i \in Code(c, m)
    OBVIOUS
  <2>2. j.op = i.op /\ j.dest = i.dest
    <3> HIDE DEF i
    <3>1. QED
      BY <2>1, RenamedIs
  <2>3. IsControlBoundary(j) <=> IsControlBoundary(i)
    BY <2>2 DEF IsControlBoundary
  <2>4. L[n] = IF IsControlBoundary(j) THEN Nothing ELSE AfterMove(L[n - 1], j)
    BY DEF Tells
  <2> HIDE DEF i, j
  <2>5. QED
    BY <2>2, <2>3, <2>4 DEF i, j
<1>6. ASSUME NEW n \in 1 .. Len(body), ~IsControlBoundary(body[n]), NEW a \in X[n - 1]
      PROVE  LET i == body[n]
             IN  /\ DefinesSlot(i) => \A G \in Memories(D) : [a EXCEPT ![i.dest] = Effect(i, a, G)] \in X[n]
                 /\ i.op = "Call" => \A v \in Values : [a EXCEPT ![i.dest] = v] \in X[n]
                 /\ ~DefinesSlot(i) /\ i.op # "Call" => a \in X[n]
  <2> DEFINE i == body[n]
             j == Renamed(i, L[n - 1])
             M == L[n]
  <2>1. /\ i \in Code(c, m) /\ Sound(i, m, arity, D) /\ a \in E /\ Agrees(L[n - 1], a)
        /\ j.op = i.op /\ j.dest = i.dest /\ M = AfterMove(L[n - 1], j)
    BY <1>1, <1>2, <1>5, <1>6
  <2>2. \A b \in E : Agrees(M, b) => b \in X[n]
    BY <1>1, <1>2
  <2>3. \A v \in Values : [a EXCEPT ![i.dest] = v] \in E
    BY <2>1, EnvIs
  <2>4. DefinesSlot(i) => /\ i.dest \in DOMAIN a
                          /\ \A G \in Memories(D) : Effect(i, a, G) \in Values
    BY <2>1, EffectIs, ReadsSlots, EnvIs
  <2>5. i.op = "Move" => \A G \in Memories(D) : Effect(i, a, G) = a[j.lhs]
    <3>1. i.op = "Move" => a[j.lhs] = a[i.lhs]
      <4>1. i.op = "Move" => j.lhs = IF i.lhs \in DOMAIN L[n - 1] THEN L[n - 1][i.lhs] ELSE i.lhs
        <5> HIDE DEF i
        <5>1. QED
          BY <2>1, RenamedIs DEF j
      <4>2. QED
        BY <2>1, <4>1 DEF Agrees
    <3>2. QED
      BY <3>1 DEF Effect
  <2>6. /\ j.op # "Move" => Agrees(M, a) /\ \A v : Agrees(M, [a EXCEPT ![j.dest] = v])
        /\ j.op = "Move" /\ j.dest \in DOMAIN a => Agrees(M, [a EXCEPT ![j.dest] = a[j.lhs]])
    <3> HIDE DEF j, M
    <3>1. QED
      BY <2>1, AfterMoveAgrees
  <2>7. i.op = "Move" => DefinesSlot(i) /\ i.op # "Call"
    BY DEF DefinesSlot
  <2>8. ASSUME DefinesSlot(i), NEW G \in Memories(D)
        PROVE  [a EXCEPT ![i.dest] = Effect(i, a, G)] \in X[n]
    <3> DEFINE b == [a EXCEPT ![i.dest] = Effect(i, a, G)]
    <3>1. b \in E
      BY <2>3, <2>4, <2>8
    <3>2. Agrees(M, b)
      BY <2>1, <2>4, <2>5, <2>6, <2>8
    <3> HIDE DEF b, i, j, M
    <3>3. QED
      BY <2>2, <3>1, <3>2 DEF b
  <2> HIDE DEF i, j, M, E
  <2>9. QED
    BY <2>1, <2>2, <2>3, <2>6, <2>7, <2>8 DEF i
<1>7. \A n \in 1 .. Len(body) : IsControlBoundary(body[n]) => X[n] = E
  BY <1>2, <1>3, <1>5
<1> HIDE DEF E
<1>8. Carries(X, body, E, D)
  BY <1>4, <1>6, <1>7 DEF Carries
<1>9. QED
  BY <1>8 DEF X, E

\* copyPropPass: every slot read instead of another holds the same, so the program
\* returns what it returned.
THEOREM CopyPropKeeps ==
    ASSUME NEW p, NEW k, NEW D, Comparable(p, k, D), NEW g \in Memories(D)
    PROVE  LET renamed == WithBody(p, k, CopyProp(p.functions[k].body))
           IN  Outcome(p, g) # Undef => Outcome(renamed, g) = Outcome(p, g)
<1> DEFINE fn == p.functions[k]
           c == Allowed(p, k)
           m == fn.slotCount
           body == fn.body
           code == CopyProp(body)
<1>1. /\ m \in Nat /\ Len(body) \in Nat /\ DOMAIN body = 1 .. Len(body)
      /\ body \in Seq(Code(c, m))
      /\ \A n \in 1 .. Len(body) : Sound(body[n], m, Arity(p), D)
  BY AllowedIs
<1> HIDE DEF c, m, body
<1>2. PICK L \in [0 .. Len(body) -> Aliases(m)] :
         /\ Tells(L, body)
         /\ Len(code) = Len(body) /\ DOMAIN code = 1 .. Len(body)
         /\ \A n \in 1 .. Len(body) : code[n] = Renamed(body[n], L[n - 1])
  BY <1>1, CopyPropIs
<1>3. code \in Seq(Code(c, m))
  BY <1>1, CopyPropStays
<1> HIDE DEF code
<1> DEFINE E == Envs(m)
           X == Agreeing(L, body, E)
           F == Before(X, body, E)
<1>4. Covers(F, fn, D)
  <2>1. Carries(X, body, E, D)
    BY <1>1, <1>2, AgreeingCarries
  <2> HIDE DEF X
  <2>2. QED
    BY <1>1, <2>1, BeforeCovers DEF body, m
<1>5. ASSUME NEW n \in 1 .. Len(body) PROVE Mimics(body[n], code[n], F[n], D)
  <2> DEFINE i == body[n]
             A == F[n]
             alias == L[n - 1]
  <2>1. i.op # "Label" => A = {a \in E : Agrees(alias, a)}
    <3>1. n \in 1 .. Len(body) + 1 /\ n - 1 \in 0 .. Len(body)
      BY <1>1
    <3>2. X[n - 1] = {a \in E : Agrees(alias, a)}
      BY <3>1 DEF Agreeing
    <3>3. i.op # "Label" => A = X[n - 1]
      BY <3>1 DEF Before
    <3> HIDE DEF X, A, i, E, alias
    <3>4. QED
      BY <3>2, <3>3
  <2>2. code[n] = Renamed(i, alias) /\ i \in Code(c, m)
    BY <1>1, <1>2
  <2> HIDE DEF i, A, E, X, alias
  <2>3. CASE i.op = "Label"
    <3>1. Renamed(i, alias) = i
      BY <2>2, <2>3, RenamedIs
    <3>2. QED
      BY <2>2, <2>3, <3>1 DEF Mimics, DefinesSlot, A, i
  <2>4. CASE i.op # "Label"
    <3>1. \A a \in A : Agrees(alias, a)
      BY <2>1, <2>4
    <3>2. Mimics(i, Renamed(i, alias), A, D)
      BY <1>1, <2>2, <3>1, RenamedMimics
    <3>3. QED
      BY <2>2, <3>2 DEF A, i
  <2>5. QED
    BY <2>3, <2>4
<1>6. ASSUME NEW n \in 1 .. Len(body), code[n].op = "LoadGlobal" PROVE code[n].name \in D
  <2> DEFINE i == body[n]
  <2>1. code[n] = Renamed(i, L[n - 1]) /\ i \in Code(c, m) /\ Sound(i, m, Arity(p), D)
    BY <1>1, <1>2
  <2> HIDE DEF i
  <2>2. code[n].op = i.op /\ code[n].name = i.name
    BY <1>1, <2>1, RenamedIs
  <2>3. QED
    BY <1>6, <2>1, <2>2 DEF Sound
<1>7. Outcome(p, g) # Undef => Outcome(WithBody(p, k, code), g) = Outcome(p, g)
  <2> HIDE DEF F, X
  <2>1. QED
    BY <1>2, <1>3, <1>4, <1>5, <1>6, BodyKeeps DEF c, m, body
<1>8. QED
  BY <1>7 DEF code, body


-----------------------------------------------------------------------------
(* Where a run gets with which slots. *)

\* a function whose instructions are in order, and those an analysis may meet in it
Analysed(fn, c, arity, D) ==
    /\ fn.slotCount \in Nat /\ Len(fn.body) \in Nat /\ DOMAIN fn.body = 1 .. Len(fn.body)
    /\ fn.body \in Seq(Code(c, fn.slotCount))
    /\ \A n \in 1 .. Len(fn.body) : Sound(fn.body[n], fn.slotCount, arity, D)

\* the slots that no cover can leave out
Arriving(fn, D) ==
    [n \in 1 .. Len(fn.body) + 1 |->
        {a \in Envs(fn.slotCount) : \A F : Covers(F, fn, D) => a \in F[n]}]

\* what i leaves of the slots in A
Behind(i, A, D) ==
    CASE DefinesSlot(i) -> {[a EXCEPT ![i.dest] = Effect(i, a, G)] : a \in A, G \in Memories(D)}
      [] i.op = "Call" -> {[a EXCEPT ![i.dest] = v] : a \in A, v \in Values}
      [] OTHER -> A

LEMMA BehindIs ==
    ASSUME NEW i, NEW A, NEW D
    PROVE  /\ DefinesSlot(i) =>
                 Behind(i, A, D) = {[a EXCEPT ![i.dest] = Effect(i, a, G)] : a \in A, G \in Memories(D)}
           /\ i.op = "Call" => Behind(i, A, D) = {[a EXCEPT ![i.dest] = v] : a \in A, v \in Values}
           /\ ~DefinesSlot(i) /\ i.op # "Call" => Behind(i, A, D) = A
BY DEF Behind, DefinesSlot

\* control comes from j to n
Comes(body, j, n) ==
    n \in Onward(body, j) \/ (n = j + 1 /\ (DefinesSlot(body[j]) \/ body[j].op = "Call"))

LEMMA OnwardIs ==
    ASSUME NEW body, Len(body) \in Nat, DOMAIN body = 1 .. Len(body), NEW n \in 1 .. Len(body),
           NEW k \in Onward(body, n)
    PROVE  /\ k \in 1 .. Len(body) + 1
           /\ \/ k = n + 1 /\ body[n].op \in {"Branch", "Label", "StoreGlobal"}
              \/ k \in 1 .. Len(body) /\ body[k].op = "Label" /\ body[n].op \in {"Goto", "Branch"}
           /\ k \in 1 .. Len(body) => k \in NextPositions(body, n)
<1> DEFINE i == body[n]
<1>1. /\ \A l : \A j \in Targets(body, l) : j \in 1 .. Len(body) /\ body[j].op = "Label"
      /\ \A l : \A j \in Lands(body, n, l) :
            j = n + 1 \/ (j \in 1 .. Len(body) /\ body[j].op = "Label")
  BY TargetsIn, LandsIn
<1>2. CASE i.op = "Goto"
  <2>1. k \in Targets(body, i.label)
    BY <1>2 DEF Onward
  <2>2. k \in 1 .. Len(body) => k \in NextPositions(body, n)
    BY <1>2, <2>1 DEF NextPositions, Targets
  <2>3. k \in 1 .. Len(body) /\ body[k].op = "Label"
    BY <1>1, <2>1
  <2>4. QED
    BY <1>2, <2>2, <2>3
<1>3. CASE i.op = "Branch"
  <2>1. k \in Lands(body, n, i.label) \cup Lands(body, n, i.falseLabel)
    BY <1>3 DEF Onward
  <2>2. k \in 1 .. Len(body) => k \in NextPositions(body, n)
    BY <1>3, <2>1 DEF NextPositions, Lands, Targets
  <2>3. k = n + 1 \/ (k \in 1 .. Len(body) /\ body[k].op = "Label")
    BY <1>1, <2>1
  <2>4. QED
    BY <1>3, <2>2, <2>3
<1>4. CASE i.op \in {"Label", "StoreGlobal"}
  <2>1. k = n + 1
    BY <1>4 DEF Onward
  <2>2. k \in 1 .. Len(body) => k \in NextPositions(body, n)
    BY <1>4, <2>1 DEF NextPositions
  <2>3. QED
    BY <1>4, <2>1, <2>2
<1>5. i.op \in {"Goto", "Branch", "Label", "StoreGlobal"}
  BY DEF Onward
<1>6. QED
  BY <1>2, <1>3, <1>4, <1>5

LEMMA ArrivingIs ==
    ASSUME NEW fn, NEW c, NEW arity, NEW D, Analysed(fn, c, arity, D), NEW n \in 1 .. Len(fn.body) + 1, NEW a
    PROVE  a \in Arriving(fn, D)[n] <=>
              a \in Envs(fn.slotCount) /\ \A F : Covers(F, fn, D) => a \in F[n]
BY DEF Arriving

\* the instruction at n leads on from all of them
LEMMA ArrivingLeads ==
    ASSUME NEW fn, NEW c, NEW arity, NEW D, Analysed(fn, c, arity, D), NEW n \in 1 .. Len(fn.body)
    PROVE  LeadsInto(fn.body, n, Arriving(fn, D), D)
<1> DEFINE body == fn.body
           i == body[n]
           R == Arriving(fn, D)
           E == Envs(fn.slotCount)
<1>1. /\ Len(body) \in Nat /\ DOMAIN body = 1 .. Len(body) /\ fn.slotCount \in Nat
      /\ Sound(i, fn.slotCount, arity, D)
  BY DEF Analysed
<1>2. \A k \in 1 .. Len(body) + 1 : \A a : a \in R[k] <=> a \in E /\ \A F : Covers(F, fn, D) => a \in F[k]
  BY ArrivingIs
<1> HIDE DEF R, E
<1>3. n \in 1 .. Len(body) + 1 /\ n + 1 \in 1 .. Len(body) + 1
  BY <1>1
<1>4. \A F : Covers(F, fn, D) => LeadsInto(body, n, F, D)
  BY <1>1 DEF Covers
<1>5. ASSUME NEW a \in R[n] PROVE a \in E /\ \A F : Covers(F, fn, D) => a \in F[n]
  BY <1>2, <1>3
<1>6. ASSUME NEW a \in R[n], NEW k \in Onward(body, n) PROVE a \in R[k]
  <2>1. k \in 1 .. Len(body) + 1
    BY <1>1, OnwardIs
  <2>2. \A F : Covers(F, fn, D) => a \in F[k]
    BY <1>4, <1>5 DEF LeadsInto
  <2>3. QED
    BY <1>2, <1>5, <2>1, <2>2
<1>7. ASSUME NEW a \in R[n], DefinesSlot(i), NEW G \in Memories(D)
      PROVE  [a EXCEPT ![i.dest] = Effect(i, a, G)] \in R[n + 1]
  <2> DEFINE b == [a EXCEPT ![i.dest] = Effect(i, a, G)]
  <2>1. b \in E
    <3>1. a \in E
      BY <1>5
    <3>2. Effect(i, a, G) \in Values
      BY <1>1, <1>7, <3>1, EffectIs DEF E
    <3>3. QED
      BY <1>1, <3>1, <3>2, EnvIs DEF E
  <2>2. \A F : Covers(F, fn, D) => b \in F[n + 1]
    BY <1>4, <1>5, <1>7 DEF LeadsInto
  <2>3. QED
    BY <1>2, <1>3, <2>1, <2>2
<1>8. ASSUME NEW a \in R[n], i.op = "Call", NEW v \in Values
      PROVE  [a EXCEPT ![i.dest] = v] \in R[n + 1]
  <2> DEFINE b == [a EXCEPT ![i.dest] = v]
  <2>1. b \in E
    BY <1>1, <1>5, EnvIs DEF E
  <2>2. \A F : Covers(F, fn, D) => b \in F[n + 1]
    BY <1>4, <1>5, <1>8 DEF LeadsInto
  <2>3. QED
    BY <1>2, <1>3, <2>1, <2>2
<1>9. LeadsInto(body, n, R, D)
  BY <1>6, <1>7, <1>8 DEF LeadsInto
<1>10. QED
  BY <1>9 DEF R

\* The least cover is one.
LEMMA ArrivingCovers ==
    ASSUME NEW fn, NEW c, NEW arity, NEW D, Analysed(fn, c, arity, D)
    PROVE  Covers(Arriving(fn, D), fn, D)
<1> DEFINE R == Arriving(fn, D)
<1>1. DOMAIN R = 1 .. Len(fn.body) + 1 /\ 1 \in 1 .. Len(fn.body) + 1
  BY DEF Arriving, Analysed
<1>2. \A n \in 1 .. Len(fn.body) + 1 : R[n] \subseteq Envs(fn.slotCount)
  BY ArrivingIs
<1>3. \A n \in 1 .. Len(fn.body) : LeadsInto(fn.body, n, R, D)
  BY ArrivingLeads
<1>4. R[1] = Envs(fn.slotCount)
  <2>1. \A F : Covers(F, fn, D) => F[1] = Envs(fn.slotCount)
    BY DEF Covers
  <2>2. \A a : a \in R[1] <=> a \in Envs(fn.slotCount)
    BY <1>1, <2>1, ArrivingIs
  <2> HIDE DEF R
  <2>3. QED
    BY <2>2
<1> HIDE DEF R
<1>5. Covers(R, fn, D)
  BY <1>1, <1>2, <1>3, <1>4 DEF Covers
<1>6. QED
  BY <1>5 DEF R

\* Nothing is reached that does not come from somewhere.
LEMMA ArrivingBy ==
    ASSUME NEW fn, NEW c, NEW arity, NEW D, Analysed(fn, c, arity, D),
           NEW n \in 1 .. Len(fn.body) + 1, n # 1, NEW P,
           \A j \in 1 .. Len(fn.body) :
              Comes(fn.body, j, n) => Behind(fn.body[j], Arriving(fn, D)[j], D) \subseteq P
    PROVE  Arriving(fn, D)[n] \subseteq P
<1> DEFINE body == fn.body
           R == Arriving(fn, D)
           E == Envs(fn.slotCount)
           F == [k \in 1 .. Len(body) + 1 |-> IF k = n THEN R[n] \cap P ELSE R[k]]
<1>1. /\ DOMAIN R = 1 .. Len(body) + 1 /\ R[1] = E
      /\ \A k \in 1 .. Len(body) + 1 : R[k] \subseteq E
      /\ \A k \in 1 .. Len(body) : LeadsInto(body, k, R, D)
  BY ArrivingCovers DEF Covers
<1>2. Len(body) \in Nat /\ DOMAIN body = 1 .. Len(body)
  BY DEF Analysed
<1> HIDE DEF R
<1>3. /\ DOMAIN F = 1 .. Len(body) + 1 /\ F[n] = R[n] \cap P
      /\ \A k \in 1 .. Len(body) + 1 : F[k] \subseteq R[k] /\ (k # n => F[k] = R[k])
  OBVIOUS
<1> HIDE DEF F, E
<1>4. F[1] = E /\ \A k \in 1 .. Len(body) + 1 : F[k] \subseteq E
  BY <1>1, <1>2, <1>3
<1>5. ASSUME NEW j \in 1 .. Len(body) PROVE LeadsInto(body, j, F, D)
  <2> DEFINE i == body[j]
  <2>1. j \in 1 .. Len(body) + 1 /\ j + 1 \in 1 .. Len(body) + 1
    BY <1>2
  <2>2. LeadsInto(body, j, R, D) /\ F[j] \subseteq R[j]
    BY <1>1, <1>3, <2>1
  <2>3. Comes(body, j, n) => Behind(i, R[j], D) \subseteq P
    BY DEF R
  <2>4. ASSUME NEW a \in F[j], NEW k \in Onward(body, j) PROVE a \in F[k]
    <3>1. a \in R[k]
      BY <2>2, <2>4 DEF LeadsInto
    <3>2. k \in 1 .. Len(body) + 1
      BY <1>2, <2>4, OnwardIs
    <3>3. i.op \in {"Branch", "Label", "StoreGlobal", "Goto"}
      BY <1>2, <2>4, OnwardIs
    <3>4. Behind(i, R[j], D) = R[j]
      BY <3>3 DEF Behind, DefinesSlot
    <3>5. k = n => a \in P
      BY <2>2, <2>3, <2>4, <3>4 DEF Comes
    <3>6. QED
      BY <1>3, <3>1, <3>2, <3>5
  <2>5. ASSUME NEW a \in F[j], DefinesSlot(i), NEW G \in Memories(D)
        PROVE  [a EXCEPT ![i.dest] = Effect(i, a, G)] \in F[j + 1]
    <3> DEFINE b == [a EXCEPT ![i.dest] = Effect(i, a, G)]
    <3>1. b \in R[j + 1]
      BY <2>2, <2>5 DEF LeadsInto
    <3>2. b \in Behind(i, R[j], D)
      <4>1. a \in R[j]
        BY <2>2, <2>5
      <4> HIDE DEF i
      <4>2. Behind(i, R[j], D) = {[x EXCEPT ![i.dest] = Effect(i, x, M)] : x \in R[j], M \in Memories(D)}
        BY <2>5, BehindIs
      <4>3. QED
        BY <2>5, <4>1, <4>2
    <3>3. j + 1 = n => b \in P
      BY <2>3, <2>5, <3>2 DEF Comes
    <3> HIDE DEF b
    <3>4. b \in F[j + 1]
      BY <1>3, <2>1, <3>1, <3>3
    <3>5. QED
      BY <3>4 DEF b
  <2>6. ASSUME NEW a \in F[j], i.op = "Call", NEW v \in Values
        PROVE  [a EXCEPT ![i.dest] = v] \in F[j + 1]
    <3> DEFINE b == [a EXCEPT ![i.dest] = v]
    <3>1. b \in R[j + 1]
      BY <2>2, <2>6 DEF LeadsInto
    <3>2. b \in Behind(i, R[j], D)
      BY <2>2, <2>6 DEF Behind, DefinesSlot
    <3>3. j + 1 = n => b \in P
      BY <2>3, <2>6, <3>2 DEF Comes
    <3> HIDE DEF b
    <3>4. b \in F[j + 1]
      BY <1>3, <2>1, <3>1, <3>3
    <3>5. QED
      BY <3>4 DEF b
  <2>7. QED
    BY <2>4, <2>5, <2>6 DEF LeadsInto
<1>6. Covers(F, fn, D)
  BY <1>3, <1>4, <1>5 DEF Covers, E
<1>7. ASSUME NEW a \in R[n] PROVE a \in P
  <2>1. a \in F[n]
    BY <1>6, <1>7, ArrivingIs DEF R
  <2>2. QED
    BY <1>3, <2>1
<1>8. QED
  BY <1>7 DEF R

\* Before every number is a last one of L, and up to it none.
LEMMA LastBefore ==
    ASSUME NEW l \in Nat, NEW j \in 1 .. l, NEW L, 1 \in L, j = l \/ j + 1 \in L
    PROVE  \E p \in 1 .. j :
              /\ p \in L /\ \A m \in p + 1 .. j : m \notin L
              /\ \A n \in p .. l : (\A m \in p + 1 .. n : m \notin L) /\ (n = l \/ n + 1 \in L) => n = j
<1> DEFINE T == {k \in 0 .. j - 1 : j - k \in L}
<1>1. T \subseteq Nat /\ j - 1 \in T
  OBVIOUS
<1>2. PICK k \in T : \A h \in T : k =< h
  <2>1. T # {}
    BY <1>1
  <2> HIDE DEF T
  <2>2. QED
    BY <1>1, <2>1, LeastExists
<1>3. k \in 0 .. j - 1 /\ j - k \in L
  BY <1>2
<1> DEFINE p == j - k
<1>4. p \in L /\ p \in 1 .. j
  BY <1>3
<1>5. ASSUME NEW m \in p + 1 .. j, m \in L PROVE FALSE
  <2>1. j - m \in 0 .. j - 1 /\ j - (j - m) = m /\ j - m < k
    BY <1>3
  <2>2. j - m \in T
    BY <1>5, <2>1
  <2> HIDE DEF T
  <2>3. QED
    BY <1>2, <1>3, <2>1, <2>2
<1> HIDE DEF p, T
<1>6. ASSUME NEW n \in p .. l, \A m \in p + 1 .. n : m \notin L, n = l \/ n + 1 \in L
      PROVE  n = j
  <2>1. CASE n < j
    <3>1. n # l /\ n + 1 \in p + 1 .. j
      BY <1>4, <2>1
    <3>2. QED
      BY <1>5, <1>6, <3>1
  <2>2. CASE n > j
    <3>1. j # l /\ j + 1 \in p + 1 .. n
      BY <1>4, <2>2
    <3>2. QED
      BY <1>6, <3>1
  <2>3. QED
    BY <1>4, <1>6, <2>1, <2>2
<1>7. QED
  BY <1>4, <1>5, <1>6

\* What has no more of its block behind it is the end of one.
LEMMA BlockEndsAt ==
    ASSUME NEW S, NEW body \in Seq(S), NEW j \in 1 .. Len(body),
           j = Len(body) \/ j + 1 \in Leaders(body)
    PROVE  \E p \in Leaders(body) : BlockEnd(body, p) = j
<1> DEFINE L == Leaders(body)
           l == Len(body)
<1>1. l \in Nat /\ 1 \in L /\ j \in 1 .. l
  BY DEF Leaders
<1>2. \A b : BlockEnd(body, b) =
               CHOOSE n \in b .. l : (\A m \in b + 1 .. n : m \notin L) /\ (n = l \/ n + 1 \in L)
  BY DEF BlockEnd
<1>3. j = l \/ j + 1 \in L
  OBVIOUS
<1> HIDE DEF L, l
<1>4. PICK p \in 1 .. j :
         /\ p \in L /\ \A m \in p + 1 .. j : m \notin L
         /\ \A n \in p .. l : (\A m \in p + 1 .. n : m \notin L) /\ (n = l \/ n + 1 \in L) => n = j
  <2>1. l \in Nat /\ j \in 1 .. l /\ 1 \in L
    BY <1>1
  <2>2. QED
    BY <1>3, <2>1, LastBefore, ZenonT(40)
<1>5. j \in p .. l
  BY <1>1
<1>6. BlockEnd(body, p) = j
  BY <1>2, <1>3, <1>4, <1>5
<1>7. QED
  BY <1>4, <1>6 DEF L

\* Control comes to an instruction from the one before, or else to a label by a jump.
LEMMA ComesIs ==
    ASSUME NEW body, Len(body) \in Nat, DOMAIN body = 1 .. Len(body),
           NEW n \in 1 .. Len(body), NEW j \in 1 .. Len(body), Comes(body, j, n)
    PROVE  /\ n \in NextPositions(body, j)
           /\ n = j + 1 \/ (n \in Leaders(body) /\ body[j].op \in {"Goto", "Branch"})
<1>1. CASE n \in Onward(body, j)
  <2>1. n = j + 1 \/ (body[n].op = "Label" /\ body[j].op \in {"Goto", "Branch"})
    BY <1>1, OnwardIs
  <2>2. n \in NextPositions(body, j)
    BY <1>1, OnwardIs
  <2>3. body[n].op = "Label" => n \in Leaders(body)
    BY DEF Leaders
  <2>4. QED
    BY <2>1, <2>2, <2>3
<1>2. CASE n = j + 1 /\ (DefinesSlot(body[j]) \/ body[j].op = "Call")
  BY <1>2 DEF NextPositions, DefinesSlot
<1>3. QED
  BY <1>1, <1>2 DEF Comes

\* into the middle of a block from the instruction before,
LEMMA ArrivingAlong ==
    ASSUME NEW fn, NEW c, NEW arity, NEW D, Analysed(fn, c, arity, D),
           NEW n \in 1 .. Len(fn.body), n \notin Leaders(fn.body)
    PROVE  /\ n - 1 \in 1 .. Len(fn.body)
           /\ Arriving(fn, D)[n] \subseteq Behind(fn.body[n - 1], Arriving(fn, D)[n - 1], D)
<1> DEFINE body == fn.body
           R == Arriving(fn, D)
<1>1. Len(body) \in Nat /\ DOMAIN body = 1 .. Len(body)
  BY DEF Analysed
<1>2. n # 1
  BY <1>1 DEF Leaders
<1>3. n - 1 \in 1 .. Len(body) /\ n \in 1 .. Len(body) + 1
  BY <1>1, <1>2
<1>4. ASSUME NEW j \in 1 .. Len(body), Comes(body, j, n) PROVE j = n - 1
  <2>1. n = j + 1
    BY <1>1, <1>4, ComesIs
  <2>2. QED
    BY <2>1
<1> DEFINE P == Behind(body[n - 1], R[n - 1], D)
<1>5. \A j \in 1 .. Len(body) : Comes(body, j, n) => Behind(body[j], R[j], D) \subseteq P
  BY <1>4
<1> HIDE DEF P
<1>6. R[n] \subseteq P
  BY <1>2, <1>3, <1>5, ArrivingBy
<1>7. QED
  BY <1>3, <1>6 DEF P

\* and to the start of one, but the first, from the ends of its predecessors.
LEMMA ArrivingAcross ==
    ASSUME NEW fn, NEW c, NEW arity, NEW D, Analysed(fn, c, arity, D),
           NEW n \in Leaders(fn.body), n # 1, NEW P,
           \A p \in BuildCFG(fn.body).preds[n] :
              LET e == BlockEnd(fn.body, p) IN Behind(fn.body[e], Arriving(fn, D)[e], D) \subseteq P
    PROVE  Arriving(fn, D)[n] \subseteq P
<1> DEFINE body == fn.body
           R == Arriving(fn, D)
<1>1. /\ Len(body) \in Nat /\ DOMAIN body = 1 .. Len(body)
      /\ body \in Seq(Code(c, fn.slotCount))
  BY DEF Analysed
<1>2. n \in 1 .. Len(body) /\ n \in 1 .. Len(body) + 1
  BY <1>1 DEF Leaders
<1>3. ASSUME NEW j \in 1 .. Len(body), Comes(body, j, n) PROVE Behind(body[j], R[j], D) \subseteq P
  <2>1. /\ n \in NextPositions(body, j)
        /\ n = j + 1 \/ body[j].op \in {"Goto", "Branch"}
    BY <1>1, <1>2, <1>3, ComesIs
  <2>2. j = Len(body) \/ j + 1 \in Leaders(body)
    <3>1. CASE n = j + 1
      BY <3>1
    <3>2. CASE body[j].op \in {"Goto", "Branch"} /\ j # Len(body)
      <4>1. j + 1 \in DOMAIN body /\ (j + 1) - 1 = j
        BY <1>1, <3>2
      <4>2. QED
        BY <3>2, <4>1 DEF Leaders
    <3>3. QED
      BY <2>1, <3>1, <3>2
  <2>3. PICK p \in Leaders(body) : BlockEnd(body, p) = j
    <3> DEFINE S == Code(c, fn.slotCount)
    <3>1. body \in Seq(S)
      BY <1>1
    <3> HIDE DEF S, body
    <3>2. QED
      BY <2>2, <3>1, BlockEndsAt
  <2>4. p \in BuildCFG(body).preds[n]
    BY <2>1, <2>3 DEF BuildCFG, Succs
  <2>5. QED
    BY <2>3, <2>4
<1>4. QED
  BY <1>2, <1>3, ArrivingBy

-----------------------------------------------------------------------------
(* What the analyses find out holds. *)

Propagations == {"constants", "copies"}
IsTrue(analysis, f, a) == IF analysis = "constants" THEN Holds(f, a) ELSE Agrees(f, a)
TrueOn(analysis, f, A) == \A a \in A : IsTrue(analysis, f, a)

LEMMA NoFactsAreTrue ==
    ASSUME NEW analysis \in Propagations, NEW a
    PROVE  NoFacts(analysis) = Nothing /\ IsTrue(analysis, NoFacts(analysis), a)
BY DEF Propagations, NoFacts, IsTrue, Holds, Agrees, Nothing

\* What either side of a join says holds.
LEMMA MeetIsTrue ==
    ASSUME NEW analysis \in Propagations, NEW f, NEW g, NEW a,
           IsTrue(analysis, f, a) \/ IsTrue(analysis, g, a)
    PROVE  IsTrue(analysis, Meet(analysis, f, g), a)
<1> DEFINE h == Agreed(f, g)
<1>1. /\ DOMAIN h \subseteq DOMAIN f \cap DOMAIN g
      /\ \A x \in DOMAIN h : h[x] = f[x] /\ h[x] = g[x]
  BY DEF Agreed
<1>2. Meet(analysis, f, g) = h
  BY DEF Meet, Propagations
<1> HIDE DEF h
<1>3. CASE analysis = "constants"
  BY <1>1, <1>2, <1>3 DEF IsTrue, Holds
<1>4. CASE analysis # "constants"
  BY <1>1, <1>2, <1>4 DEF IsTrue, Agrees
<1>5. QED
  BY <1>3, <1>4

LEMMA BehindIn ==
    ASSUME NEW m \in Nat, NEW arity, NEW D, NEW i, Sound(i, m, arity, D), NEW A, A \subseteq Envs(m)
    PROVE  Behind(i, A, D) \subseteq Envs(m)
<1>1. CASE DefinesSlot(i)
  <2>1. \A a \in A, G \in Memories(D) : [a EXCEPT ![i.dest] = Effect(i, a, G)] \in Envs(m)
    BY <1>1, EffectIs, EnvIs
  <2>2. Behind(i, A, D) = {[a EXCEPT ![i.dest] = Effect(i, a, G)] : a \in A, G \in Memories(D)}
    BY <1>1, BehindIs
  <2>3. QED
    BY <2>1, <2>2
<1>2. CASE i.op = "Call" /\ ~DefinesSlot(i)
  <2>1. \A a \in A, v \in Values : [a EXCEPT ![i.dest] = v] \in Envs(m)
    BY EnvIs
  <2>2. Behind(i, A, D) = {[a EXCEPT ![i.dest] = v] : a \in A, v \in Values}
    BY <1>2, BehindIs
  <2>3. QED
    BY <2>1, <2>2
<1>3. CASE i.op # "Call" /\ ~DefinesSlot(i)
  BY <1>3 DEF Behind
<1>4. QED
  BY <1>1, <1>2, <1>3

LEMMA LearnIsTrue ==
    ASSUME NEW m \in Nat, NEW arity, NEW D, NEW i, Sound(i, m, arity, D),
           NEW A, A \subseteq Envs(m), NEW f, TrueOn("constants", f, A)
    PROVE  TrueOn("constants", Learn(f, i), Behind(i, A, D))
<1> DEFINE h == Learn(f, i)
<1>1. ASSUME NEW a \in A
      PROVE  /\ DefinesSlot(i) => \A G \in Memories(D) : Holds(h, [a EXCEPT ![i.dest] = Effect(i, a, G)])
             /\ i.op = "Call" => \A v : Holds(h, [a EXCEPT ![i.dest] = v])
             /\ ~DefinesSlot(i) => Holds(h, a)
  <2>1. Holds(f, a) /\ a \in Envs(m)
    BY <1>1 DEF TrueOn, IsTrue
  <2>2. QED
    BY <2>1, LearnHolds
<1> HIDE DEF h
<1>2. \A b \in Behind(i, A, D) : Holds(h, b)
  <2>1. CASE DefinesSlot(i)
    BY <1>1, <2>1 DEF Behind
  <2>2. CASE ~DefinesSlot(i) /\ i.op = "Call"
    BY <1>1, <2>2 DEF Behind
  <2>3. CASE ~DefinesSlot(i) /\ i.op # "Call"
    BY <1>1, <2>3 DEF Behind
  <2>4. QED
    BY <2>1, <2>2, <2>3
<1>3. QED
  BY <1>2 DEF TrueOn, IsTrue, h

\* Behind i, or what reads the same instead of it, the aliases agree again.
LEMMA MovedIsTrue ==
    ASSUME NEW m \in Nat, NEW arity, NEW D, NEW i, Sound(i, m, arity, D),
           NEW A, A \subseteq Envs(m), NEW f, TrueOn("copies", f, A),
           NEW j, j.op = i.op, j.dest = i.dest, i.op = "Move" => \A a \in A : a[j.lhs] = a[i.lhs]
    PROVE  TrueOn("copies", AfterMove(f, j), Behind(i, A, D))
<1> DEFINE h == AfterMove(f, j)
<1>1. ASSUME NEW a \in A
      PROVE  /\ i.op # "Move" => /\ Agrees(h, a)
                                 /\ \A v : Agrees(h, [a EXCEPT ![i.dest] = v])
             /\ i.op = "Move" => \A G : Agrees(h, [a EXCEPT ![i.dest] = Effect(i, a, G)])
  <2>1. Agrees(f, a) /\ a \in Envs(m)
    BY <1>1 DEF TrueOn, IsTrue
  <2>2. /\ j.op # "Move" => Agrees(h, a) /\ \A v : Agrees(h, [a EXCEPT ![j.dest] = v])
        /\ j.op = "Move" /\ j.dest \in DOMAIN a => Agrees(h, [a EXCEPT ![j.dest] = a[j.lhs]])
    BY <2>1, AfterMoveAgrees
  <2>3. i.op = "Move" => i.dest \in DOMAIN a
    <3>1. i.op = "Move" => i.dest \in Slots(m)
      BY ReadsSlots DEF DefinesSlot
    <3>2. QED
      BY <2>1, <3>1, EnvIs
  <2>4. i.op = "Move" => \A G : Effect(i, a, G) = a[j.lhs]
    BY <1>1 DEF Effect
  <2> HIDE DEF h
  <2>5. QED
    BY <2>2, <2>3, <2>4
<1> HIDE DEF h
<1>2. \A b \in Behind(i, A, D) : Agrees(h, b)
  <2>1. CASE DefinesSlot(i)
    <3>1. \A a \in A, G \in Memories(D) : Agrees(h, [a EXCEPT ![i.dest] = Effect(i, a, G)])
      BY <1>1
    <3>2. Behind(i, A, D) = {[a EXCEPT ![i.dest] = Effect(i, a, G)] : a \in A, G \in Memories(D)}
      BY <2>1, BehindIs
    <3>3. QED
      BY <3>1, <3>2
  <2>2. CASE ~DefinesSlot(i) /\ i.op = "Call"
    BY <1>1, <2>2 DEF Behind
  <2>3. CASE ~DefinesSlot(i) /\ i.op # "Call"
    BY <1>1, <2>3 DEF Behind, DefinesSlot
  <2>4. QED
    BY <2>1, <2>2, <2>3
<1>3. QED
  BY <1>2 DEF TrueOn, IsTrue, h

LEMMA AfterIsTrue ==
    ASSUME NEW m \in Nat, NEW arity, NEW D, NEW i, Sound(i, m, arity, D),
           NEW A, A \subseteq Envs(m), NEW analysis \in Propagations, NEW f, TrueOn(analysis, f, A)
    PROVE  TrueOn(analysis, FactsAfter(analysis, f, i), Behind(i, A, D))
<1>1. CASE analysis = "constants"
  BY <1>1, LearnIsTrue DEF FactsAfter
<1>2. CASE analysis = "copies"
  <2>1. i.op = "Move" => \A a \in A : a[i.lhs] = a[i.lhs]
    OBVIOUS
  <2>2. QED
    BY <1>2, <2>1, MovedIsTrue DEF FactsAfter
<1>3. QED
  BY <1>1, <1>2 DEF Propagations

\* What is true at the start of a block leads to what is true at its end.
LEMMA ThroughBlockTrue ==
    ASSUME NEW fn, NEW c, NEW arity, NEW D, Analysed(fn, c, arity, D), NEW analysis \in Propagations,
           NEW b \in Leaders(fn.body), NEW facts \in Facts(analysis, fn.slotCount),
           TrueOn(analysis, facts, Arriving(fn, D)[b])
    PROVE  LET e == BlockEnd(fn.body, b)
           IN  TrueOn(analysis, ThroughBlock(fn.body, BuildCFG(fn.body), analysis, facts, b),
                      Behind(fn.body[e], Arriving(fn, D)[e], D))
<1> DEFINE body == fn.body
           m == fn.slotCount
           R == Arriving(fn, D)
           e == BlockEnd(body, b)
           n == BuildCFG(body).ends[b] - b + 1
           base == facts
           op(f, k) == FactsAfter(analysis, f, body[b + k - 1])
           Is(f) == f = [k \in 0 .. n |-> IF k = 0 THEN base
                                        ELSE CHOOSE v \in {op(u, k) : u \in {f[k - 1]}} : TRUE]
           run == CHOOSE f : Is(f)
           C == Facts(analysis, m)
<1>a. /\ Len(body) \in Nat /\ DOMAIN body = 1 .. Len(body) /\ m \in Nat
      /\ body \in Seq(Code(c, m)) /\ analysis \in Analyses
      /\ \A k \in 1 .. Len(body) : Sound(body[k], m, arity, D)
  BY DEF Analysed, Propagations, Analyses
<1>b. /\ e \in b .. Len(body) /\ b \in 1 .. Len(body)
      /\ \A k \in b + 1 .. e : k \notin Leaders(body)
  <2> DEFINE S == Code(c, m)
  <2>1. body \in Seq(S) /\ b \in Leaders(body)
    BY <1>a
  <2> HIDE DEF S, body
  <2>2. QED
    BY <2>1, BlockEndIs
<1>c. n = e - b + 1
  BY DEF BuildCFG
<1> HIDE DEF n, e, m, body, R
<1>1. n \in Nat /\ base \in C
  BY <1>a, <1>b, <1>c DEF m
<1>2. \A u \in C, k \in 1 .. n : op(u, k) \in C
  <2>1. TAKE u \in C, k \in 1 .. n
  <2> DEFINE p == b + k - 1
  <2>2. p \in 1 .. Len(body)
    BY <1>a, <1>b, <1>c
  <2>3. body[p] \in Code(c, m)
    BY <1>a, <2>2
  <2> HIDE DEF p
  <2>4. FactsAfter(analysis, u, body[p]) \in Facts(analysis, m)
    BY <1>a, <2>3, FactsAfterStays
  <2>5. QED
    BY <2>4 DEF p
<1>3. ThroughBlock(body, BuildCFG(body), analysis, facts, b) = run[n]
  BY DEF ThroughBlock, Walk, n
<1> HIDE DEF op, C, n, base
<1> DEFINE H == [z \in C \X (1 .. n) |-> op(z[1], z[2])]
<1>4. H \in [C \X (1 .. n) -> C] /\ \A u \in C, k \in 1 .. n : H[<<u, k>>] = op(u, k)
  BY <1>2
<1> HIDE DEF H
<1>5. PICK f \in [0 .. n -> C] : Walks(f, n, base, H)
  BY <1>1, <1>4, WalkExists
<1>6. Is(f)
  <2>1. ASSUME NEW k \in 1 .. n PROVE k - 1 \in 0 .. n /\ k # 0 /\ f[k] = op(f[k - 1], k)
    <3>1. k - 1 \in 0 .. n /\ k # 0
      BY <1>1
    <3>2. f[k - 1] \in C
      BY <3>1
    <3>3. QED
      BY <1>4, <1>5, <3>1, <3>2 DEF Walks
  <2>2. \A k \in 0 .. n : k # 0 => k \in 1 .. n
    BY <1>1
  <2>3. f[0] = base
    BY <1>5 DEF Walks
  <2>4. QED
    BY <2>1, <2>2, <2>3
<1>7. Is(run)
  BY <1>6
<1> HIDE DEF run
<1>8. run[0] = base /\ \A k \in 1 .. n : run[k] = op(run[k - 1], k)
  <2>1. 0 \in 0 .. n /\ \A k \in 1 .. n : k \in 0 .. n /\ k # 0
    BY <1>1
  <2>2. run[0] = base
    BY <1>7, <2>1
  <2>3. ASSUME NEW k \in 1 .. n PROVE run[k] = op(run[k - 1], k)
    <3>1. run[k] = CHOOSE v \in {op(u, k) : u \in {run[k - 1]}} : TRUE
      BY <1>7, <2>1
    <3>2. QED
      BY <3>1
  <2>4. QED
    BY <2>2, <2>3
<1>9. \A k \in 0 .. n : run[k] \in C
  <2>1. \A k \in 1 .. n : run[k - 1] \in C => run[k] \in C
    BY <1>2, <1>8
  <2>2. run[0] \in C
    BY <1>1, <1>8
  <2>3. QED
    BY <1>1, <2>1, <2>2, WalkStays
<1>10. \A k \in 1 .. n : run[k] = FactsAfter(analysis, run[k - 1], body[b + k - 1])
  BY <1>8 DEF op
<1>11. run[0] = facts
  BY <1>8 DEF base
<1> HIDE DEF run
<1>12. \A k \in 1 .. Len(body) + 1 : R[k] \subseteq Envs(m)
  <2>1. ASSUME NEW k \in 1 .. Len(body) + 1, NEW a \in R[k] PROVE a \in Envs(m)
    BY <2>1, ArrivingIs DEF R, m, body
  <2>2. QED
    BY <2>1
<1>13. ASSUME NEW k \in 1 .. n, TrueOn(analysis, run[k - 1], R[b + k - 1])
       PROVE  TrueOn(analysis, run[k], Behind(body[b + k - 1], R[b + k - 1], D))
  <2> DEFINE p == b + k - 1
  <2>1. p \in 1 .. Len(body) /\ p \in 1 .. Len(body) + 1
    BY <1>a, <1>b, <1>c
  <2>2. run[k] = FactsAfter(analysis, run[k - 1], body[p]) /\ TrueOn(analysis, run[k - 1], R[p])
    BY <1>10, <1>13
  <2> HIDE DEF p
  <2>3. R[p] \subseteq Envs(m) /\ Sound(body[p], m, arity, D)
    BY <1>a, <1>12, <2>1
  <2>4. TrueOn(analysis, run[k], Behind(body[p], R[p], D))
    BY <1>a, <2>2, <2>3, AfterIsTrue
  <2>5. QED
    BY <2>4 DEF p
<1> DEFINE T == {k \in Nat : k =< n - 1 => TrueOn(analysis, run[k], R[b + k])}
<1>14. 0 \in T
  <2>1. TrueOn(analysis, run[0], R[b])
    BY <1>11 DEF R
  <2>2. b + 0 = b
    BY <1>a, <1>b
  <2>3. QED
    BY <2>1, <2>2
<1>15. ASSUME NEW k \in Nat, k \in T PROVE k + 1 \in T
  <2>1. SUFFICES ASSUME k + 1 =< n - 1 PROVE TrueOn(analysis, run[k + 1], R[b + (k + 1)])
    OBVIOUS
  <2> DEFINE q == b + (k + 1)
             l == k + 1
  <2>2. /\ l \in 1 .. n /\ l - 1 = k /\ b + l - 1 = b + k /\ k =< n - 1
        /\ q \in b + 1 .. e /\ q \in 1 .. Len(body) /\ q - 1 = b + k /\ q - 1 = b + l - 1
    BY <1>a, <1>b, <1>c, <1>1, <2>1
  <2>3. TrueOn(analysis, run[l - 1], R[b + l - 1])
    BY <1>15, <2>2
  <2>4. TrueOn(analysis, run[l], Behind(body[q - 1], R[q - 1], D))
    BY <1>13, <2>2, <2>3
  <2>5. R[q] \subseteq Behind(body[q - 1], R[q - 1], D)
    <3>1. q \notin Leaders(body) /\ q \in 1 .. Len(body)
      BY <1>b, <2>2
    <3> HIDE DEF q
    <3>2. QED
      BY <3>1, ArrivingAlong DEF R, body
  <2> HIDE DEF q, l
  <2>6. TrueOn(analysis, run[l], R[q])
    BY <2>4, <2>5 DEF TrueOn
  <2>7. QED
    BY <2>6 DEF q, l
<1>16. n - 1 \in T
  <2>1. n - 1 \in Nat
    BY <1>a, <1>b, <1>c
  <2> HIDE DEF T
  <2>2. QED
    BY <1>14, <1>15, <2>1, Induction
<1>17. TrueOn(analysis, run[n], Behind(body[e], R[e], D))
  <2>1. n \in 1 .. n /\ b + (n - 1) = e /\ b + n - 1 = e /\ n - 1 =< n - 1
    BY <1>a, <1>b, <1>c
  <2>2. TrueOn(analysis, run[n - 1], R[b + n - 1])
    BY <1>16, <2>1
  <2>3. QED
    BY <1>13, <2>1, <2>2
<1>18. QED
  BY <1>3, <1>17 DEF body, R, e

\* What one of the predecessors says at its end survives where they meet.
LEMMA MeetAllTrue ==
    ASSUME NEW S, NEW body \in Seq(S), NEW m \in Nat, NEW analysis \in Propagations,
           NEW P, P \subseteq Leaders(body),
           NEW out \in [Leaders(body) -> Facts(analysis, m)],
           NEW a, NEW q \in P, IsTrue(analysis, out[q], a)
    PROVE  IsTrue(analysis, MeetAll(body, analysis, P, out), a)
<1> DEFINE first == CHOOSE p \in P : \A x \in P : p =< x
           n == Len(body)
           base == out[first]
           op(f, k) == IF k \in P THEN Meet(analysis, f, out[k]) ELSE f
           Is(f) == f = [k \in 0 .. n |-> IF k = 0 THEN base
                                        ELSE CHOOSE v \in {op(u, k) : u \in {f[k - 1]}} : TRUE]
           run == CHOOSE f : Is(f)
           C == Facts(analysis, m)
<1>a. analysis \in Analyses
  BY DEF Propagations, Analyses
<1>1. n \in Nat /\ base \in C
  <2>1. P \subseteq Nat
    BY DEF Leaders
  <2>2. \E p \in P : \A x \in P : p =< x
    BY <2>1, LeastExists
  <2>3. first \in P
    BY <2>2
  <2>4. QED
    BY <2>3
<1>2. \A u \in C, k \in 1 .. n : op(u, k) \in C
  BY <1>a, MeetStays
<1>3. MeetAll(body, analysis, P, out) = run[n]
  BY DEF MeetAll, Walk
<1> HIDE DEF op, C, n, base
<1> DEFINE H == [z \in C \X (1 .. n) |-> op(z[1], z[2])]
<1>4. H \in [C \X (1 .. n) -> C] /\ \A u \in C, k \in 1 .. n : H[<<u, k>>] = op(u, k)
  BY <1>2
<1> HIDE DEF H
<1>5. PICK f \in [0 .. n -> C] : Walks(f, n, base, H)
  BY <1>1, <1>4, WalkExists
<1>6. Is(f)
  <2>1. ASSUME NEW k \in 1 .. n PROVE k - 1 \in 0 .. n /\ k # 0 /\ f[k] = op(f[k - 1], k)
    <3>1. k - 1 \in 0 .. n /\ k # 0
      BY <1>1
    <3>2. f[k - 1] \in C
      BY <3>1
    <3>3. QED
      BY <1>4, <1>5, <3>1, <3>2 DEF Walks
  <2>2. \A k \in 0 .. n : k # 0 => k \in 1 .. n
    BY <1>1
  <2>3. f[0] = base
    BY <1>5 DEF Walks
  <2>4. QED
    BY <2>1, <2>2, <2>3
<1>7. Is(run)
  BY <1>6
<1> HIDE DEF run
<1>8. run[0] = base /\ \A k \in 1 .. n : run[k] = op(run[k - 1], k)
  <2>1. 0 \in 0 .. n /\ \A k \in 1 .. n : k \in 0 .. n /\ k # 0
    BY <1>1
  <2>2. run[0] = base
    BY <1>7, <2>1
  <2>3. ASSUME NEW k \in 1 .. n PROVE run[k] = op(run[k - 1], k)
    <3>1. run[k] = CHOOSE v \in {op(u, k) : u \in {run[k - 1]}} : TRUE
      BY <1>7, <2>1
    <3>2. QED
      BY <3>1
  <2>4. QED
    BY <2>2, <2>3
<1>9. \A k \in 0 .. n : run[k] \in C
  <2>1. \A k \in 1 .. n : run[k - 1] \in C => run[k] \in C
    BY <1>2, <1>8
  <2>2. run[0] \in C
    BY <1>1, <1>8
  <2>3. QED
    BY <1>1, <2>1, <2>2, WalkStays
<1>10. \A k \in 1 .. n : run[k] = IF k \in P THEN Meet(analysis, run[k - 1], out[k]) ELSE run[k - 1]
  BY <1>8 DEF op
<1>11. q \in 1 .. n
  BY DEF Leaders, n
<1> HIDE DEF run
<1> DEFINE T == {k \in Nat : k =< n /\ q =< k => IsTrue(analysis, run[k], a)}
<1>12. 0 \in T
  BY <1>11
<1>13. ASSUME NEW k \in Nat, k \in T PROVE k + 1 \in T
  <2>1. SUFFICES ASSUME k + 1 =< n, q =< k + 1 PROVE IsTrue(analysis, run[k + 1], a)
    OBVIOUS
  <2> DEFINE l == k + 1
  <2>2. l \in 1 .. n /\ l - 1 = k
    BY <1>1, <2>1
  <2>3. run[l] = IF l \in P THEN Meet(analysis, run[k], out[l]) ELSE run[k]
    BY <1>10, <2>2
  <2>4. l = q \/ IsTrue(analysis, run[k], a)
    BY <1>1, <1>11, <1>13, <2>1
  <2> HIDE DEF l
  <2>5. IsTrue(analysis, run[l], a)
    BY <2>3, <2>4, MeetIsTrue
  <2>6. QED
    BY <2>5 DEF l
<1>14. n \in T
  <2> HIDE DEF T
  <2>1. QED
    BY <1>1, <1>12, <1>13, Induction
<1>15. QED
  BY <1>1, <1>3, <1>11, <1>14

\* what is true at the starts of the blocks and at their ends
TrueStates(fn, analysis, D) ==
    {st \in States(fn.body, analysis, fn.slotCount) :
        \A b \in Leaders(fn.body) :
            LET e == BlockEnd(fn.body, b)
            IN  /\ TrueOn(analysis, st.in[b], Arriving(fn, D)[b])
                /\ TrueOn(analysis, st.out[b], Behind(fn.body[e], Arriving(fn, D)[e], D))}

LEMMA TrueStatesAre ==
    ASSUME NEW fn, NEW analysis, NEW D
    PROVE  \A st : st \in TrueStates(fn, analysis, D) <=>
              /\ st \in States(fn.body, analysis, fn.slotCount)
              /\ \A b \in Leaders(fn.body) :
                    /\ TrueOn(analysis, st.in[b], Arriving(fn, D)[b])
                    /\ TrueOn(analysis, st.out[b],
                              Behind(fn.body[BlockEnd(fn.body, b)], Arriving(fn, D)[BlockEnd(fn.body, b)], D))
BY DEF TrueStates

\* What the predecessors of a block say when they are left is true where it starts.
LEMMA EntryTrue ==
    ASSUME NEW fn, NEW c, NEW arity, NEW D, Analysed(fn, c, arity, D), NEW analysis \in Propagations,
           NEW st \in TrueStates(fn, analysis, D), NEW b \in Leaders(fn.body), b # 1,
           BuildCFG(fn.body).preds[b] # {}
    PROVE  TrueOn(analysis, MeetAll(fn.body, analysis, BuildCFG(fn.body).preds[b], st.out),
                  Arriving(fn, D)[b])
<1> DEFINE body == fn.body
           m == fn.slotCount
           R == Arriving(fn, D)
           P == BuildCFG(body).preds[b]
           in == MeetAll(body, analysis, P, st.out)
           A == {a \in Envs(m) : IsTrue(analysis, in, a)}
           S == Code(c, m)
<1>1. /\ Len(body) \in Nat /\ DOMAIN body = 1 .. Len(body) /\ m \in Nat /\ body \in Seq(S)
      /\ \A k \in 1 .. Len(body) : Sound(body[k], m, arity, D)
  BY DEF Analysed
<1>2. P \subseteq Leaders(body)
  BY DEF BuildCFG
<1>3. /\ st.out \in [Leaders(body) -> Facts(analysis, m)]
      /\ \A p \in Leaders(body) :
            TrueOn(analysis, st.out[p], Behind(body[BlockEnd(body, p)], R[BlockEnd(body, p)], D))
  BY TrueStatesAre DEF States
<1> HIDE DEF S, m, body, R, P
<1>4. ASSUME NEW p \in P
      PROVE  LET e == BlockEnd(body, p) IN Behind(body[e], R[e], D) \subseteq A
  <2> DEFINE e == BlockEnd(body, p)
             B == Behind(body[e], R[e], D)
  <2>1. p \in Leaders(body)
    BY <1>2
  <2>2. e \in 1 .. Len(body) /\ e \in 1 .. Len(body) + 1
    <3>1. e \in p .. Len(body) /\ p \in 1 .. Len(body)
      BY <1>1, <2>1, BlockEndIs
    <3> HIDE DEF e
    <3>2. QED
      BY <1>1, <3>1
  <2>3. TrueOn(analysis, st.out[p], B)
    BY <1>3, <2>1
  <2> HIDE DEF e
  <2>4. R[e] \subseteq Envs(m)
    <3>1. ASSUME NEW a \in R[e] PROVE a \in Envs(m)
      BY <2>2, <3>1, ArrivingIs DEF R, m, body
    <3>2. QED
      BY <3>1
  <2>5. B \subseteq Envs(m)
    BY <1>1, <2>2, <2>4, BehindIn
  <2> HIDE DEF B
  <2>6. ASSUME NEW a \in B PROVE IsTrue(analysis, in, a)
    <3>1. IsTrue(analysis, st.out[p], a)
      BY <2>3, <2>6 DEF TrueOn
    <3>2. QED
      BY <1>1, <1>2, <1>3, <3>1, MeetAllTrue
  <2> HIDE DEF in
  <2>7. QED
    BY <2>5, <2>6 DEF B, e
<1>5. R[b] \subseteq A
  <2> HIDE DEF A
  <2>1. QED
    BY <1>4, ArrivingAcross DEF R, P, body
<1> HIDE DEF in
<1>6. TrueOn(analysis, in, R[b])
  BY <1>5 DEF TrueOn
<1>7. QED
  BY <1>6 DEF in, R, P, body

LEMMA VisitBlockTrue ==
    ASSUME NEW fn, NEW c, NEW arity, NEW D, Analysed(fn, c, arity, D), NEW analysis \in Propagations,
           NEW st \in TrueStates(fn, analysis, D), NEW b
    PROVE  VisitBlock(fn.body, BuildCFG(fn.body), analysis, st, b) \in TrueStates(fn, analysis, D)
<1> DEFINE body == fn.body
           m == fn.slotCount
           R == Arriving(fn, D)
           cfg == BuildCFG(body)
           L == Leaders(body)
           At(q) == Behind(body[BlockEnd(body, q)], R[BlockEnd(body, q)], D)
           in == IF b = 1 \/ cfg.preds[b] = {} THEN NoFacts(analysis)
                 ELSE MeetAll(body, analysis, cfg.preds[b], st.out)
           out == ThroughBlock(body, cfg, analysis, in, b)
           new == VisitBlock(body, cfg, analysis, st, b)
<1>1. m \in Nat /\ body \in Seq(Code(c, m)) /\ analysis \in Analyses
  BY DEF Analysed, Propagations, Analyses
<1>2. /\ st \in States(body, analysis, m)
      /\ \A q \in L : TrueOn(analysis, st.in[q], R[q]) /\ TrueOn(analysis, st.out[q], At(q))
  BY TrueStatesAre
<1>3. CASE b \notin L
  BY <1>3 DEF VisitBlock, BuildCFG
<1>4. CASE b \in L
  <2>1. new = [in |-> [st.in EXCEPT ![b] = in], out |-> [st.out EXCEPT ![b] = out]]
    BY <1>4 DEF VisitBlock, BuildCFG
  <2>2. /\ DOMAIN st.in = L /\ DOMAIN st.out = L
    BY <1>2 DEF States
  <2>3. new \in States(body, analysis, m)
    BY <1>1, <1>2, VisitBlockStays
  <2>4. in \in Facts(analysis, m)
    <3> HIDE DEF in, m, body, out, cfg
    <3>1. new.in[b] = in
      <4> HIDE DEF new
      <4>1. QED
        BY <1>4, <2>1, <2>2
    <3>2. QED
      BY <1>4, <2>3, <3>1 DEF States
  <2>5. TrueOn(analysis, in, R[b])
    <3>1. TrueOn(analysis, NoFacts(analysis), R[b])
      BY NoFactsAreTrue DEF TrueOn
    <3>2. b # 1 /\ cfg.preds[b] # {} =>
             TrueOn(analysis, MeetAll(body, analysis, cfg.preds[b], st.out), R[b])
      BY <1>4, EntryTrue
    <3>3. QED
      BY <3>1, <3>2
  <2> HIDE DEF in
  <2>6. TrueOn(analysis, out, At(b))
    BY <1>4, <2>4, <2>5, ThroughBlockTrue
  <2> HIDE DEF new, out, At, R, L, m, body
  <2>7. ASSUME NEW q \in L
        PROVE  TrueOn(analysis, new.in[q], R[q]) /\ TrueOn(analysis, new.out[q], At(q))
    BY <1>2, <2>1, <2>2, <2>5, <2>6
  <2>8. new \in TrueStates(fn, analysis, D)
    BY <2>3, <2>7, TrueStatesAre DEF At, R, L, m, body
  <2>9. QED
    BY <2>8 DEF new, cfg, body
<1>5. QED
  BY <1>3, <1>4

LEMMA RoundTrue ==
    ASSUME NEW fn, NEW c, NEW arity, NEW D, Analysed(fn, c, arity, D), NEW analysis \in Propagations,
           NEW st \in TrueStates(fn, analysis, D)
    PROVE  Walk(LAMBDA s, b : VisitBlock(fn.body, BuildCFG(fn.body), analysis, s, b), st, Len(fn.body))
             \in TrueStates(fn, analysis, D)
<1> DEFINE n == Len(fn.body)
           base == st
           op(s, k) == VisitBlock(fn.body, BuildCFG(fn.body), analysis, s, k)
           Is(f) == f = [k \in 0 .. n |-> IF k = 0 THEN base
                                        ELSE CHOOSE v \in {op(u, k) : u \in {f[k - 1]}} : TRUE]
           run == CHOOSE f : Is(f)
           C == TrueStates(fn, analysis, D)
<1>1. n \in Nat /\ base \in C
  BY DEF Analysed
<1>2. \A u \in C, k \in 1 .. n : op(u, k) \in C
  BY VisitBlockTrue
<1>3. Walk(LAMBDA s, b : VisitBlock(fn.body, BuildCFG(fn.body), analysis, s, b), st, Len(fn.body)) = run[n]
  BY DEF Walk
<1> HIDE DEF op, C, n, base
<1> DEFINE H == [z \in C \X (1 .. n) |-> op(z[1], z[2])]
<1>4. H \in [C \X (1 .. n) -> C] /\ \A u \in C, k \in 1 .. n : H[<<u, k>>] = op(u, k)
  BY <1>2
<1> HIDE DEF H
<1>5. PICK f \in [0 .. n -> C] : Walks(f, n, base, H)
  BY <1>1, <1>4, WalkExists
<1>6. Is(f)
  <2>1. ASSUME NEW k \in 1 .. n PROVE k - 1 \in 0 .. n /\ k # 0 /\ f[k] = op(f[k - 1], k)
    <3>1. k - 1 \in 0 .. n /\ k # 0
      BY <1>1
    <3>2. f[k - 1] \in C
      BY <3>1
    <3>3. QED
      BY <1>4, <1>5, <3>1, <3>2 DEF Walks
  <2>2. \A k \in 0 .. n : k # 0 => k \in 1 .. n
    BY <1>1
  <2>3. f[0] = base
    BY <1>5 DEF Walks
  <2>4. QED
    BY <2>1, <2>2, <2>3
<1>7. Is(run)
  BY <1>6
<1> HIDE DEF run
<1>8. run[0] = base /\ \A k \in 1 .. n : run[k] = op(run[k - 1], k)
  <2>1. 0 \in 0 .. n /\ \A k \in 1 .. n : k \in 0 .. n /\ k # 0
    BY <1>1
  <2>2. run[0] = base
    BY <1>7, <2>1
  <2>3. ASSUME NEW k \in 1 .. n PROVE run[k] = op(run[k - 1], k)
    <3>1. run[k] = CHOOSE v \in {op(u, k) : u \in {run[k - 1]}} : TRUE
      BY <1>7, <2>1
    <3>2. QED
      BY <3>1
  <2>4. QED
    BY <2>2, <2>3
<1>9. \A k \in 0 .. n : run[k] \in C
  <2>1. \A k \in 1 .. n : run[k - 1] \in C => run[k] \in C
    BY <1>2, <1>8
  <2>2. run[0] \in C
    BY <1>1, <1>8
  <2>3. QED
    BY <1>1, <2>1, <2>2, WalkStays
<1>10. run[n] \in C
  BY <1>1, <1>9
<1>11. QED
  BY <1>3, <1>10 DEF C

\* Whenever the iteration stops, what it has found out for a block is true where that starts.
LEMMA DataflowTrue ==
    ASSUME NEW fn, NEW c, NEW arity, NEW D, Analysed(fn, c, arity, D), NEW analysis \in Propagations
    PROVE  \A b \in Leaders(fn.body) : TrueOn(analysis, Dataflow(fn.body, analysis)[b], Arriving(fn, D)[b])
<1> DEFINE cfg == BuildCFG(fn.body)
           Round(st) == Walk(LAMBDA s, b : VisitBlock(fn.body, cfg, analysis, s, b), st, Len(fn.body))
           start == [b \in cfg.starts |-> NoFacts(analysis)]
           n == RoundCap
           base == [x |-> [in |-> start, out |-> start], stable |-> FALSE]
           op(acc, k) == IF acc.stable THEN acc
                         ELSE LET next == Round(acc.x) IN [x |-> next, stable |-> next = acc.x]
           Is(f) == f = [k \in 0 .. n |-> IF k = 0 THEN base
                                        ELSE CHOOSE v \in {op(u, k) : u \in {f[k - 1]}} : TRUE]
           run == CHOOSE f : Is(f)
           C == [x : TrueStates(fn, analysis, D), stable : BOOLEAN]
<1>1. n \in Nat /\ base \in C
  <2> DEFINE none == [in |-> start, out |-> start]
  <2>1. cfg.starts = Leaders(fn.body) /\ analysis \in Analyses
    BY DEF BuildCFG, Propagations, Analyses
  <2>2. start \in [Leaders(fn.body) -> Facts(analysis, fn.slotCount)]
    BY <2>1, FactsAre
  <2>3. \A b \in Leaders(fn.body) : start[b] = NoFacts(analysis)
    BY <2>1
  <2>4. \A A : TrueOn(analysis, NoFacts(analysis), A)
    BY NoFactsAreTrue DEF TrueOn
  <2> HIDE DEF start, cfg
  <2>5. none \in States(fn.body, analysis, fn.slotCount)
    BY <2>2 DEF States
  <2>6. none.in = start /\ none.out = start
    OBVIOUS
  <2> HIDE DEF none
  <2>7. none \in TrueStates(fn, analysis, D)
    BY <2>3, <2>4, <2>5, <2>6, TrueStatesAre
  <2>8. base \in C
    BY <2>7 DEF none
  <2>9. QED
    BY <2>8, RoundAssumption
<1>2. \A u \in C, k \in 1 .. n : op(u, k) \in C
  <2>1. TAKE u \in C, k \in 1 .. n
  <2>2. Round(u.x) \in TrueStates(fn, analysis, D)
    BY RoundTrue
  <2> HIDE DEF Round
  <2>3. QED
    BY <2>2
<1>3. Dataflow(fn.body, analysis) = run[n].x.in
  BY DEF Dataflow, Saturate, Walk
<1> HIDE DEF op, C, n, base
<1> DEFINE H == [z \in C \X (1 .. n) |-> op(z[1], z[2])]
<1>4. H \in [C \X (1 .. n) -> C] /\ \A u \in C, k \in 1 .. n : H[<<u, k>>] = op(u, k)
  BY <1>2
<1> HIDE DEF H
<1>5. PICK f \in [0 .. n -> C] : Walks(f, n, base, H)
  BY <1>1, <1>4, WalkExists
<1>6. Is(f)
  <2>1. ASSUME NEW k \in 1 .. n PROVE k - 1 \in 0 .. n /\ k # 0 /\ f[k] = op(f[k - 1], k)
    <3>1. k - 1 \in 0 .. n /\ k # 0
      BY <1>1
    <3>2. f[k - 1] \in C
      BY <3>1
    <3>3. QED
      BY <1>4, <1>5, <3>1, <3>2 DEF Walks
  <2>2. \A k \in 0 .. n : k # 0 => k \in 1 .. n
    BY <1>1
  <2>3. f[0] = base
    BY <1>5 DEF Walks
  <2>4. QED
    BY <2>1, <2>2, <2>3
<1>7. Is(run)
  BY <1>6
<1> HIDE DEF run
<1>8. run[0] = base /\ \A k \in 1 .. n : run[k] = op(run[k - 1], k)
  <2>1. 0 \in 0 .. n /\ \A k \in 1 .. n : k \in 0 .. n /\ k # 0
    BY <1>1
  <2>2. run[0] = base
    BY <1>7, <2>1
  <2>3. ASSUME NEW k \in 1 .. n PROVE run[k] = op(run[k - 1], k)
    <3>1. run[k] = CHOOSE v \in {op(u, k) : u \in {run[k - 1]}} : TRUE
      BY <1>7, <2>1
    <3>2. QED
      BY <3>1
  <2>4. QED
    BY <2>2, <2>3
<1>9. \A k \in 0 .. n : run[k] \in C
  <2>1. \A k \in 1 .. n : run[k - 1] \in C => run[k] \in C
    BY <1>2, <1>8
  <2>2. run[0] \in C
    BY <1>1, <1>8
  <2>3. QED
    BY <1>1, <2>1, <2>2, WalkStays
<1>10. run[n].x \in TrueStates(fn, analysis, D)
  BY <1>1, <1>9 DEF C
<1> HIDE DEF run
<1>11. QED
  BY <1>3, <1>10, TrueStatesAre

-----------------------------------------------------------------------------
(* Constants and copies carried across the control-flow graph. *)

\* At the end of a chain of copies is a slot that holds the same.
LEMMA FollowAgrees ==
    ASSUME NEW m, NEW alias \in Aliases(m), NEW s \in Int, NEW a, Agrees(alias, a)
    PROVE  a[Follow(alias, s)] = a[s]
<1> DEFINE n == 4
           base == s
           op(t, k) == IF t \in DOMAIN alias THEN alias[t] ELSE t
           Is(f) == f = [k \in 0 .. n |-> IF k = 0 THEN base
                                        ELSE CHOOSE v \in {op(u, k) : u \in {f[k - 1]}} : TRUE]
           run == CHOOSE f : Is(f)
           C == {t \in Int : a[t] = a[s]}
<1>1. n \in Nat /\ base \in C
  OBVIOUS
<1>2. \A u \in C, k \in 1 .. n : op(u, k) \in C
  <2>1. \A t \in DOMAIN alias : alias[t] \in Int
    <3>1. \A t \in DOMAIN alias : alias[t] \in Slots(m)
      BY MapsAre DEF Aliases
    <3>2. QED
      BY <3>1 DEF Slots
  <2>2. QED
    BY <2>1 DEF Agrees
<1>3. Follow(alias, s) = run[n]
  BY DEF Follow, Walk
<1> HIDE DEF op, C, n, base
<1> DEFINE H == [z \in C \X (1 .. n) |-> op(z[1], z[2])]
<1>4. H \in [C \X (1 .. n) -> C] /\ \A u \in C, k \in 1 .. n : H[<<u, k>>] = op(u, k)
  BY <1>2
<1> HIDE DEF H
<1>5. PICK f \in [0 .. n -> C] : Walks(f, n, base, H)
  BY <1>1, <1>4, WalkExists
<1>6. Is(f)
  <2>1. ASSUME NEW k \in 1 .. n PROVE k - 1 \in 0 .. n /\ k # 0 /\ f[k] = op(f[k - 1], k)
    <3>1. k - 1 \in 0 .. n /\ k # 0
      BY <1>1
    <3>2. f[k - 1] \in C
      BY <3>1
    <3>3. QED
      BY <1>4, <1>5, <3>1, <3>2 DEF Walks
  <2>2. \A k \in 0 .. n : k # 0 => k \in 1 .. n
    BY <1>1
  <2>3. f[0] = base
    BY <1>5 DEF Walks
  <2>4. QED
    BY <2>1, <2>2, <2>3
<1>7. Is(run)
  BY <1>6
<1> HIDE DEF run
<1>8. run[0] = base /\ \A k \in 1 .. n : run[k] = op(run[k - 1], k)
  <2>1. 0 \in 0 .. n /\ \A k \in 1 .. n : k \in 0 .. n /\ k # 0
    BY <1>1
  <2>2. run[0] = base
    BY <1>7, <2>1
  <2>3. ASSUME NEW k \in 1 .. n PROVE run[k] = op(run[k - 1], k)
    <3>1. run[k] = CHOOSE v \in {op(u, k) : u \in {run[k - 1]}} : TRUE
      BY <1>7, <2>1
    <3>2. QED
      BY <3>1
  <2>4. QED
    BY <2>2, <2>3
<1>9. \A k \in 0 .. n : run[k] \in C
  <2>1. \A k \in 1 .. n : run[k - 1] \in C => run[k] \in C
    BY <1>2, <1>8
  <2>2. run[0] \in C
    BY <1>1, <1>8
  <2>3. QED
    BY <1>1, <2>1, <2>2, WalkStays
<1>10. run[n] \in C
  BY <1>1, <1>9
<1> HIDE DEF run
<1>11. QED
  BY <1>3, <1>10 DEF C

\* i reading at the ends of the chains
AtChainEnds(i, alias) == Substitute(i, LAMBDA s : Follow(alias, s))

LEMMA FollowedAlike ==
    ASSUME NEW c, NEW m \in Nat, NEW i \in Code(c, m), NEW alias \in Aliases(m),
           NEW A, \A a \in A : Agrees(alias, a)
    PROVE  Alike(i, AtChainEnds(i, alias), A)
<1> DEFINE j == AtChainEnds(i, alias)
           O == {"Move", "Unary", "Binary", "StoreGlobal", "Branch", "Return"}
           l == Follow(alias, i.lhs)
           r == Follow(alias, i.rhs)
<1>1. j = IF i.op \in O THEN [i EXCEPT !.lhs = l, !.rhs = r] ELSE i
  BY DEF AtChainEnds, Substitute
<1>2. /\ i = [op |-> i.op, dest |-> i.dest, lhs |-> i.lhs, rhs |-> i.rhs, value |-> i.value,
              oper |-> i.oper, label |-> i.label, falseLabel |-> i.falseLabel, name |-> i.name,
              args |-> i.args]
      /\ i.lhs \in Int /\ i.rhs \in Int
  BY DEF Code, Instructions
<1>3. \A a \in A : a[l] = a[i.lhs] /\ a[r] = a[i.rhs]
  BY <1>2, FollowAgrees
<1> HIDE DEF j, l, r
<1>4. /\ j.op = i.op /\ j.dest = i.dest /\ j.oper = i.oper /\ j.value = i.value
      /\ j.label = i.label /\ j.falseLabel = i.falseLabel /\ j.name = i.name /\ j.args = i.args
      /\ i.op \notin O => j = i
      /\ i.op \in O => j.lhs = l /\ j.rhs = r
  BY <1>1, <1>2
<1>5. Alike(i, j, A)
  BY <1>3, <1>4 DEF Alike
<1>6. QED
  BY <1>5 DEF j

\* What is known behind an instruction rewritten by what is true is true.
LEMMA RewrittenTrue ==
    ASSUME NEW c, NEW m \in Nat, NEW arity, NEW D, NEW i \in Code(c, m), Sound(i, m, arity, D),
           NEW A, A \subseteq Envs(m), NEW analysis \in Propagations, NEW f \in Facts(analysis, m),
           TrueOn(analysis, f, A)
    PROVE  TrueOn(analysis, Rewritten(analysis, f, i).facts, Behind(i, A, D))
<1>1. CASE analysis = "constants"
  <2>1. Rewritten(analysis, f, i) = [facts |-> Learn(f, i), inst |-> Simplify(i, f)]
    BY <1>1 DEF Rewritten
  <2>2. QED
    BY <1>1, <2>1, LearnIsTrue
<1>2. CASE analysis = "copies"
  <2> DEFINE j == AtChainEnds(i, f)
  <2>1. Rewritten(analysis, f, i) = [facts |-> AfterMove(f, j), inst |-> j]
    BY <1>2 DEF Rewritten, AtChainEnds
  <2>2. Alike(i, j, A)
    <3>1. f \in Aliases(m) /\ \A a \in A : Agrees(f, a)
      BY <1>2, FactsAre DEF TrueOn, IsTrue
    <3>2. QED
      BY <3>1, FollowedAlike
  <2> HIDE DEF j
  <2>3. j.op = i.op /\ j.dest = i.dest /\ (i.op = "Move" => \A a \in A : a[j.lhs] = a[i.lhs])
    BY <2>2 DEF Alike
  <2>4. TrueOn("copies", AfterMove(f, j), Behind(i, A, D))
    BY <1>2, <2>3, MovedIsTrue
  <2>5. QED
    BY <1>2, <2>1, <2>4
<1>3. QED
  BY <1>1, <1>2 DEF Propagations

\* Every instruction is rewritten by something that is true there.
LEMMA RewriteTrue ==
    ASSUME NEW fn, NEW c, NEW arity, NEW D, Analysed(fn, c, arity, D), IsContext(c),
           NEW analysis \in Propagations, Allows(c, analysis)
    PROVE  \E K \in [1 .. Len(fn.body) -> Facts(analysis, fn.slotCount)] :
              /\ \A n \in 1 .. Len(fn.body) : TrueOn(analysis, K[n], Arriving(fn, D)[n])
              /\ Len(Rewrite(fn.body, analysis)) = Len(fn.body)
              /\ \A n \in 1 .. Len(fn.body) :
                    Rewrite(fn.body, analysis)[n] = Rewritten(analysis, K[n], fn.body[n]).inst
<1> DEFINE body == fn.body
           m == fn.slotCount
           R == Arriving(fn, D)
           in == Dataflow(body, analysis)
           n == Len(body)
           base == [facts |-> NoFacts(analysis), code |-> <<>>]
           op(acc, k) ==
              LET r == Rewritten(analysis, IF k \in DOMAIN in THEN in[k] ELSE acc.facts, body[k])
              IN  [facts |-> r.facts, code |-> Append(acc.code, r.inst)]
           Is(f) == f = [k \in 0 .. n |-> IF k = 0 THEN base
                                        ELSE CHOOSE v \in {op(u, k) : u \in {f[k - 1]}} : TRUE]
           run == CHOOSE f : Is(f)
           C == [facts : Facts(analysis, m), code : Seq(Code(c, m))]
<1>a. /\ n \in Nat /\ DOMAIN body = 1 .. n /\ m \in Nat
      /\ body \in Seq(Code(c, m)) /\ analysis \in Analyses
      /\ \A k \in 1 .. n : Sound(body[k], m, arity, D) /\ body[k] \in Code(c, m)
  BY DEF Analysed, Propagations, Analyses
<1>b. /\ in \in [Leaders(body) -> Facts(analysis, m)]
      /\ \A b \in Leaders(body) : TrueOn(analysis, in[b], R[b])
  <2>1. in \in [Leaders(body) -> Facts(analysis, m)]
    BY <1>a, DataflowStays
  <2>2. QED
    BY <2>1, DataflowTrue
<1>c. n >= 1 => 1 \in Leaders(body)
  BY <1>a DEF Leaders
<1>d. \A k \in 1 .. n : R[k] \subseteq Envs(m)
  <2>1. ASSUME NEW k \in 1 .. n, NEW a \in R[k] PROVE a \in Envs(m)
    <3>1. k \in 1 .. n + 1
      BY <1>a
    <3>2. QED
      BY <2>1, <3>1, ArrivingIs
  <2>2. QED
    BY <2>1
<1>e. \A k \in 1 .. n : k \notin Leaders(body) =>
         k - 1 \in 1 .. n /\ R[k] \subseteq Behind(body[k - 1], R[k - 1], D)
  BY ArrivingAlong
<1> DEFINE Known0(u, k) == IF k \in DOMAIN in THEN in[k] ELSE u.facts
<1> HIDE DEF in, R, m
<1>1. n \in Nat /\ base \in C
  <2>1. NoFacts(analysis) \in Facts(analysis, m)
    BY <1>a, FactsAre
  <2> DEFINE S == Code(c, m)
  <2>2. <<>> \in Seq(S)
    OBVIOUS
  <2>3. base \in C
    BY <2>1, <2>2
  <2>4. QED
    BY <1>a, <2>3
<1>f. ASSUME NEW u \in C, NEW k \in 1 .. n
      PROVE  /\ Known0(u, k) \in Facts(analysis, m)
             /\ Rewritten(analysis, Known0(u, k), body[k]) \in [facts : Facts(analysis, m), inst : Code(c, m)]
             /\ op(u, k) = [facts |-> Rewritten(analysis, Known0(u, k), body[k]).facts,
                            code |-> Append(u.code, Rewritten(analysis, Known0(u, k), body[k]).inst)]
  <2>1. Known0(u, k) \in Facts(analysis, m)
    BY <1>b, <1>f
  <2>2. op(u, k) = [facts |-> Rewritten(analysis, Known0(u, k), body[k]).facts,
                    code |-> Append(u.code, Rewritten(analysis, Known0(u, k), body[k]).inst)]
    OBVIOUS
  <2> HIDE DEF Known0, op, C
  <2>3. Rewritten(analysis, Known0(u, k), body[k]) \in [facts : Facts(analysis, m), inst : Code(c, m)]
    BY <1>a, <2>1, RewrittenStays
  <2>4. QED
    BY <2>1, <2>2, <2>3
<1>2. \A u \in C, k \in 1 .. n : op(u, k) \in C
  <2>1. TAKE u \in C, k \in 1 .. n
  <2> DEFINE r == Rewritten(analysis, Known0(u, k), body[k])
  <2>2. r.facts \in Facts(analysis, m) /\ r.inst \in Code(c, m) /\ u.code \in Seq(Code(c, m))
    BY <1>f
  <2>3. op(u, k) = [facts |-> r.facts, code |-> Append(u.code, r.inst)]
    BY <1>f
  <2> HIDE DEF r, op
  <2>4. QED
    BY <2>2, <2>3
<1>3. Rewrite(body, analysis) = run[n].code
  BY DEF Rewrite, Walk, in
<1> HIDE DEF op, C, n, base
<1> DEFINE H == [z \in C \X (1 .. n) |-> op(z[1], z[2])]
<1>4. H \in [C \X (1 .. n) -> C] /\ \A u \in C, k \in 1 .. n : H[<<u, k>>] = op(u, k)
  BY <1>2
<1> HIDE DEF H
<1>5. PICK f \in [0 .. n -> C] : Walks(f, n, base, H)
  BY <1>1, <1>4, WalkExists
<1>6. Is(f)
  <2>1. ASSUME NEW k \in 1 .. n PROVE k - 1 \in 0 .. n /\ k # 0 /\ f[k] = op(f[k - 1], k)
    <3>1. k - 1 \in 0 .. n /\ k # 0
      BY <1>1
    <3>2. f[k - 1] \in C
      BY <3>1
    <3>3. QED
      BY <1>4, <1>5, <3>1, <3>2 DEF Walks
  <2>2. \A k \in 0 .. n : k # 0 => k \in 1 .. n
    BY <1>1
  <2>3. f[0] = base
    BY <1>5 DEF Walks
  <2>4. QED
    BY <2>1, <2>2, <2>3
<1>7. Is(run)
  BY <1>6
<1> HIDE DEF run
<1>8. run[0] = base /\ \A k \in 1 .. n : run[k] = op(run[k - 1], k)
  <2>1. 0 \in 0 .. n /\ \A k \in 1 .. n : k \in 0 .. n /\ k # 0
    BY <1>1
  <2>2. run[0] = base
    BY <1>7, <2>1
  <2>3. ASSUME NEW k \in 1 .. n PROVE run[k] = op(run[k - 1], k)
    <3>1. run[k] = CHOOSE v \in {op(u, k) : u \in {run[k - 1]}} : TRUE
      BY <1>7, <2>1
    <3>2. QED
      BY <3>1
  <2>4. QED
    BY <2>2, <2>3
<1>9. \A k \in 0 .. n : run[k] \in C
  <2>1. \A k \in 1 .. n : run[k - 1] \in C => run[k] \in C
    BY <1>2, <1>8
  <2>2. run[0] \in C
    BY <1>1, <1>8
  <2>3. QED
    BY <1>1, <2>1, <2>2, WalkStays
<1> DEFINE K == [k \in 1 .. n |-> Known0(run[k - 1], k)]
           code == [k \in 0 .. n |-> run[k].code]
           x == [k \in 1 .. n |-> Rewritten(analysis, K[k], body[k]).inst]
<1>10. \A k \in 1 .. n : k - 1 \in 0 .. n /\ k \in 0 .. n
  BY <1>1
<1>11. ASSUME NEW k \in 1 .. n
       PROVE  /\ K[k] \in Facts(analysis, m)
              /\ run[k].facts = Rewritten(analysis, K[k], body[k]).facts
              /\ run[k].code = Append(run[k - 1].code, Rewritten(analysis, K[k], body[k]).inst)
  <2>1. run[k - 1] \in C /\ run[k] = op(run[k - 1], k)
    BY <1>8, <1>9, <1>10
  <2>2. K[k] = Known0(run[k - 1], k)
    OBVIOUS
  <2> HIDE DEF K, Known0
  <2>3. QED
    BY <1>f, <2>1, <2>2
<1>12. /\ \A k \in 0 .. n : run[k].code \in Seq(Code(c, m))
       /\ run[0].code = <<>>
  BY <1>8, <1>9 DEF C, base
<1>13. \A k \in 1 .. n : K[k] = IF k \in Leaders(body) THEN in[k] ELSE run[k - 1].facts
  BY <1>b
<1> HIDE DEF run
<1>14. K \in [1 .. n -> Facts(analysis, m)]
  BY <1>11
<1> HIDE DEF K, Known0
<1> DEFINE T == {k \in Nat : k + 1 =< n => TrueOn(analysis, K[k + 1], R[k + 1])}
<1>15. ASSUME NEW k \in 1 .. n, k \in Leaders(body) PROVE TrueOn(analysis, K[k], R[k])
  BY <1>b, <1>13, <1>15
<1>16. 0 \in T
  <2>1. 1 =< n => TrueOn(analysis, K[1], R[1])
    BY <1>1, <1>c, <1>15
  <2>2. QED
    BY <2>1
<1>17. ASSUME NEW k \in Nat, k \in T PROVE k + 1 \in T
  <2>1. SUFFICES ASSUME (k + 1) + 1 =< n PROVE TrueOn(analysis, K[(k + 1) + 1], R[(k + 1) + 1])
    OBVIOUS
  <2> DEFINE q == (k + 1) + 1
             l == k + 1
  <2>2. q \in 1 .. n /\ l \in 1 .. n /\ q - 1 = l
    BY <1>1, <2>1
  <2>3. TrueOn(analysis, K[l], R[l])
    BY <1>17, <2>2
  <2> HIDE DEF q, l
  <2>4. TrueOn(analysis, run[l].facts, Behind(body[l], R[l], D))
    <3>1. /\ body[l] \in Code(c, m) /\ Sound(body[l], m, arity, D) /\ R[l] \subseteq Envs(m)
          /\ K[l] \in Facts(analysis, m) /\ m \in Nat
      BY <1>a, <1>d, <1>11, <2>2
    <3>2. TrueOn(analysis, Rewritten(analysis, K[l], body[l]).facts, Behind(body[l], R[l], D))
      BY <2>3, <3>1, RewrittenTrue
    <3>3. QED
      BY <1>11, <2>2, <3>2
  <2>5. CASE q \in Leaders(body)
    BY <1>15, <2>2, <2>5 DEF q
  <2>6. CASE q \notin Leaders(body)
    <3>1. K[q] = run[l].facts /\ R[q] \subseteq Behind(body[l], R[l], D)
      BY <1>13, <1>e, <2>2, <2>6
    <3>2. QED
      BY <2>4, <3>1 DEF TrueOn, q
  <2>7. QED
    BY <2>5, <2>6
<1>18. ASSUME NEW k \in 1 .. n PROVE TrueOn(analysis, K[k], R[k])
  <2>1. k - 1 \in Nat /\ (k - 1) + 1 = k /\ k =< n
    BY <1>1
  <2>2. k - 1 \in T
    <3> HIDE DEF T
    <3>1. QED
      BY <1>16, <1>17, <2>1, Induction
  <2>3. QED
    BY <2>1, <2>2
<1>19. /\ \A k \in 0 .. n : code[k] \in Seq(Code(c, m))
       /\ code[0] = <<>> /\ \A k \in 1 .. n : code[k] = Append(code[k - 1], x[k])
  <2>1. 0 \in 0 .. n
    BY <1>1
  <2>2. QED
    BY <1>10, <1>11, <1>12, <2>1
<1>20. code[n] = Rewrite(body, analysis)
  <2>1. n \in 0 .. n
    BY <1>1
  <2>2. QED
    BY <1>3, <2>1
<1>21. \A k \in 1 .. n : x[k] = Rewritten(analysis, K[k], body[k]).inst
  OBVIOUS
<1> HIDE DEF code, x
<1>22. Len(code[n]) = n /\ DOMAIN code[n] = 1 .. n /\ \A j \in 1 .. n : code[n][j] = x[j]
  <2> DEFINE S == Code(c, m)
  <2>1. \A k \in 0 .. n : code[k] \in Seq(S)
    BY <1>19
  <2> HIDE DEF S
  <2>2. Appending(code, x, n, S)
    BY <1>19, <2>1 DEF Appending
  <2>3. n \in Nat
    BY <1>1
  <2> HIDE DEF n
  <2>4. QED
    BY <2>2, <2>3, Appended, SMTT(60)
<1>23. QED
  BY <1>14, <1>18, <1>20, <1>21, <1>22 DEF n, R, m

\* a function of a program that a pass may look at
LEMMA AllowedAnalysed ==
    ASSUME NEW p, NEW k, NEW D, Comparable(p, k, D)
    PROVE  /\ Analysed(p.functions[k], Allowed(p, k), Arity(p), D)
           /\ IsContext(Allowed(p, k))
           /\ \A analysis : Allows(Allowed(p, k), analysis)
BY AllowedIs DEF Analysed, Allows

\* globalConstPropPass, wherever its iteration stops: what it takes for known at a place
\* is so on every way there, so unless the compiler has stopped the program returns what
\* it returned.
THEOREM GlobalConstPropKeeps ==
    ASSUME NEW p, NEW k, NEW D, Comparable(p, k, D), NEW g \in Memories(D),
           LET folded == WithBody(p, k, GlobalConstProp(p.functions[k].body))
           IN  ~Stopped(folded.functions[k])
    PROVE  LET folded == WithBody(p, k, GlobalConstProp(p.functions[k].body))
           IN  Outcome(p, g) # Undef => Outcome(folded, g) = Outcome(p, g)
<1> DEFINE fn == p.functions[k]
           c == Allowed(p, k)
           m == fn.slotCount
           body == fn.body
           code == GlobalConstProp(body)
           R == Arriving(fn, D)
<1>1. /\ IsContext(c) /\ c.values = Constants /\ m \in Nat /\ Len(body) \in Nat
      /\ DOMAIN body = 1 .. Len(body) /\ body \in Seq(Code(c, m))
      /\ \A n \in 1 .. Len(body) : Sound(body[n], m, Arity(p), D)
  BY AllowedIs
<1>2. Analysed(fn, c, Arity(p), D) /\ Allows(c, "constants")
  BY AllowedAnalysed
<1>3. Covers(R, fn, D) /\ \A n \in 1 .. Len(body) : R[n] \subseteq Envs(m)
  <2>1. Covers(R, fn, D)
    BY <1>2, ArrivingCovers
  <2>2. ASSUME NEW n \in 1 .. Len(body) PROVE R[n] \subseteq Envs(m)
    <3>1. n \in 1 .. Len(body) + 1
      BY <1>1
    <3>2. QED
      BY <2>1, <3>1 DEF Covers
  <2>3. QED
    BY <2>1, <2>2
<1>4. PICK K \in [1 .. Len(body) -> Facts("constants", m)] :
         /\ \A n \in 1 .. Len(body) : TrueOn("constants", K[n], R[n])
         /\ Len(Rewrite(body, "constants")) = Len(body)
         /\ \A n \in 1 .. Len(body) :
               Rewrite(body, "constants")[n] = Rewritten("constants", K[n], body[n]).inst
  <2>1. "constants" \in Propagations
    BY DEF Propagations
  <2> HIDE DEF c
  <2>2. QED
    BY <1>1, <1>2, <2>1, RewriteTrue
<1>5. \A i, f : Rewritten("constants", f, i).inst = Simplify(i, f)
  BY DEF Rewritten
<1>6. code \in Seq(Code(c, m))
  <2> HIDE DEF c, m, body
  <2>1. QED
    BY <1>1, GlobalPassesStay
<1> HIDE DEF c, m, body, R
<1>7. Len(code) = Len(body) /\ \A n \in 1 .. Len(body) : code[n] = Simplify(body[n], K[n])
  BY <1>4, <1>5 DEF GlobalConstProp
<1> HIDE DEF code
<1>8. ASSUME NEW n \in 1 .. Len(body) PROVE ~(code[n].op = "Const" /\ code[n].value = Undef)
  <2>1. k \in DOMAIN p.functions /\ IsProgram(p)
    BY DEF Comparable
  <2>2. WithBody(p, k, code).functions[k].body = code
    <3>1. p = [functions |-> p.functions] /\ IsFunction(fn, Arity(p))
      BY <2>1 DEF IsProgram
    <3>2. WithBody(p, k, code).functions[k] = [fn EXCEPT !.body = code]
      BY <2>1, <3>1 DEF WithBody
    <3>3. fn = [name |-> fn.name, params |-> fn.params, slotCount |-> fn.slotCount,
                named |-> fn.named, body |-> fn.body]
      BY <3>1 DEF IsFunction
    <3> HIDE DEF fn
    <3>4. QED
      BY <3>2, <3>3
  <2>3. ~Stopped(WithBody(p, k, code).functions[k])
    BY DEF code, body
  <2>4. n \in DOMAIN code
    BY <1>6, <1>7
  <2>5. QED
    BY <2>2, <2>3, <2>4 DEF Stopped
<1>9. ASSUME NEW n \in 1 .. Len(body) PROVE Mimics(body[n], code[n], R[n], D)
  <2>1. \A a \in R[n] : Holds(K[n], a)
    BY <1>4 DEF TrueOn, IsTrue
  <2>2. Mimics(body[n], Simplify(body[n], K[n]), R[n], D)
    BY <1>1, <1>3, <1>7, <1>8, <2>1, SimplifyMimics
  <2>3. QED
    BY <1>7, <2>2
<1>10. ASSUME NEW n \in 1 .. Len(body), code[n].op = "LoadGlobal" PROVE code[n].name \in D
  <2>1. code[n] = Simplify(body[n], K[n]) /\ Sound(body[n], m, Arity(p), D)
    BY <1>1, <1>7
  <2>2. code[n] = body[n]
    BY <1>10, <2>1 DEF Simplify, Const, Move, Unary, Blank
  <2>3. QED
    BY <1>10, <2>1, <2>2 DEF Sound
<1>11. Outcome(p, g) # Undef => Outcome(WithBody(p, k, code), g) = Outcome(p, g)
  BY <1>3, <1>6, <1>7, <1>9, <1>10, BodyKeeps DEF c, m, body
<1>12. QED
  BY <1>11 DEF code, body

\* globalCopyPropPass, wherever its iteration stops: a slot read instead of another holds
\* the same on every way there, so the program returns what it returned.
THEOREM GlobalCopyPropKeeps ==
    ASSUME NEW p, NEW k, NEW D, Comparable(p, k, D), NEW g \in Memories(D)
    PROVE  LET renamed == WithBody(p, k, GlobalCopyProp(p.functions[k].body))
           IN  Outcome(p, g) # Undef => Outcome(renamed, g) = Outcome(p, g)
<1> DEFINE fn == p.functions[k]
           c == Allowed(p, k)
           m == fn.slotCount
           body == fn.body
           code == GlobalCopyProp(body)
           R == Arriving(fn, D)
<1>1. /\ IsContext(c) /\ c.values = Constants /\ m \in Nat /\ Len(body) \in Nat
      /\ DOMAIN body = 1 .. Len(body) /\ body \in Seq(Code(c, m))
      /\ \A n \in 1 .. Len(body) : Sound(body[n], m, Arity(p), D) /\ body[n] \in Code(c, m)
  BY AllowedIs
<1>2. Analysed(fn, c, Arity(p), D) /\ Allows(c, "copies")
  BY AllowedAnalysed
<1>3. Covers(R, fn, D)
  BY <1>2, ArrivingCovers
<1>4. PICK L \in [1 .. Len(body) -> Facts("copies", m)] :
         /\ \A n \in 1 .. Len(body) : TrueOn("copies", L[n], R[n])
         /\ Len(Rewrite(body, "copies")) = Len(body)
         /\ \A n \in 1 .. Len(body) :
               Rewrite(body, "copies")[n] = Rewritten("copies", L[n], body[n]).inst
  <2>1. "copies" \in Propagations
    BY DEF Propagations
  <2> HIDE DEF c
  <2>2. QED
    BY <1>1, <1>2, <2>1, RewriteTrue
<1>5. \A i, f : Rewritten("copies", f, i).inst = AtChainEnds(i, f)
  BY DEF Rewritten, AtChainEnds
<1>6. code \in Seq(Code(c, m))
  <2> HIDE DEF c, m, body
  <2>1. QED
    BY <1>1, GlobalPassesStay
<1> HIDE DEF c, m, body, R
<1>7. /\ Len(code) = Len(body)
      /\ \A n \in 1 .. Len(body) : code[n] = AtChainEnds(body[n], L[n])
  BY <1>4, <1>5 DEF GlobalCopyProp
<1> HIDE DEF code
<1>8. ASSUME NEW n \in 1 .. Len(body) PROVE Alike(body[n], code[n], R[n])
  <2>1. L[n] \in Aliases(m) /\ \A a \in R[n] : Agrees(L[n], a)
    BY <1>4, FactsAre DEF TrueOn, IsTrue
  <2>2. Alike(body[n], AtChainEnds(body[n], L[n]), R[n])
    BY <1>1, <2>1, FollowedAlike
  <2>3. QED
    BY <1>7, <2>2
<1>9. \A n \in 1 .. Len(body) : Mimics(body[n], code[n], R[n], D)
  BY <1>8, AlikeMimics
<1>10. \A n \in 1 .. Len(body) : code[n].op = "LoadGlobal" => code[n].name \in D
  BY <1>1, <1>8 DEF Alike, Sound
<1>11. Outcome(p, g) # Undef => Outcome(WithBody(p, k, code), g) = Outcome(p, g)
  BY <1>3, <1>6, <1>7, <1>9, <1>10, BodyKeeps DEF c, m, body
<1>12. QED
  BY <1>11 DEF code, body


-----------------------------------------------------------------------------
(* Instructions left out. *)

\* What is put together from n instructions, run after each of them: for those at K what
\* y says, for the others nothing.
Leaving(run, y, K, n, S) ==
    /\ run[0] = <<>> /\ \A k \in 0 .. n : run[k] \in Seq(S)
    /\ \A k \in 1 .. n : run[k] = IF k \in K THEN Append(run[k - 1], y[k]) ELSE run[k - 1]

\* r says where in code each of n instructions has gone, if it is in K, or else the next
\* one that is.
Left(code, K, n, r) ==
    /\ r \in [1 .. n + 1 -> 1 .. Len(code) + 1] /\ r[1] = 1
    /\ \A k \in 1 .. n : r[k + 1] = IF k \in K THEN r[k] + 1 ELSE r[k]
    /\ \A k \in K : r[k] \in 1 .. Len(code)
    /\ \A j \in 1 .. Len(code) : \E k \in K : r[k] = j

\* What y says for the n instructions at K is what code is made of.
Leaves(code, y, K, n) == \E r : Left(code, K, n, r) /\ \A k \in K : code[r[k]] = y[k]

LEMMA LeavingIs ==
    ASSUME NEW S, NEW n \in Nat, NEW K \in SUBSET (1 .. n), NEW run, NEW y, Leaving(run, y, K, n, S)
    PROVE  Leaves(run[n], y, K, n)
<1> DEFINE r == [k \in 1 .. n + 1 |-> Len(run[k - 1]) + 1]
<1>1. /\ run[0] = <<>> /\ \A k \in 0 .. n : run[k] \in Seq(S) /\ Len(run[k]) \in Nat
      /\ \A k \in 1 .. n : run[k] = IF k \in K THEN Append(run[k - 1], y[k]) ELSE run[k - 1]
  BY DEF Leaving
<1>2. ASSUME NEW k \in 1 .. n
      PROVE  /\ k \in K => /\ Len(run[k]) = Len(run[k - 1]) + 1 /\ run[k][Len(run[k])] = y[k]
                           /\ \A l \in 1 .. Len(run[k - 1]) : run[k][l] = run[k - 1][l]
             /\ k \notin K => run[k] = run[k - 1]
  <2>1. k - 1 \in 0 .. n /\ k \in 0 .. n
    OBVIOUS
  <2> DEFINE s == run[k - 1]
             t == run[k]
  <2>2. s \in Seq(S) /\ t \in Seq(S) /\ (k \in K => t = Append(s, y[k])) /\ (k \notin K => t = s)
    BY <1>1, <2>1
  <2> HIDE DEF s, t
  <2>3. ASSUME k \in K
        PROVE  Len(t) = Len(s) + 1 /\ t[Len(t)] = y[k] /\ \A l \in 1 .. Len(s) : t[l] = s[l]
    BY <2>2, <2>3
  <2>4. QED
    BY <2>2, <2>3 DEF s, t
<1>3. \A k \in 1 .. n + 1 : k - 1 \in 0 .. n /\ r[k] = Len(run[k - 1]) + 1
  OBVIOUS
<1> HIDE DEF r
<1> DEFINE So(k) == /\ \A l \in K \cap (1 .. k) : r[l] \in 1 .. Len(run[k]) /\ run[k][r[l]] = y[l]
                    /\ \A j \in 1 .. Len(run[k]) : \E l \in K \cap (1 .. k) : r[l] = j
                    /\ \A l \in 0 .. k : Len(run[l]) =< Len(run[k])
           T == {k \in Nat : k =< n => So(k)}
<1>4. 0 \in T
  <2>1. Len(run[0]) = 0 /\ K \cap (1 .. 0) = {} /\ 0 .. 0 = {0}
    BY <1>1
  <2>2. So(0)
    BY <2>1
  <2> HIDE DEF So
  <2>3. QED
    BY <2>2
<1>5. ASSUME NEW k \in Nat, k \in T PROVE k + 1 \in T
  <2> DEFINE q == k + 1
  <2>1. SUFFICES ASSUME q =< n PROVE So(q)
    <3> HIDE DEF So
    <3>1. QED
      OBVIOUS
  <2>2. q \in 1 .. n /\ q \in 1 .. n + 1 /\ q - 1 = k /\ k \in 0 .. n /\ q \in 0 .. n
    BY <2>1
  <2>3. So(k)
    <3> HIDE DEF So
    <3>1. QED
      BY <1>5, <2>2
  <2>4. r[q] = Len(run[k]) + 1 /\ Len(run[k]) \in Nat /\ Len(run[q]) \in Nat
    BY <1>1, <1>3, <2>2
  <2>5. 0 .. q = (0 .. k) \cup {q} /\ 1 .. q = (1 .. k) \cup {q}
    BY <2>2
  <2>6. CASE q \in K
    <3>1. /\ Len(run[q]) = Len(run[k]) + 1 /\ run[q][Len(run[q])] = y[q]
          /\ \A l \in 1 .. Len(run[k]) : run[q][l] = run[k][l]
      BY <1>2, <2>2, <2>6
    <3>2. K \cap (1 .. q) = (K \cap (1 .. k)) \cup {q}
      BY <2>5, <2>6
    <3> HIDE DEF q
    <3>3. ASSUME NEW l \in K \cap (1 .. q) PROVE r[l] \in 1 .. Len(run[q]) /\ run[q][r[l]] = y[l]
      <4>1. CASE l = q
        BY <2>4, <3>1, <4>1
      <4>2. CASE l # q
        <5>1. l \in K \cap (1 .. k)
          BY <3>2, <4>2
        <5>2. r[l] \in 1 .. Len(run[k]) /\ run[k][r[l]] = y[l]
          BY <2>3, <5>1
        <5>3. QED
          BY <2>4, <3>1, <5>2
      <4>3. QED
        BY <4>1, <4>2
    <3>4. ASSUME NEW j \in 1 .. Len(run[q]) PROVE \E l \in K \cap (1 .. q) : r[l] = j
      <4>1. CASE j = Len(run[q])
        BY <2>4, <3>1, <3>2, <4>1
      <4>2. CASE j # Len(run[q])
        <5>1. j \in 1 .. Len(run[k])
          BY <2>4, <3>1, <4>2
        <5>2. \E l \in K \cap (1 .. k) : r[l] = j
          BY <2>3, <5>1
        <5>3. QED
          BY <3>2, <5>2
      <4>3. QED
        BY <4>1, <4>2
    <3>5. ASSUME NEW l \in 0 .. q PROVE Len(run[l]) =< Len(run[q])
      <4>1. CASE l = q
        BY <2>4, <4>1
      <4>2. CASE l # q
        <5>1. l \in 0 .. k /\ l \in 0 .. n
          BY <2>2, <2>5, <4>2
        <5>2. Len(run[l]) =< Len(run[k]) /\ Len(run[l]) \in Nat
          BY <1>1, <2>3, <5>1
        <5>3. QED
          BY <2>4, <3>1, <5>2
      <4>3. QED
        BY <4>1, <4>2
    <3>6. QED
      BY <3>3, <3>4, <3>5
  <2>7. CASE q \notin K
    <3>1. run[q] = run[k]
      BY <1>2, <2>2, <2>7
    <3>2. K \cap (1 .. q) = K \cap (1 .. k)
      BY <2>5, <2>7
    <3> HIDE DEF q
    <3>3. \A l \in 0 .. q : Len(run[l]) =< Len(run[q])
      BY <2>3, <2>4, <2>5, <3>1
    <3>4. QED
      BY <2>3, <3>1, <3>2, <3>3
  <2>8. QED
    BY <2>6, <2>7
<1>6. So(n)
  <2>1. n \in T
    <3> HIDE DEF T
    <3>1. QED
      BY <1>4, <1>5, Induction
  <2> HIDE DEF So
  <2>2. QED
    BY <2>1
<1>7. r \in [1 .. n + 1 -> 1 .. Len(run[n]) + 1] /\ r[1] = 1
  <2>1. 1 \in 1 .. n + 1 /\ 1 - 1 = 0 /\ n \in 0 .. n /\ Len(run[0]) = 0
    BY <1>1
  <2>2. ASSUME NEW k \in 1 .. n + 1 PROVE r[k] \in 1 .. Len(run[n]) + 1
    <3>1. k - 1 \in 0 .. n /\ Len(run[k - 1]) \in Nat /\ Len(run[n]) \in Nat
      BY <1>1, <1>3, <2>1
    <3>2. Len(run[k - 1]) =< Len(run[n])
      BY <1>6, <3>1
    <3>3. r[k] = Len(run[k - 1]) + 1
      BY <1>3
    <3>4. QED
      BY <3>1, <3>2, <3>3
  <2>3. r[1] = 1
    BY <1>3, <2>1
  <2>4. QED
    BY <2>2, <2>3 DEF r
<1>8. ASSUME NEW k \in 1 .. n PROVE r[k + 1] = IF k \in K THEN r[k] + 1 ELSE r[k]
  <2>1. k \in 1 .. n + 1 /\ k + 1 \in 1 .. n + 1 /\ (k + 1) - 1 = k
    OBVIOUS
  <2>2. r[k + 1] = Len(run[k]) + 1 /\ r[k] = Len(run[k - 1]) + 1
    BY <1>3, <2>1
  <2>3. QED
    BY <1>2, <2>2
<1>9. \A k \in K : r[k] \in 1 .. Len(run[n]) /\ run[n][r[k]] = y[k]
  <2>1. K \cap (1 .. n) = K
    OBVIOUS
  <2>2. QED
    BY <1>6, <2>1
<1>10. \A j \in 1 .. Len(run[n]) : \E k \in K : r[k] = j
  BY <1>6
<1>11. Left(run[n], K, n, r)
  BY <1>7, <1>8, <1>9, <1>10 DEF Left
<1>12. QED
  BY <1>9, <1>11 DEF Leaves

\* j is the jump to the side that the branch i takes from any of the slots in A.
Decides(i, j, A) ==
    /\ i.op = "Branch" /\ j.op = "Goto" /\ j.label # NoLabel
    /\ \A a \in A : a[i.lhs] # Undef => j.label = (IF a[i.lhs] # 0 THEN i.label ELSE i.falseLabel)

\* From the slots in A nothing is lost without the instruction at n: no run gets there,
\* or it sets a slot outside U only, or it is a jump to where the next one left is.
Idle(body, n, r, A, U) ==
    \/ A = {}
    \/ DefinesSlot(body[n]) /\ body[n].dest \notin U
    \/ /\ body[n].op \in {"Goto", "Branch"}
       /\ \A a \in A : \A G : \A z \in Goes(body, n, a, G) : r[z[1]] = r[n]

\* Of the instructions of f those at K are left in g, where r says; all that is read is
\* in U, and the other instructions are idle, given what F tells of the slots.
Shortens(f, g, r, K, F, U, arity, D) ==
    /\ f.slotCount \in Nat /\ g.slotCount = f.slotCount /\ g.params = f.params
    /\ Len(f.body) \in Nat /\ DOMAIN f.body = 1 .. Len(f.body)
    /\ Len(g.body) \in Nat /\ DOMAIN g.body = 1 .. Len(g.body)
    /\ LabelsDistinct(f.body) /\ Covers(F, f, D)
    /\ K \subseteq 1 .. Len(f.body) /\ U \subseteq Slots(f.slotCount)
    /\ Left(g.body, K, Len(f.body), r)
    /\ \A n \in 1 .. Len(f.body) :
         /\ Sound(f.body[n], f.slotCount, arity, D) /\ Reads(f.body[n]) \subseteq U
         /\ f.body[n].op = "Label" /\ F[n] # {} => n \in K
         /\ n \in K => g.body[r[n]] = f.body[n] \/ Decides(f.body[n], g.body[r[n]], F[n])
         /\ n \notin K => Idle(f.body, n, r, F[n], U)

\* A label that a run may get to has gone where the instruction has.
LabelsMove(f, g, r, F) ==
    \A l : \A p \in Targets(f.body, l) : F[p] # {} => Targets(g.body, l) = {r[p]}

LEMMA TargetMoves ==
    ASSUME NEW f, NEW g, NEW r, NEW K, NEW F, NEW U, NEW arity, NEW D,
           Shortens(f, g, r, K, F, U, arity, D)
    PROVE  LabelsMove(f, g, r, F)
<1> SUFFICES ASSUME NEW l, NEW p \in Targets(f.body, l), F[p] # {} PROVE Targets(g.body, l) = {r[p]}
  BY DEF LabelsMove
<1>1. /\ DOMAIN f.body = 1 .. Len(f.body) /\ DOMAIN g.body = 1 .. Len(g.body)
      /\ LabelsDistinct(f.body) /\ Left(g.body, K, Len(f.body), r)
      /\ K \subseteq 1 .. Len(f.body)
      /\ \A n \in 1 .. Len(f.body) :
           /\ f.body[n].op = "Label" /\ F[n] # {} => n \in K
           /\ n \in K => g.body[r[n]] = f.body[n] \/ Decides(f.body[n], g.body[r[n]], F[n])
  BY DEF Shortens
<1>2. p \in 1 .. Len(f.body) /\ f.body[p].op = "Label" /\ f.body[p].label = l
  BY <1>1, TargetsIn
<1>3. p \in K /\ g.body[r[p]] = f.body[p] /\ r[p] \in 1 .. Len(g.body)
  BY <1>1, <1>2 DEF Decides, Left
<1>4. l \in Labels(g.body)
  BY <1>1, <1>2, <1>3 DEF Labels
<1>5. ASSUME NEW q \in DOMAIN g.body, g.body[q].op = "Label", g.body[q].label = l PROVE q = r[p]
  <2>1. PICK k \in K : r[k] = q
    BY <1>1, <1>5 DEF Left
  <2>2. g.body[q] = f.body[k] /\ k \in 1 .. Len(f.body)
    BY <1>1, <1>5, <2>1 DEF Decides
  <2>3. k = p
    BY <1>1, <1>2, <1>5, <2>2 DEF LabelsDistinct
  <2>4. QED
    BY <2>1, <2>3
<1>6. PositionOf(g.body, l) = r[p]
  <2> DEFINE Is(q) == g.body[q].op = "Label" /\ g.body[q].label = l
  <2>1. Is(r[p]) /\ r[p] \in DOMAIN g.body
    BY <1>1, <1>2, <1>3
  <2>2. PositionOf(g.body, l) = CHOOSE q \in DOMAIN g.body : Is(q)
    BY DEF PositionOf
  <2>3. \A q \in DOMAIN g.body : Is(q) => q = r[p]
    BY <1>5
  <2> HIDE DEF Is
  <2>4. QED
    BY <2>1, <2>2, <2>3
<1>7. QED
  BY <1>4, <1>6 DEF Targets

\* Wherever a run goes from a place that F has the slots of, F has those it gets there with.
LEMMA GoesCovered ==
    ASSUME NEW f, NEW F, NEW D, Len(f.body) \in Nat, DOMAIN f.body = 1 .. Len(f.body),
           Covers(F, f, D), NEW n \in 1 .. Len(f.body), NEW a \in F[n], NEW G \in Memories(D),
           Quiet(f.body[n]), NEW z \in Goes(f.body, n, a, G)
    PROVE  z[1] \in 1 .. Len(f.body) + 1 /\ z[2] \in F[z[1]]
<1> DEFINE i == f.body[n]
<1>1. LeadsInto(f.body, n, F, D)
  BY DEF Covers
<1>2. n + 1 \in 1 .. Len(f.body) + 1
  OBVIOUS
<1>3. \A l : \A k \in Lands(f.body, n, l) \cup Targets(f.body, l) : k \in 1 .. Len(f.body) + 1
  <2>1. ASSUME NEW l, NEW k \in Lands(f.body, n, l) \cup Targets(f.body, l)
        PROVE  k \in 1 .. Len(f.body) + 1
    <3>1. k = n + 1 \/ k \in 1 .. Len(f.body)
      BY <2>1, LandsIn, TargetsIn
    <3>2. QED
      BY <1>2, <3>1
  <2>2. QED
    BY <2>1
<1>4. CASE DefinesSlot(i)
  <2> DEFINE v == [a EXCEPT ![i.dest] = Effect(i, a, G)]
  <2>1. z = <<n + 1, v>>
    BY <1>4 DEF Goes, DefinesSlot
  <2>2. v \in F[n + 1]
    BY <1>1, <1>4 DEF LeadsInto
  <2> HIDE DEF v
  <2>3. z[1] = n + 1 /\ z[2] = v
    BY <2>1
  <2>4. QED
    BY <1>2, <2>2, <2>3
<1>5. CASE i.op \in {"Label", "Goto", "Branch"}
  <2>1. \E k \in Onward(f.body, n) : z = <<k, a>>
    <3>1. CASE i.op = "Label"
      BY <3>1 DEF Goes, Onward, DefinesSlot
    <3>2. CASE i.op = "Goto"
      BY <3>2 DEF Goes, Onward, DefinesSlot
    <3>3. CASE i.op = "Branch"
      <4> DEFINE l == IF a[i.lhs] # 0 THEN i.label ELSE i.falseLabel
      <4>1. z \in {<<k, a>> : k \in Lands(f.body, n, l)}
        BY <3>3 DEF Goes, DefinesSlot
      <4>2. Onward(f.body, n) = Lands(f.body, n, i.label) \cup Lands(f.body, n, i.falseLabel)
        BY <3>3 DEF Onward
      <4>3. QED
        BY <4>1, <4>2
    <3>4. QED
      BY <1>5, <3>1, <3>2, <3>3
  <2>2. PICK k \in Onward(f.body, n) : z = <<k, a>>
    BY <2>1
  <2>3. k \in 1 .. Len(f.body) + 1
    BY <1>2, <1>3, <1>5 DEF Onward
  <2>4. z[1] = k /\ z[2] = a
    BY <2>2
  <2>5. a \in F[k]
    BY <1>1 DEF LeadsInto
  <2>6. QED
    BY <2>3, <2>4, <2>5
<1>6. QED
  BY <1>4, <1>5 DEF Quiet

\* where r says, with as much of what is in U defined
Shifted(F, r, E, U) ==
    {v \in (DOMAIN F) \X Nat \X E \X E :
        v[2] = r[v[1]] /\ v[3] \in F[v[1]] /\ BelowOn(U, v[3], v[4])}

LEMMA ShiftedIs ==
    ASSUME NEW F, NEW r, NEW E, NEW U, NEW n, NEW k, NEW a, NEW b
    PROVE  <<n, k, a, b>> \in Shifted(F, r, E, U) <=>
              /\ n \in DOMAIN F /\ k \in Nat /\ a \in E /\ b \in E
              /\ k = r[n] /\ a \in F[n] /\ BelowOn(U, a, b)
BY DEF Shifted

\* Where f goes with a quiet instruction, g goes as well or has no need to.
LEMMA ShortenedGoes ==
    ASSUME NEW f, NEW g, NEW r, NEW K, NEW F, NEW U, NEW arity, NEW D,
           Shortens(f, g, r, K, F, U, arity, D),
           NEW n \in 1 .. Len(f.body), Quiet(f.body[n]),
           NEW a \in F[n], NEW b \in Envs(f.slotCount), BelowOn(U, a, b),
           NEW G \in Memories(D), NEW H \in Memories(D), AllBelow(G, H),
           NEW z \in Goes(f.body, n, a, G)
    PROVE  \/ <<z[1], r[n], z[2], b>> \in Shifted(F, r, Envs(f.slotCount), U)
           \/ /\ r[n] \in DOMAIN g.body /\ Quiet(g.body[r[n]])
              /\ \E y \in Goes(g.body, r[n], b, H) :
                    <<z[1], y[1], z[2], y[2]>> \in Shifted(F, r, Envs(f.slotCount), U)
<1> DEFINE i == f.body[n]
           k == r[n]
           j == g.body[k]
           m == f.slotCount
           E == Envs(m)
           N == Len(f.body)
           M == Len(g.body)
           V == Shifted(F, r, E, U)
<1>1. /\ m \in Nat /\ N \in Nat /\ M \in Nat /\ DOMAIN f.body = 1 .. N /\ DOMAIN g.body = 1 .. M
      /\ Covers(F, f, D) /\ DOMAIN F = 1 .. N + 1
      /\ \A p \in 1 .. N + 1 : F[p] \subseteq E
      /\ Left(g.body, K, N, r) /\ r \in [1 .. N + 1 -> 1 .. M + 1]
      /\ Sound(i, m, arity, D) /\ Reads(i) \subseteq U
      /\ n \in K => j = i \/ Decides(i, j, F[n])
      /\ n \notin K => Idle(f.body, n, r, F[n], U)
      /\ n \in 1 .. N + 1 /\ n + 1 \in 1 .. N + 1
  <2>1. /\ m \in Nat /\ N \in Nat /\ M \in Nat /\ DOMAIN f.body = 1 .. N /\ DOMAIN g.body = 1 .. M
        /\ Covers(F, f, D) /\ Left(g.body, K, N, r)
        /\ Sound(i, m, arity, D) /\ Reads(i) \subseteq U
        /\ n \in K => j = i \/ Decides(i, j, F[n])
        /\ n \notin K => Idle(f.body, n, r, F[n], U)
    BY DEF Shortens
  <2>2. DOMAIN F = 1 .. N + 1 /\ \A p \in 1 .. N + 1 : F[p] \subseteq E
    BY <2>1 DEF Covers
  <2>3. r \in [1 .. N + 1 -> 1 .. M + 1]
    BY <2>1 DEF Left
  <2>4. n \in 1 .. N + 1 /\ n + 1 \in 1 .. N + 1
    BY <2>1
  <2>5. QED
    BY <2>1, <2>2, <2>3, <2>4
<1>2. z[1] \in 1 .. N + 1 /\ z[2] \in F[z[1]] /\ z[2] \in E /\ a \in E
  <2>1. z[1] \in 1 .. N + 1 /\ z[2] \in F[z[1]]
    BY <1>1, GoesCovered
  <2> HIDE DEF E
  <2>2. QED
    BY <1>1, <2>1
<1>3. \A p \in 1 .. N + 1 : r[p] \in Nat
  BY <1>1
<1>4. ASSUME NEW y1, NEW y2 \in E, y1 = r[z[1]], BelowOn(U, z[2], y2)
      PROVE  <<z[1], y1, z[2], y2>> \in V
  <2> HIDE DEF E
  <2>1. QED
    BY <1>1, <1>2, <1>3, <1>4, ShiftedIs
<1>5. DefinesSlot(i) => z = <<n + 1, [a EXCEPT ![i.dest] = Effect(i, a, G)]>>
  BY DEF Goes, DefinesSlot
<1>6. i.op \in {"Label", "Goto", "Branch"} => z[2] = a
  <2>1. CASE i.op = "Label"
    BY <2>1 DEF Goes, DefinesSlot
  <2>2. CASE i.op = "Goto"
    BY <2>2 DEF Goes, DefinesSlot
  <2>3. CASE i.op = "Branch"
    <3> DEFINE l == IF a[i.lhs] # 0 THEN i.label ELSE i.falseLabel
    <3>1. z \in {<<p, a>> : p \in Lands(f.body, n, l)}
      BY <2>3 DEF Goes, DefinesSlot
    <3>2. QED
      BY <3>1
  <2>4. QED
    BY <2>1, <2>2, <2>3
<1>7. CASE n \notin K
  <2>1. r[n + 1] = r[n] /\ Idle(f.body, n, r, F[n], U)
    BY <1>1, <1>7 DEF Left
  <2>2. CASE DefinesSlot(i) /\ i.dest \notin U
    <3> DEFINE v == Effect(i, a, G)
               e == [a EXCEPT ![i.dest] = v]
    <3>1. z[1] = n + 1 /\ z[2] = e
      BY <1>5, <2>2
    <3>2. a \in [Slots(m) -> Values] /\ U \subseteq Slots(m)
      BY <1>2 DEF Envs, Shortens
    <3> HIDE DEF v
    <3>3. \A s \in U : e[s] = a[s]
      BY <2>2, <3>2
    <3> HIDE DEF e
    <3>4. BelowOn(U, z[2], b)
      BY <3>1, <3>3 DEF BelowOn
    <3>5. <<z[1], k, z[2], b>> \in V
      <4> HIDE DEF i, V
      <4>1. QED
        BY <1>4, <2>1, <3>1, <3>4
    <3>6. QED
      BY <3>5 DEF k, V, E, m
  <2>3. CASE i.op \in {"Goto", "Branch"} /\ r[z[1]] = r[n]
    <3>1. z[2] = a
      BY <1>6, <2>3
    <3>2. <<z[1], k, z[2], b>> \in V
      <4> HIDE DEF i, V
      <4>1. QED
        BY <1>4, <2>3, <3>1
    <3>3. QED
      BY <3>2 DEF k, V, E, m
  <2>4. QED
    BY <2>1, <2>2, <2>3 DEF Idle
<1>8. CASE n \in K
  <2>1. k \in DOMAIN g.body /\ r[n + 1] = k + 1 /\ (j = i \/ Decides(i, j, F[n]))
    BY <1>1, <1>8 DEF Left
  <2>2. Quiet(j)
    BY <2>1 DEF Quiet, Decides
  <2> DEFINE There == \E y \in Goes(g.body, k, b, H) : <<z[1], y[1], z[2], y[2]>> \in V
  <2>3. ASSUME NEW e \in E, <<r[z[1]], e>> \in Goes(g.body, k, b, H), BelowOn(U, z[2], e) PROVE There
    <3> DEFINE y == <<r[z[1]], e>>
    <3>1. y[1] = r[z[1]] /\ y[2] = e /\ y \in Goes(g.body, k, b, H)
      BY <2>3
    <3> HIDE DEF y, V, E
    <3>2. QED
      BY <1>4, <2>3, <3>1
  <2>4. \A l : \A p \in Targets(f.body, l) : p = z[1] => Targets(g.body, l) = {r[p]}
    <3>1. LabelsMove(f, g, r, F)
      BY TargetMoves
    <3>2. F[z[1]] # {}
      BY <1>2
    <3>3. QED
      BY <3>1, <3>2 DEF LabelsMove
  <2>5. CASE i.op = "Label"
    <3>1. j = i
      BY <2>1, <2>5 DEF Decides
    <3>2. z = <<n + 1, a>> /\ Goes(g.body, k, b, H) = {<<k + 1, b>>}
      BY <2>5, <3>1 DEF Goes, DefinesSlot
    <3>3. z[1] = n + 1 /\ z[2] = a
      BY <3>2
    <3> HIDE DEF E, There, i, j, k
    <3>4. There
      BY <2>1, <2>3, <3>2, <3>3 DEF E, m
    <3>5. QED
      BY <2>1, <2>2, <3>4 DEF There, k, j, V, E, m
  <2>6. CASE i.op = "Goto"
    <3>1. j = i
      BY <2>1, <2>6 DEF Decides
    <3>2. PICK p \in Targets(f.body, i.label) : z = <<p, a>>
      BY <2>6 DEF Goes, DefinesSlot
    <3>3. z[1] = p /\ z[2] = a
      BY <3>2
    <3>4. Targets(g.body, i.label) = {r[p]}
      BY <2>4, <3>3
    <3>5. Goes(g.body, k, b, H) = {<<q, b>> : q \in Targets(g.body, i.label)}
      BY <2>6, <3>1 DEF Goes, DefinesSlot
    <3> HIDE DEF E, There, i, j, k
    <3>6. There
      BY <2>3, <3>3, <3>4, <3>5 DEF E, m
    <3>7. QED
      BY <2>1, <2>2, <3>6 DEF There, k, j, V, E, m
  <2>7. CASE i.op = "Branch"
    <3> DEFINE l == IF a[i.lhs] # 0 THEN i.label ELSE i.falseLabel
    <3>1. a[i.lhs] # Undef /\ \E p \in Lands(f.body, n, l) : z = <<p, a>>
      BY <2>7 DEF Goes, DefinesSlot
    <3>2. PICK p \in Lands(f.body, n, l) : z = <<p, a>>
      BY <3>1
    <3>3. z[1] = p /\ z[2] = a
      BY <3>2
    <3>4. CASE j = i
      <4>1. i.lhs \in U
        BY <1>1, <2>7, ReadsAre
      <4>2. b[i.lhs] = a[i.lhs]
        BY <3>1, <4>1 DEF BelowOn, Below
      <4>3. Goes(g.body, k, b, H) = {<<q, b>> : q \in Lands(g.body, k, l)}
        BY <2>7, <3>1, <3>4, <4>2 DEF Goes, DefinesSlot
      <4>4. r[p] \in Lands(g.body, k, l)
        <5>1. CASE l = NoLabel
          BY <2>1, <5>1 DEF Lands
        <5>2. CASE l # NoLabel
          BY <2>4, <3>3, <5>2 DEF Lands
        <5>3. QED
          BY <5>1, <5>2
      <4> HIDE DEF E, There, i, j, k, l
      <4>5. There
        BY <2>3, <3>3, <4>3, <4>4 DEF E, m
      <4>6. QED
        BY <2>1, <2>2, <4>5 DEF There, k, j, V, E, m
    <3>5. CASE Decides(i, j, F[n])
      <4>1. j.op = "Goto" /\ j.label = l /\ l # NoLabel
        BY <3>1, <3>5 DEF Decides
      <4>2. p \in Targets(f.body, l)
        BY <3>2, <4>1 DEF Lands
      <4>3. Targets(g.body, l) = {r[p]}
        BY <2>4, <3>3, <4>2
      <4>4. Goes(g.body, k, b, H) = {<<q, b>> : q \in Targets(g.body, l)}
        BY <4>1 DEF Goes, DefinesSlot
      <4> HIDE DEF E, There, i, j, k, l
      <4>5. There
        BY <2>3, <3>3, <4>3, <4>4 DEF E, m
      <4>6. QED
        BY <2>1, <2>2, <4>5 DEF There, k, j, V, E, m
    <3>6. QED
      BY <2>1, <3>4, <3>5
  <2>8. CASE DefinesSlot(i)
    <3> DEFINE v == Effect(i, a, G)
               w == Effect(i, b, H)
    <3>1. j = i
      BY <2>1, <2>8 DEF Decides, DefinesSlot
    <3>2. z[1] = n + 1 /\ z[2] = [a EXCEPT ![i.dest] = v]
      BY <1>5, <2>8
    <3>3. Goes(g.body, k, b, H) = {<<k + 1, [b EXCEPT ![i.dest] = w]>>}
      BY <2>8, <3>1 DEF Goes, DefinesSlot
    <3>4. w \in Values
      BY <1>1, <2>8, EffectIs
    <3>5. Below(v, w)
      <4>1. BelowOn(Reads(i), a, b)
        BY <1>1 DEF BelowOn
      <4> HIDE DEF i, m
      <4>2. QED
        BY <1>1, <1>2, <2>8, <4>1, EffectFollows DEF E, m
    <3> HIDE DEF v, w
    <3>6. [b EXCEPT ![i.dest] = w] \in E
      BY <1>1, <3>4, EnvIs
    <3>7. BelowOn(U, [a EXCEPT ![i.dest] = v], [b EXCEPT ![i.dest] = w])
      <4>1. a \in [Slots(m) -> Values] /\ b \in [Slots(m) -> Values] /\ U \subseteq Slots(m)
        BY <1>2 DEF Envs, Shortens
      <4>2. QED
        BY <3>5, <4>1 DEF BelowOn
    <3> DEFINE e == [b EXCEPT ![i.dest] = w]
    <3>8. e \in E /\ Goes(g.body, k, b, H) = {<<k + 1, e>>} /\ BelowOn(U, z[2], e)
      BY <3>2, <3>3, <3>6, <3>7
    <3> HIDE DEF E, There, i, j, k, e
    <3>9. There
      BY <2>1, <2>3, <3>2, <3>8
    <3>10. QED
      BY <2>1, <2>2, <3>9 DEF There, k, j, V, E, m
  <2>9. QED
    BY <2>5, <2>6, <2>7, <2>8 DEF Quiet
<1>9. QED
  BY <1>7, <1>8


\* The arguments of a call.
LEMMA PassedIs ==
    ASSUME NEW m, NEW i, i.args \in Seq(Int), \A q \in DOMAIN i.args : i.args[q] \in Slots(m),
           NEW a \in [Slots(m) -> Values], NEW b \in [Slots(m) -> Values]
    PROVE  /\ Passed(i, a) \in Seq(Values) /\ Passed(i, b) \in Seq(Values)
           /\ Len(Passed(i, b)) = Len(Passed(i, a))
           /\ \A q \in DOMAIN Passed(i, a) : Passed(i, a)[q] = a[i.args[q]] /\ Passed(i, b)[q] = b[i.args[q]]
           /\ DOMAIN Passed(i, a) = DOMAIN i.args
<1> DEFINE c == i.args
           l == Len(c)
           x == Passed(i, a)
           y == Passed(i, b)
<1>1. l \in Nat /\ DOMAIN c = 1 .. l /\ \A q \in 1 .. l : c[q] \in Slots(m)
  OBVIOUS
<1>2. x = [q \in 1 .. l |-> a[c[q]]] /\ y = [q \in 1 .. l |-> b[c[q]]]
  BY <1>1 DEF Passed
<1> HIDE DEF c, l, x, y
<1>3. x \in [1 .. l -> Values] /\ y \in [1 .. l -> Values]
  BY <1>1, <1>2
<1>4. \A s : s \in [1 .. l -> Values] => s \in Seq(Values)
  BY <1>1
<1>5. x \in Seq(Values) /\ y \in Seq(Values) /\ Len(x) = l /\ Len(y) = l
  <2>1. x \in Seq(Values) /\ y \in Seq(Values) /\ DOMAIN x = 1 .. l /\ DOMAIN y = 1 .. l
    BY <1>3, <1>4
  <2>2. \A s \in Seq(Values) : DOMAIN s = 1 .. l => Len(s) = l
    BY <1>1
  <2>3. QED
    BY <2>1, <2>2
<1>6. QED
  BY <1>1, <1>2, <1>5 DEF c, x, y

\* So what is left of a function follows it.
LEMMA ShortensFollows ==
    ASSUME NEW f, NEW g, NEW r, NEW K, NEW F, NEW U, NEW arity, NEW D,
           Shortens(f, g, r, K, F, U, arity, D), NEW names,
           \A n \in 1 .. Len(f.body) : f.body[n].op = "Call" => f.body[n].name \in names
    PROVE  Follows(f, g, Shifted(F, r, Envs(f.slotCount), U), D, names)
<1> DEFINE m == f.slotCount
           E == Envs(m)
           N == Len(f.body)
           M == Len(g.body)
           V == Shifted(F, r, E, U)
<1>1. /\ m \in Nat /\ g.slotCount = m /\ g.params = f.params
      /\ N \in Nat /\ M \in Nat /\ DOMAIN f.body = 1 .. N /\ DOMAIN g.body = 1 .. M
      /\ Covers(F, f, D) /\ Left(g.body, K, N, r) /\ U \subseteq Slots(m)
      /\ \A n \in 1 .. N :
           /\ Sound(f.body[n], m, arity, D) /\ Reads(f.body[n]) \subseteq U
           /\ n \in K => g.body[r[n]] = f.body[n] \/ Decides(f.body[n], g.body[r[n]], F[n])
           /\ n \notin K => Idle(f.body, n, r, F[n], U)
  BY DEF Shortens
<1>2. /\ DOMAIN F = 1 .. N + 1 /\ F[1] = E /\ (\A n \in 1 .. N : LeadsInto(f.body, n, F, D))
      /\ r \in [1 .. N + 1 -> 1 .. M + 1] /\ r[1] = 1
      /\ \A n \in K : r[n] \in 1 .. M
      /\ \A n \in 1 .. N : r[n + 1] = IF n \in K THEN r[n] + 1 ELSE r[n]
  BY <1>1 DEF Covers, Left
<1>3. \A n \in 1 .. N + 1 : r[n] \in Nat /\ r[n] \in 1 .. M + 1
  BY <1>1, <1>2
<1>4. ASSUME NEW n, NEW k, NEW a, NEW b, <<n, k, a, b>> \in V
      PROVE  /\ <<n, a>> \in Places(f.body, f.slotCount) /\ <<k, b>> \in Places(g.body, g.slotCount)
             /\ n =< Len(f.body) => Answers(f, g, V, D, names, n, k, a, b)
  <2>1. n \in 1 .. N + 1 /\ k = r[n] /\ a \in E /\ b \in E /\ a \in F[n] /\ BelowOn(U, a, b)
    BY <1>2, <1>4, ShiftedIs
  <2>2. <<n, a>> \in Places(f.body, f.slotCount) /\ <<k, b>> \in Places(g.body, g.slotCount)
    BY <1>1, <1>3, <2>1 DEF Places
  <2>3. ASSUME n =< N PROVE Answers(f, g, V, D, names, n, k, a, b)
    <3> DEFINE i == f.body[n]
               j == g.body[k]
    <3>1. n \in 1 .. N /\ n + 1 \in 1 .. N + 1 /\ n + 1 \in DOMAIN F
      BY <1>1, <1>2, <2>1, <2>3
    <3>2. Sound(i, m, arity, D) /\ LeadsInto(f.body, n, F, D) /\ Reads(i) \subseteq U
      BY <1>1, <1>2, <3>1
    <3>3. ASSUME Quiet(i), NEW G \in Memories(D), NEW H \in Memories(D), AllBelow(G, H),
                 NEW z \in Goes(f.body, n, a, G)
          PROVE  \/ <<z[1], k, z[2], b>> \in V
                 \/ /\ k \in DOMAIN g.body /\ Quiet(j)
                    /\ \E y \in Goes(g.body, k, b, H) : <<z[1], y[1], z[2], y[2]>> \in V
      BY <2>1, <3>1, <3>3, ShortenedGoes
    <3>4. ASSUME i.op \in {"StoreGlobal", "Call", "Return", "ReturnVoid"}
          PROVE  j = i /\ k \in DOMAIN g.body /\ r[n + 1] = k + 1
      <4>1. n \in K
        BY <1>1, <2>1, <3>1, <3>4 DEF Idle, DefinesSlot
      <4>2. QED
        BY <1>1, <1>2, <2>1, <3>1, <3>4, <4>1 DEF Decides
    <3>5. ASSUME i.op = "StoreGlobal"
          PROVE  /\ k \in DOMAIN g.body /\ j.op = "StoreGlobal" /\ j.name = i.name
                 /\ a[i.lhs] \in Values /\ b[j.lhs] \in Values /\ Below(a[i.lhs], b[j.lhs])
                 /\ <<n + 1, k + 1, a, b>> \in V
      <4>1. j = i /\ k \in DOMAIN g.body /\ r[n + 1] = k + 1
        BY <3>4, <3>5
      <4>2. a \in F[n + 1]
        <5>1. n + 1 \in Onward(f.body, n)
          BY <3>5 DEF Onward
        <5>2. QED
          BY <2>1, <3>2, <5>1 DEF LeadsInto
      <4>3. i.lhs \in Slots(m) /\ i.lhs \in U
        <5>1. i.lhs \in Reads(i)
          BY <3>5, ReadsAre
        <5>2. QED
          BY <1>1, <3>2, <5>1
      <4>4. a[i.lhs] \in Values /\ b[i.lhs] \in Values /\ Below(a[i.lhs], b[i.lhs])
        BY <1>1, <2>1, <4>3, EnvIs DEF BelowOn
      <4> HIDE DEF i, j, E
      <4>5. <<n + 1, k + 1, a, b>> \in V
        BY <1>3, <2>1, <3>1, <4>1, <4>2, ShiftedIs
      <4>6. QED
        BY <3>5, <4>1, <4>4, <4>5
    <3>6. ASSUME i.op = "Call"
          PROVE  /\ k \in DOMAIN g.body /\ j.op = "Call" /\ j.name = i.name /\ i.name \in names
                 /\ Passed(i, a) \in Seq(Values) /\ Passed(j, b) \in Seq(Values)
                 /\ Len(Passed(j, b)) = Len(Passed(i, a)) /\ AllBelow(Passed(i, a), Passed(j, b))
                 /\ \A v, w \in Values : Below(v, w) =>
                       <<n + 1, k + 1, [a EXCEPT ![i.dest] = v], [b EXCEPT ![j.dest] = w]>> \in V
      <4>1. j = i /\ k \in DOMAIN g.body /\ r[n + 1] = k + 1
        BY <3>4, <3>6
      <4>2. \A v \in Values : [a EXCEPT ![i.dest] = v] \in F[n + 1]
        BY <2>1, <3>2, <3>6 DEF LeadsInto
      <4>3. /\ i.args \in Seq(Int) /\ (\A q \in DOMAIN i.args : i.args[q] \in Slots(m))
            /\ i.dest \in Slots(m)
        BY <1>1, <3>2, <3>6, ReadsSlots
      <4>4. \A q \in DOMAIN i.args : i.args[q] \in U
        <5>1. Reads(i) = {i.args[q] : q \in DOMAIN i.args}
          BY <3>6, ReadsAre
        <5>2. QED
          BY <3>2, <5>1
      <4>5. i.name \in names
        BY <3>1, <3>6
      <4> HIDE DEF i, j
      <4>6. a \in [Slots(m) -> Values] /\ b \in [Slots(m) -> Values]
        BY <2>1 DEF Envs
      <4>7. /\ Passed(i, a) \in Seq(Values) /\ Passed(i, b) \in Seq(Values)
            /\ Len(Passed(i, b)) = Len(Passed(i, a))
            /\ \A q \in DOMAIN Passed(i, a) : Passed(i, a)[q] = a[i.args[q]] /\ Passed(i, b)[q] = b[i.args[q]]
            /\ DOMAIN Passed(i, a) = DOMAIN i.args
        BY <4>3, <4>6, PassedIs
      <4>8. AllBelow(Passed(i, a), Passed(i, b))
        BY <2>1, <4>4, <4>7 DEF AllBelow, BelowOn
      <4>9. ASSUME NEW v \in Values, NEW w \in Values, Below(v, w)
            PROVE  <<n + 1, k + 1, [a EXCEPT ![i.dest] = v], [b EXCEPT ![i.dest] = w]>> \in V
        <5>1. [a EXCEPT ![i.dest] = v] \in E /\ [b EXCEPT ![i.dest] = w] \in E
          BY <1>1, <2>1, EnvIs
        <5>2. BelowOn(U, [a EXCEPT ![i.dest] = v], [b EXCEPT ![i.dest] = w])
          BY <1>1, <2>1, <4>6, <4>9 DEF BelowOn
        <5>3. [a EXCEPT ![i.dest] = v] \in F[n + 1]
          BY <4>2
        <5> DEFINE a1 == [a EXCEPT ![i.dest] = v]
                   b1 == [b EXCEPT ![i.dest] = w]
        <5>4. a1 \in E /\ b1 \in E /\ BelowOn(U, a1, b1) /\ a1 \in F[n + 1]
          BY <5>1, <5>2, <5>3
        <5>5. k + 1 \in Nat /\ r[n + 1] = k + 1 /\ n + 1 \in DOMAIN F
          BY <1>3, <2>1, <3>1, <4>1
        <5> HIDE DEF E, a1, b1
        <5>6. <<n + 1, k + 1, a1, b1>> \in V
          BY <5>4, <5>5, ShiftedIs
        <5>7. QED
          BY <5>6 DEF a1, b1
      <4> HIDE DEF V
      <4>10. QED
        BY <3>6, <4>1, <4>5, <4>7, <4>8, <4>9
    <3>7. ASSUME i.op \in {"Return", "ReturnVoid"}
          PROVE  /\ k \in DOMAIN g.body /\ j.op \in {"Return", "ReturnVoid"}
                 /\ Given(i, a) \in Values /\ Given(j, b) \in Values /\ Below(Given(i, a), Given(j, b))
      <4>1. j = i /\ k \in DOMAIN g.body
        BY <3>4, <3>7
      <4>2. CASE i.op = "Return"
        <5>1. i.lhs \in Slots(m) /\ i.lhs \in U
          <6>1. i.lhs \in Reads(i)
            BY <4>2, ReadsAre
          <6>2. QED
            BY <1>1, <3>2, <6>1
        <5>2. a[i.lhs] \in Values /\ b[i.lhs] \in Values /\ Below(a[i.lhs], b[i.lhs])
          BY <1>1, <2>1, <5>1, EnvIs DEF BelowOn
        <5>3. Given(i, a) = a[i.lhs] /\ Given(i, b) = b[i.lhs]
          BY <4>2 DEF Given
        <5>4. QED
          BY <4>1, <4>2, <5>2, <5>3
      <4>3. CASE i.op = "ReturnVoid"
        BY <4>1, <4>3 DEF Given, Values, Below
      <4>4. QED
        BY <3>7, <4>2, <4>3
    <3> HIDE DEF V
    <3>8. QED
      BY <3>3, <3>5, <3>6, <3>7 DEF Answers
  <2>4. QED
    BY <2>2, <2>3
<1>5. ASSUME NEW c \in Seq(Values), NEW d \in Seq(Values), NEW x,
             Len(c) = Len(f.params), Len(d) = Len(f.params), AllBelow(c, d)
      PROVE  <<1, 1, Frame(f, c, x).env, Frame(g, d, x).env>> \in V
  <2>1. Frame(f, c, x).env \in E /\ Frame(g, d, x).env \in E
    BY <1>1, FrameEnvIs
  <2>2. AllBelow(Frame(f, c, x).env, Frame(g, d, x).env)
    BY <1>1, <1>5, FramesBelow
  <2>3. BelowOn(U, Frame(f, c, x).env, Frame(g, d, x).env)
    BY <1>1, <2>1, <2>2, EnvIs DEF AllBelow, BelowOn
  <2>4. 1 \in DOMAIN F /\ 1 = r[1] /\ 1 \in Nat
    BY <1>1, <1>2
  <2> HIDE DEF E
  <2>5. QED
    BY <1>2, <2>1, <2>3, <2>4, ShiftedIs
<1> HIDE DEF V
<1>6. Follows(f, g, V, D, names)
  BY <1>1, <1>4, <1>5 DEF Follows
<1>7. QED
  BY <1>6 DEF V, E, m


\* A pass that leaves a shorter code, in which nothing is missing that a run needs, keeps
\* what the program returns.
LEMMA ShorterKeeps ==
    ASSUME NEW p, NEW k, NEW D, Comparable(p, k, D),
           NEW code \in Seq(Code(Allowed(p, k), p.functions[k].slotCount)),
           NEW r, NEW K, NEW F, NEW U,
           Shortens(p.functions[k], [p.functions[k] EXCEPT !.body = code], r, K, F, U, Arity(p), D),
           NEW g \in Memories(D)
    PROVE  KeepsOutcome(p, WithBody(p, k, code), g)
<1> DEFINE old == p.functions[k]
           f == [old EXCEPT !.body = code]
           W == Shifted(F, r, Envs(old.slotCount), U)
<1>1. IsProgram(p) /\ AllLoadsIn(p, D) /\ k \in DOMAIN p.functions
      /\ Len(FunctionNamed(p, "main").params) = 0
  BY DEF Comparable
<1>2. /\ IsFunction(f, Arity(p)) /\ f.name = old.name /\ f.params = old.params
      /\ f.slotCount = old.slotCount /\ f.body = code
  <2>1. Stands(p, k, code)
    BY BodyStands
  <2>2. QED
    BY <2>1 DEF Stands
<1> DEFINE names == FunctionNames(p)
<1>3. \A n \in 1 .. Len(old.body) : old.body[n].op = "Call" => old.body[n].name \in names
  BY <1>1, CallsNamed
<1>4. Follows(old, f, W, D, names)
  <2> HIDE DEF old, f, names
  <2>1. Shortens(old, f, r, K, F, U, Arity(p), D)
    BY DEF old, f
  <2>2. QED
    BY <1>3, <2>1, ShortensFollows
<1>5. KeepsOutcome(p, WithFunction(p, k, f), g)
  <2> HIDE DEF W, f
  <2>1. QED
    BY <1>1, <1>2, <1>4, FollowerKeeps
<1>6. QED
  BY <1>5 DEF WithBody, WithFunction, KeepsOutcome

\* What KeepAt leaves, and where.
LEMMA KeepAtLeaves ==
    ASSUME NEW S, NEW body \in Seq(S), NEW P
    PROVE  Leaves(KeepAt(body, P), body, P \cap (1 .. Len(body)), Len(body))
<1> DEFINE n == Len(body)
           base == <<>>
           op(code, k) == IF k \in P THEN Append(code, body[k]) ELSE code
           Is(f) == f = [k \in 0 .. n |-> IF k = 0 THEN base
                                        ELSE CHOOSE v \in {op(u, k) : u \in {f[k - 1]}} : TRUE]
           run == CHOOSE f : Is(f)
           C == Seq(S)
<1>1. n \in Nat /\ base \in C
  OBVIOUS
<1>2. \A u \in C, k \in 1 .. n : op(u, k) \in C
  OBVIOUS
<1>3. KeepAt(body, P) = run[n]
  BY DEF KeepAt, Walk
<1> HIDE DEF op, C, n, base
<1> DEFINE H == [z \in C \X (1 .. n) |-> op(z[1], z[2])]
<1>4. H \in [C \X (1 .. n) -> C] /\ \A u \in C, k \in 1 .. n : H[<<u, k>>] = op(u, k)
  BY <1>2
<1> HIDE DEF H
<1>5. PICK f \in [0 .. n -> C] : Walks(f, n, base, H)
  BY <1>1, <1>4, WalkExists
<1>6. Is(f)
  <2>1. ASSUME NEW k \in 1 .. n PROVE k - 1 \in 0 .. n /\ k # 0 /\ f[k] = op(f[k - 1], k)
    <3>1. k - 1 \in 0 .. n /\ k # 0
      BY <1>1
    <3>2. f[k - 1] \in C
      BY <3>1
    <3>3. QED
      BY <1>4, <1>5, <3>1, <3>2 DEF Walks
  <2>2. \A k \in 0 .. n : k # 0 => k \in 1 .. n
    BY <1>1
  <2>3. f[0] = base
    BY <1>5 DEF Walks
  <2>4. QED
    BY <2>1, <2>2, <2>3
<1>7. Is(run)
  BY <1>6
<1> HIDE DEF run
<1>8. run[0] = base /\ \A k \in 1 .. n : run[k] = op(run[k - 1], k)
  <2>1. 0 \in 0 .. n /\ \A k \in 1 .. n : k \in 0 .. n /\ k # 0
    BY <1>1
  <2>2. run[0] = base
    BY <1>7, <2>1
  <2>3. ASSUME NEW k \in 1 .. n PROVE run[k] = op(run[k - 1], k)
    <3>1. run[k] = CHOOSE v \in {op(u, k) : u \in {run[k - 1]}} : TRUE
      BY <1>7, <2>1
    <3>2. QED
      BY <3>1
  <2>4. QED
    BY <2>2, <2>3
<1>9. \A k \in 0 .. n : run[k] \in C
  <2>1. \A k \in 1 .. n : run[k - 1] \in C => run[k] \in C
    BY <1>2, <1>8
  <2>2. run[0] \in C
    BY <1>1, <1>8
  <2>3. QED
    BY <1>1, <2>1, <2>2, WalkStays
<1> DEFINE K == P \cap (1 .. n)
<1>10. Leaving(run, body, K, n, S)
  <2>1. \A k \in 1 .. n : run[k] = IF k \in K THEN Append(run[k - 1], body[k]) ELSE run[k - 1]
    BY <1>8 DEF op
  <2>2. run[0] = <<>> /\ \A k \in 0 .. n : run[k] \in Seq(S)
    BY <1>8, <1>9 DEF base, C
  <2>3. QED
    BY <2>1, <2>2 DEF Leaving
<1>11. Leaves(run[n], body, K, n)
  <2>1. K \in SUBSET (1 .. n)
    OBVIOUS
  <2> HIDE DEF K
  <2>2. QED
    BY <1>1, <1>10, <2>1, LeavingIs
<1>12. QED
  BY <1>3, <1>11 DEF n, K


-----------------------------------------------------------------------------
(* Dead code. *)

\* Nothing that a run needs is missing from the positions P, given what F tells of the
\* slots, if no slot but those in U is read.
Suffices(fn, P, F, U, D) ==
    /\ Covers(F, fn, D) /\ LabelsDistinct(fn.body) /\ U \subseteq Slots(fn.slotCount)
    /\ \A n \in 1 .. Len(fn.body) :
         /\ Reads(fn.body[n]) \subseteq U
         /\ n \notin P =>
              \/ F[n] = {}
              \/ DefinesSlot(fn.body[n]) /\ fn.body[n].dest \notin U
              \/ /\ fn.body[n].op = "Goto" /\ n < Len(fn.body) /\ fn.body[n + 1].op = "Label"
                 /\ fn.body[n + 1].label = fn.body[n].label

LEMMA KeepAtKeeps ==
    ASSUME NEW p, NEW k, NEW D, Comparable(p, k, D), NEW P, NEW F, NEW U,
           Suffices(p.functions[k], P, F, U, D), NEW g \in Memories(D)
    PROVE  KeepsOutcome(p, WithBody(p, k, KeepAt(p.functions[k].body, P)), g)
<1> DEFINE fn == p.functions[k]
           c == Allowed(p, k)
           body == fn.body
           m == fn.slotCount
           N == Len(body)
           code == KeepAt(body, P)
           f == [fn EXCEPT !.body = code]
           K == P \cap (1 .. N)
<1>1. /\ m \in Nat /\ N \in Nat /\ DOMAIN body = 1 .. N /\ body \in Seq(Code(c, m))
      /\ \A n \in 1 .. N : Sound(body[n], m, Arity(p), D)
  BY AllowedIs
<1>2. code \in Seq(Code(c, m))
  BY <1>1, KeepAtStays
<1>3. Leaves(code, body, K, N)
  <2> HIDE DEF body
  <2>1. QED
    BY <1>1, KeepAtLeaves DEF N, K, code
<1>4. PICK r : Left(code, K, N, r) /\ \A n \in K : code[r[n]] = body[n]
  BY <1>3 DEF Leaves
<1>5. f.body = code /\ f.slotCount = m /\ f.params = fn.params
  BY <1>2, BodyStands DEF Stands
<1>6. Len(code) \in Nat /\ DOMAIN code = 1 .. Len(code)
  BY <1>2
<1>7. ASSUME NEW n \in 1 .. N
      PROVE  /\ Sound(body[n], m, Arity(p), D) /\ Reads(body[n]) \subseteq U
             /\ body[n].op = "Label" /\ F[n] # {} => n \in K
             /\ n \in K => code[r[n]] = body[n]
             /\ n \notin K => Idle(body, n, r, F[n], U)
  <2>1. CASE n \in P
    BY <1>1, <1>4, <2>1 DEF Suffices, K, N, body, fn
  <2>2. CASE n \notin P
    <3>1. \/ F[n] = {}
          \/ DefinesSlot(body[n]) /\ body[n].dest \notin U
          \/ /\ body[n].op = "Goto" /\ n < N /\ body[n + 1].op = "Label"
             /\ body[n + 1].label = body[n].label
      BY <2>2 DEF Suffices
    <3>2. Reads(body[n]) \subseteq U /\ LabelsDistinct(body)
      BY DEF Suffices
    <3>3. n \notin K
      BY <2>2
    <3>4. ASSUME body[n].op = "Goto", n < N, body[n + 1].op = "Label",
                 body[n + 1].label = body[n].label
          PROVE  \A a \in F[n] : \A G : \A z \in Goes(body, n, a, G) : r[z[1]] = r[n]
      <4>1. ASSUME NEW a \in F[n], NEW G, NEW z \in Goes(body, n, a, G) PROVE r[z[1]] = r[n]
        <5>1. PICK q \in Targets(body, body[n].label) : z = <<q, a>>
          BY <3>4, <4>1 DEF Goes, DefinesSlot
        <5>2. q \in 1 .. N /\ body[q].op = "Label" /\ body[q].label = body[n].label
          <6> HIDE DEF body
          <6>1. QED
            BY <1>1, TargetsIn DEF N
        <5>3. n + 1 \in 1 .. N
          BY <1>1, <3>4
        <5>4. q = n + 1
          <6> HIDE DEF body
          <6>1. QED
            BY <1>1, <3>2, <3>4, <5>2, <5>3 DEF LabelsDistinct
        <5>5. r[n + 1] = r[n]
          BY <1>4, <3>3 DEF Left
        <5>6. z[1] = q
          BY <5>1
        <5>7. QED
          BY <5>4, <5>5, <5>6
      <4>2. QED
        BY <4>1
    <3>5. Idle(body, n, r, F[n], U)
      <4> HIDE DEF body
      <4>1. QED
        BY <3>1, <3>4 DEF Idle
    <3>6. body[n].op = "Label" => F[n] = {}
      BY <3>1 DEF DefinesSlot
    <3> HIDE DEF body, K
    <3>7. QED
      BY <1>1, <3>2, <3>3, <3>5, <3>6
  <2>3. QED
    BY <2>1, <2>2
<1>8. Shortens(fn, f, r, K, F, U, Arity(p), D)
  <2>1. Covers(F, fn, D) /\ LabelsDistinct(body) /\ U \subseteq Slots(m)
    BY DEF Suffices
  <2>2. K \subseteq 1 .. N
    OBVIOUS
  <2> HIDE DEF f, code, K
  <2>3. QED
    BY <1>1, <1>4, <1>5, <1>6, <1>7, <2>1, <2>2 DEF Shortens, body, m, N
<1>9. QED
  <2> HIDE DEF code, K
  <2>1. KeepsOutcome(p, WithBody(p, k, code), g)
    BY <1>2, <1>8, ShorterKeeps DEF f, fn, c, m
  <2>2. QED
    BY <2>1 DEF code

\* Anything covers.
LEMMA AnythingCovers ==
    ASSUME NEW p, NEW k, NEW D, Comparable(p, k, D)
    PROVE  LET fn == p.functions[k]
           IN  /\ Covers(Anything(fn), fn, D)
               /\ \A n \in 1 .. Len(fn.body) : Reads(fn.body[n]) \subseteq Slots(fn.slotCount)
<1> DEFINE fn == p.functions[k]
<1>1. /\ fn.slotCount \in Nat /\ Len(fn.body) \in Nat /\ DOMAIN fn.body = 1 .. Len(fn.body)
      /\ \A n \in 1 .. Len(fn.body) : Sound(fn.body[n], fn.slotCount, Arity(p), D)
  BY AllowedIs
<1> HIDE DEF fn
<1>2. Covers(Anything(fn), fn, D)
  BY <1>1, SelfInPlace DEF InPlace
<1>3. \A n \in 1 .. Len(fn.body) : Reads(fn.body[n]) \subseteq Slots(fn.slotCount)
  BY <1>1 DEF Sound, FitsFrame, Slots
<1>4. QED
  BY <1>2, <1>3 DEF fn

\* A jump to the label right behind it is not missed (gotoCleanupPass).
THEOREM GotoCleanupKeeps ==
    ASSUME NEW p, NEW k, NEW D, Comparable(p, k, D), LabelsDistinct(p.functions[k].body),
           NEW g \in Memories(D)
    PROVE  LET cleaned == WithBody(p, k, GotoCleanup(p.functions[k].body))
           IN  Outcome(p, g) # Undef => Outcome(cleaned, g) = Outcome(p, g)
<1> DEFINE fn == p.functions[k]
           body == fn.body
           P == {n \in DOMAIN body : ~(/\ body[n].op = "Goto" /\ n < Len(body)
                                       /\ body[n + 1].op = "Label"
                                       /\ body[n + 1].label = body[n].label)}
           U == Slots(fn.slotCount)
           F == Anything(fn)
<1>1. DOMAIN body = 1 .. Len(body)
  BY AllowedIs
<1>2. Covers(F, fn, D) /\ \A n \in 1 .. Len(body) : Reads(body[n]) \subseteq U
  BY AnythingCovers
<1>3. Suffices(fn, P, F, U, D)
  <2>1. LabelsDistinct(body) /\ U \subseteq U
    OBVIOUS
  <2> HIDE DEF F, U
  <2>2. QED
    BY <1>1, <1>2, <2>1 DEF Suffices, U
<1>4. KeepsOutcome(p, WithBody(p, k, KeepAt(body, P)), g)
  <2> HIDE DEF P, F, U
  <2>1. QED
    BY <1>3, KeepAtKeeps
<1>5. GotoCleanup(body) = KeepAt(body, P)
  BY DEF GotoCleanup
<1>6. QED
  BY <1>4, <1>5 DEF KeepsOutcome


\* What deadBlockPass takes for reachable is closed under the steps of a run.
LEMMA ReachableIs ==
    ASSUME NEW body, Len(body) \in Nat, DOMAIN body = 1 .. Len(body)
    PROVE  \E R \in SUBSET (1 .. Len(body)) :
              /\ DeadBlock(body) = KeepAt(body, R)
              /\ 1 \in DOMAIN body => 1 \in R
              /\ \A n \in R : NextPositions(body, n) \subseteq R
<1> DEFINE n == Len(body)
           U == 1 .. n
           S0 == {1} \cap DOMAIN body
           Round(S) == S \cup UNION {NextPositions(body, g) : g \in S}
           base == [x |-> S0, stable |-> FALSE]
           op(acc, k) == IF acc.stable THEN acc
                         ELSE LET next == Round(acc.x) IN [x |-> next, stable |-> next = acc.x]
           Is(f) == f = [k \in 0 .. n |-> IF k = 0 THEN base
                                        ELSE CHOOSE v \in {op(u, k) : u \in {f[k - 1]}} : TRUE]
           run == CHOOSE f : Is(f)
           C == [x : {S \in SUBSET U : S0 \subseteq S}, stable : BOOLEAN]
<1>a. IsFiniteSet(U) /\ n \in Nat /\ Cardinality(U) =< n
  <2> HIDE DEF n
  <2>1. 1 \in Int /\ n \in Int /\ n \in Nat /\ (IF 1 > n THEN 0 ELSE n - 1 + 1) = n
    BY DEF n
  <2>2. QED
    BY <2>1, FS_Interval
<1>b. S0 \subseteq U /\ \A g : NextPositions(body, g) \subseteq U
  BY DEF NextPositions
<1>c. \A S \in SUBSET U : Round(S) \in SUBSET U /\ S \subseteq Round(S)
  BY <1>b
<1>3. DeadBlock(body) = KeepAt(body, run[n].x)
  BY DEF DeadBlock, Saturate, Walk
<1> HIDE DEF S0, Round, U
<1>1. n \in Nat /\ base \in C
  BY <1>a, <1>b
<1>2. \A u \in C, k \in 1 .. n : op(u, k) \in C
  <2>1. TAKE u \in C, k \in 1 .. n
  <2>2. Round(u.x) \in {S \in SUBSET U : S0 \subseteq S}
    BY <1>c
  <2>3. QED
    BY <2>2
<1> HIDE DEF op, C, n, base
<1> DEFINE H == [z \in C \X (1 .. n) |-> op(z[1], z[2])]
<1>4. H \in [C \X (1 .. n) -> C] /\ \A u \in C, k \in 1 .. n : H[<<u, k>>] = op(u, k)
  BY <1>2
<1> HIDE DEF H
<1>5. PICK f \in [0 .. n -> C] : Walks(f, n, base, H)
  BY <1>1, <1>4, WalkExists
<1>6. Is(f)
  <2>1. ASSUME NEW k \in 1 .. n PROVE k - 1 \in 0 .. n /\ k # 0 /\ f[k] = op(f[k - 1], k)
    <3>1. k - 1 \in 0 .. n /\ k # 0
      BY <1>1
    <3>2. f[k - 1] \in C
      BY <3>1
    <3>3. QED
      BY <1>4, <1>5, <3>1, <3>2 DEF Walks
  <2>2. \A k \in 0 .. n : k # 0 => k \in 1 .. n
    BY <1>1
  <2>3. f[0] = base
    BY <1>5 DEF Walks
  <2>4. QED
    BY <2>1, <2>2, <2>3
<1>7. Is(run)
  BY <1>6
<1> HIDE DEF run
<1>8. run[0] = base /\ \A k \in 1 .. n : run[k] = op(run[k - 1], k)
  <2>1. 0 \in 0 .. n /\ \A k \in 1 .. n : k \in 0 .. n /\ k # 0
    BY <1>1
  <2>2. run[0] = base
    BY <1>7, <2>1
  <2>3. ASSUME NEW k \in 1 .. n PROVE run[k] = op(run[k - 1], k)
    <3>1. run[k] = CHOOSE v \in {op(u, k) : u \in {run[k - 1]}} : TRUE
      BY <1>7, <2>1
    <3>2. QED
      BY <3>1
  <2>4. QED
    BY <2>2, <2>3
<1>9. \A k \in 0 .. n : run[k] \in C
  <2>1. \A k \in 1 .. n : run[k - 1] \in C => run[k] \in C
    BY <1>2, <1>8
  <2>2. run[0] \in C
    BY <1>1, <1>8
  <2>3. QED
    BY <1>1, <2>1, <2>2, WalkStays
<1> DEFINE G == [S \in SUBSET U |-> Round(S)]
<1>10. run[n].x \in SUBSET U /\ S0 \subseteq run[n].x
  BY <1>1, <1>9 DEF C
<1>11. Round(run[n].x) = run[n].x
  <2>1. G \in [SUBSET U -> SUBSET U] /\ \A S \in SUBSET U : G[S] = Round(S) /\ S \subseteq G[S]
    BY <1>c
  <2> HIDE DEF G
  <2>2. \A k \in 0 .. n : run[k] \in [x : SUBSET U, stable : BOOLEAN]
    BY <1>9 DEF C
  <2>3. ASSUME NEW k \in 1 .. n
        PROVE  Saturates(run[k - 1], run[k], G)
    <3>1. k - 1 \in 0 .. n
      BY <1>1
    <3>2. run[k - 1].x \in SUBSET U
      BY <2>2, <3>1
    <3>3. run[k] = op(run[k - 1], k)
      BY <1>8
    <3>4. Round(run[k - 1].x) = G[run[k - 1].x]
      BY <2>1, <3>2
    <3>5. run[k] = IF run[k - 1].stable THEN run[k - 1]
                  ELSE [x |-> G[run[k - 1].x], stable |-> G[run[k - 1].x] = run[k - 1].x]
      BY <3>3, <3>4 DEF op
    <3>6. CASE run[k - 1].stable
      BY <3>5, <3>6 DEF Saturates
    <3>7. CASE ~run[k - 1].stable
      <4>1. run[k] = [x |-> G[run[k - 1].x], stable |-> G[run[k - 1].x] = run[k - 1].x]
        BY <3>5, <3>7
      <4>2. run[k].x = G[run[k - 1].x]
        BY <4>1
      <4>3. run[k].stable = (G[run[k - 1].x] = run[k - 1].x)
        BY <4>1
      <4>4. QED
        BY <3>7, <4>2, <4>3 DEF Saturates
    <3>8. QED
      BY <3>6, <3>7
  <2>4. Saturation(run, n, U, G)
    <3>1. ~run[0].stable
      BY <1>8 DEF base
    <3>2. IsFiniteSet(U) /\ n \in Nat /\ Cardinality(U) =< n
      BY <1>a, <1>1
    <3>3. (\A S \in SUBSET U : S \subseteq G[S]) \/ (\A S \in SUBSET U : G[S] \subseteq S)
      BY <2>1
    <3>4. QED
      BY <2>1, <2>2, <2>3, <3>1, <3>2, <3>3 DEF Saturation
  <2>5. G[run[n].x] = run[n].x
    BY <2>4, Saturated
  <2>6. QED
    BY <1>10, <2>1, <2>5
<1>12. \A g \in run[n].x : NextPositions(body, g) \subseteq run[n].x
  BY <1>11 DEF Round
<1>13. run[n].x \in SUBSET (1 .. Len(body)) /\ (1 \in DOMAIN body => 1 \in run[n].x)
  BY <1>10 DEF U, n, S0
<1>14. QED
  BY <1>3, <1>12, <1>13

\* What no run gets to is not missed (deadBlockPass).
THEOREM DeadBlockKeeps ==
    ASSUME NEW p, NEW k, NEW D, Comparable(p, k, D), LabelsDistinct(p.functions[k].body),
           NEW g \in Memories(D)
    PROVE  LET cleaned == WithBody(p, k, DeadBlock(p.functions[k].body))
           IN  Outcome(p, g) # Undef => Outcome(cleaned, g) = Outcome(p, g)
<1> DEFINE fn == p.functions[k]
           body == fn.body
           N == Len(body)
           E == Envs(fn.slotCount)
           U == Slots(fn.slotCount)
<1>1. /\ fn.slotCount \in Nat /\ N \in Nat /\ DOMAIN body = 1 .. N
      /\ \A n \in 1 .. N : Sound(body[n], fn.slotCount, Arity(p), D)
  BY AllowedIs
<1>2. Covers(Anything(fn), fn, D) /\ \A n \in 1 .. N : Reads(body[n]) \subseteq U
  BY AnythingCovers
<1>3. PICK R \in SUBSET (1 .. N) : /\ DeadBlock(body) = KeepAt(body, R)
                                   /\ 1 \in DOMAIN body => 1 \in R
                                   /\ \A n \in R : NextPositions(body, n) \subseteq R
  <2> HIDE DEF body
  <2>1. QED
    BY <1>1, ReachableIs
<1> DEFINE F == [n \in 1 .. N + 1 |-> IF n \in R \/ n = N + 1 THEN E ELSE {}]
<1>4. /\ DOMAIN F = 1 .. N + 1
      /\ \A n \in 1 .. N + 1 : F[n] = IF n \in R \/ n = N + 1 THEN E ELSE {}
  OBVIOUS
<1>5. /\ \A n \in 1 .. N + 1 : Anything(fn)[n] = E
      /\ \A n \in 1 .. N : LeadsInto(body, n, Anything(fn), D)
  BY <1>2 DEF Covers, Anything
<1> HIDE DEF F
<1>6. ASSUME NEW n \in 1 .. N PROVE LeadsInto(body, n, F, D)
  <2>1. SUFFICES ASSUME n \in R PROVE LeadsInto(body, n, F, D)
    <3>1. n \in 1 .. N + 1 /\ n # N + 1
      BY <1>1
    <3>2. n \notin R => F[n] = {}
      BY <1>4, <3>1
    <3>3. QED
      BY <3>2 DEF LeadsInto
  <2>2. n \in 1 .. N + 1 /\ n + 1 \in 1 .. N + 1
    BY <1>1
  <2>3. F[n] = E /\ Anything(fn)[n] = E /\ Anything(fn)[n + 1] = E
    BY <1>4, <1>5, <2>1, <2>2
  <2>4. \A m \in Onward(body, n) : F[m] = E
    <3> HIDE DEF body
    <3>1. ASSUME NEW m \in Onward(body, n) PROVE F[m] = E
      <4>1. m \in 1 .. N + 1 /\ (m \in 1 .. N => m \in NextPositions(body, n))
        BY <1>1, <3>1, OnwardIs DEF N
      <4>2. m \in 1 .. N => m \in R
        BY <1>3, <2>1, <4>1
      <4>3. m \in R \/ m = N + 1
        BY <1>1, <4>1, <4>2
      <4>4. QED
        BY <1>4, <4>1, <4>3
    <3>2. QED
      BY <3>1
  <2>5. DefinesSlot(body[n]) \/ body[n].op = "Call" => F[n + 1] = E
    <3>1. ASSUME DefinesSlot(body[n]) \/ body[n].op = "Call" PROVE F[n + 1] = E
      <4>1. n + 1 \in 1 .. N => n + 1 \in NextPositions(body, n)
        BY <1>1, <3>1 DEF NextPositions, DefinesSlot
      <4>2. n + 1 \in R \/ n + 1 = N + 1
        BY <1>1, <1>3, <2>1, <4>1
      <4>3. QED
        BY <1>4, <2>2, <4>2
    <3>2. QED
      BY <3>1
  <2>6. LeadsInto(body, n, Anything(fn), D)
    BY <1>5
  <2> HIDE DEF E, body
  <2>7. QED
    BY <2>3, <2>4, <2>5, <2>6 DEF LeadsInto
<1>7. Covers(F, fn, D)
  <2>1. F[1] = E
    <3>1. 1 \in 1 .. N + 1 /\ (1 \in R \/ 1 = N + 1)
      BY <1>1, <1>3
    <3>2. QED
      BY <1>4, <3>1
  <2>2. \A n \in 1 .. N + 1 : F[n] \subseteq E
    BY <1>4
  <2>3. QED
    BY <1>4, <1>6, <2>1, <2>2 DEF Covers
<1>8. Suffices(fn, R, F, U, D)
  <2>1. LabelsDistinct(body) /\ U \subseteq U
    OBVIOUS
  <2>2. ASSUME NEW n \in 1 .. N, n \notin R PROVE F[n] = {}
    <3>1. n \in 1 .. N + 1 /\ n # N + 1
      BY <1>1
    <3>2. QED
      BY <1>4, <2>2, <3>1
  <2> HIDE DEF F, U
  <2>3. QED
    BY <1>2, <1>7, <2>1, <2>2 DEF Suffices, U
<1>9. KeepsOutcome(p, WithBody(p, k, KeepAt(body, R)), g)
  <2> HIDE DEF F, U
  <2>1. QED
    BY <1>8, KeepAtKeeps
<1>10. QED
  BY <1>3, <1>9 DEF KeepsOutcome


-----------------------------------------------------------------------------
(* Round after round. *)

\* q is p with f for its function at k.
Becomes(p, q, k, f) ==
    /\ IsProgram(q) /\ FunctionNames(q) = FunctionNames(p)
    /\ DOMAIN q.functions = DOMAIN p.functions /\ q.functions[k] = f
    /\ \A j \in DOMAIN p.functions : j # k => q.functions[j] = p.functions[j]
    /\ \A h \in FunctionNames(p) :
          FunctionNamed(q, h) = IF h = f.name THEN f ELSE FunctionNamed(p, h)

LEMMA ReplacedBecomes ==
    ASSUME NEW p, IsProgram(p), NEW k \in DOMAIN p.functions, NEW f,
           IsFunction(f, Arity(p)), f.name = p.functions[k].name, f.params = p.functions[k].params
    PROVE  Becomes(p, [p EXCEPT !.functions[k] = f], k, f)
BY Replaced DEF Becomes

LEMMA BodyIs ==
    ASSUME NEW p, NEW k, NEW D, Comparable(p, k, D),
           NEW code \in Seq(Code(Allowed(p, k), p.functions[k].slotCount))
    PROVE  Becomes(p, WithBody(p, k, code), k, [p.functions[k] EXCEPT !.body = code])
<1> DEFINE f == [p.functions[k] EXCEPT !.body = code]
           q == [p EXCEPT !.functions[k] = f]
<1>1. IsFunction(f, Arity(p)) /\ f.name = p.functions[k].name /\ f.params = p.functions[k].params
  BY BodyStands DEF Stands
<1>2. IsProgram(p) /\ k \in DOMAIN p.functions
  BY DEF Comparable
<1>3. WithBody(p, k, code) = q
  BY DEF WithBody
<1> HIDE DEF f
<1>4. Becomes(p, q, k, f)
  BY <1>1, <1>2, ReplacedBecomes
<1>5. QED
  BY <1>3, <1>4 DEF f

\* With fewer instructions of the same kind the program can be looked at as before.
LEMMA StaysComparable ==
    ASSUME NEW p, NEW k, NEW D, Comparable(p, k, D),
           NEW code \in Seq(Code(Allowed(p, k), p.functions[k].slotCount)),
           \A j \in DOMAIN code : /\ code[j].op = "LoadGlobal" => code[j].name \in D
                                  /\ code[j].op = "Const" => code[j].value # Undef
    PROVE  Comparable(WithBody(p, k, code), k, D)
<1> DEFINE old == p.functions[k]
           f == [old EXCEPT !.body = code]
           q == WithBody(p, k, code)
<1>1. /\ IsProgram(p) /\ AllLoadsIn(p, D) /\ k \in DOMAIN p.functions
      /\ Len(FunctionNamed(p, "main").params) = 0 /\ "main" \in FunctionNames(p)
  BY DEF Comparable, IsProgram
<1>2. f.name = old.name /\ f.params = old.params /\ f.body = code
  BY BodyStands DEF Stands
<1>3. Becomes(p, q, k, f)
  BY BodyIs
<1>4. FunctionNamed(p, old.name) = old
  BY <1>1, NamedIs
<1> HIDE DEF f, q
<1>5. AllLoadsIn(q, D)
  BY <1>1, <1>2, <1>3 DEF AllLoadsIn, LoadsIn, Becomes
<1>6. Len(FunctionNamed(q, "main").params) = 0
  BY <1>1, <1>2, <1>3, <1>4 DEF Becomes
<1>7. ~Stopped(q.functions[k])
  BY <1>2, <1>3 DEF Stopped, Becomes
<1>8. QED
  BY <1>1, <1>3, <1>5, <1>6, <1>7 DEF Comparable, Becomes, q

LEMMA KeepAtComparable ==
    ASSUME NEW p, NEW k, NEW D, Comparable(p, k, D), NEW P
    PROVE  LET body == p.functions[k].body
               code == KeepAt(body, P)
           IN  /\ Comparable(WithBody(p, k, code), k, D)
               /\ WithBody(p, k, code).functions[k].body = code
               /\ LabelsDistinct(body) => LabelsDistinct(code)
<1> DEFINE fn == p.functions[k]
           c == Allowed(p, k)
           m == fn.slotCount
           body == fn.body
           N == Len(body)
           K == P \cap (1 .. N)
           code == KeepAt(body, P)
<1>1. /\ m \in Nat /\ N \in Nat /\ DOMAIN body = 1 .. N /\ body \in Seq(Code(c, m))
      /\ \A n \in 1 .. N : Sound(body[n], m, Arity(p), D)
  BY AllowedIs
<1>2. code \in Seq(Code(c, m))
  BY <1>1, KeepAtStays
<1>3. Leaves(code, body, K, N)
  <2> HIDE DEF body
  <2>1. QED
    BY <1>1, KeepAtLeaves DEF N, K, code
<1>4. PICK r : Left(code, K, N, r) /\ \A n \in K : code[r[n]] = body[n]
  BY <1>3 DEF Leaves
<1>5. ~Stopped(fn)
  BY DEF Comparable
<1>6. DOMAIN code = 1 .. Len(code)
  BY <1>2
<1>7. ASSUME NEW j \in DOMAIN code PROVE \E n \in K : r[n] = j /\ code[j] = body[n] /\ n \in 1 .. N
  <2> HIDE DEF code, body
  <2>1. PICK n \in K : r[n] = j
    BY <1>4, <1>6 DEF Left
  <2>2. n \in 1 .. N
    OBVIOUS
  <2>3. QED
    BY <1>4, <2>1, <2>2
<1>8. \A j \in DOMAIN code : /\ code[j].op = "LoadGlobal" => code[j].name \in D
                             /\ code[j].op = "Const" => code[j].value # Undef
  <2> HIDE DEF code
  <2>1. QED
    BY <1>1, <1>5, <1>7 DEF Sound, Stopped
<1>9. Comparable(WithBody(p, k, code), k, D) /\ WithBody(p, k, code).functions[k].body = code
  <2> HIDE DEF code
  <2>1. Comparable(WithBody(p, k, code), k, D)
    BY <1>2, <1>8, StaysComparable DEF c, m, fn
  <2>2. WithBody(p, k, code).functions[k] = [fn EXCEPT !.body = code]
    BY <1>2, BodyIs DEF Becomes, c, m
  <2>3. [fn EXCEPT !.body = code].body = code
    BY <1>2, BodyStands DEF Stands, c, m
  <2>4. QED
    BY <2>1, <2>2, <2>3
<1>10. ASSUME LabelsDistinct(body) PROVE LabelsDistinct(code)
  <2> HIDE DEF code, body, K
  <2>1. QED
    BY <1>1, <1>7, <1>10 DEF LabelsDistinct
<1>11. QED
  BY <1>9, <1>10

LEMMA BodyTwice ==
    ASSUME NEW p, NEW k, NEW D, Comparable(p, k, D), NEW code,
           WithBody(p, k, code).functions[k].body = code, NEW next
    PROVE  WithBody(WithBody(p, k, code), k, next) = WithBody(p, k, next)
<1> DEFINE fn == p.functions[k]
           fs == p.functions
<1>1. IsProgram(p) /\ k \in DOMAIN fs
  BY DEF Comparable
<1>2. p = [functions |-> fs] /\ fs \in Seq({fs[j] : j \in DOMAIN fs})
  BY <1>1 DEF IsProgram, IsList
<1>3. fn = [name |-> fn.name, params |-> fn.params, slotCount |-> fn.slotCount,
            named |-> fn.named, body |-> fn.body]
  BY <1>1 DEF IsProgram, IsFunction
<1> HIDE DEF fn, fs
<1>4. \A x, y : [[fn EXCEPT !.body = x] EXCEPT !.body = y] = [fn EXCEPT !.body = y]
  BY <1>3
<1>5. ASSUME NEW x PROVE WithBody(p, k, x) = [functions |-> [fs EXCEPT ![k] = [fn EXCEPT !.body = x]]]
  <2> DEFINE z == [fn EXCEPT !.body = x]
  <2>1. WithBody(p, k, x) = [p EXCEPT !.functions[k] = z]
    BY DEF WithBody, fn, fs
  <2> HIDE DEF z
  <2>2. [p EXCEPT !.functions[k] = z] = [functions |-> [fs EXCEPT ![k] = z]]
    BY <1>2
  <2>3. QED
    BY <2>1, <2>2 DEF z
<1>6. \A x : [fs EXCEPT ![k] = x][k] = x
  BY <1>1
<1>7. \A x, y : [[fs EXCEPT ![k] = x] EXCEPT ![k] = y] = [fs EXCEPT ![k] = y]
  BY <1>1, <1>2
<1> DEFINE gs == [fs EXCEPT ![k] = [fn EXCEPT !.body = code]]
<1>8. WithBody(WithBody(p, k, code), k, next)
         = [functions |-> [gs EXCEPT ![k] = [gs[k] EXCEPT !.body = next]]]
  <2>1. WithBody(p, k, code) = [functions |-> gs]
    BY <1>5
  <2> DEFINE q == WithBody(p, k, code)
             z == [gs[k] EXCEPT !.body = next]
  <2>2. q = [functions |-> gs] /\ gs \in Seq({gs[j] : j \in DOMAIN gs})
    <3> DEFINE y == [fn EXCEPT !.body = code]
    <3>1. fs \in [1 .. Len(fs) -> {fs[j] : j \in DOMAIN fs}] /\ Len(fs) \in Nat
      BY <1>2
    <3>2. gs = [fs EXCEPT ![k] = y]
      OBVIOUS
    <3> HIDE DEF gs, y
    <3>3. DOMAIN gs = 1 .. Len(fs) /\ gs = [j \in 1 .. Len(fs) |-> gs[j]]
      BY <3>1, <3>2
    <3>4. gs \in Seq({gs[j] : j \in DOMAIN gs})
      BY <3>1, <3>3
    <3>5. QED
      BY <2>1, <3>4
  <2>3. WithBody(q, k, next) = [q EXCEPT !.functions[k] = z]
    <3> HIDE DEF q, gs
    <3>1. q.functions = gs
      BY <2>2
    <3>2. QED
      BY <3>1 DEF WithBody
  <2> HIDE DEF q, z, gs
  <2>4. [q EXCEPT !.functions[k] = z] = [functions |-> [gs EXCEPT ![k] = z]]
    BY <2>2
  <2>5. QED
    BY <2>3, <2>4 DEF q, z
<1>9. gs[k] = [fn EXCEPT !.body = code]
  BY <1>6
<1>10. [gs EXCEPT ![k] = [gs[k] EXCEPT !.body = next]] = [fs EXCEPT ![k] = [fn EXCEPT !.body = next]]
  <2> DEFINE y == [fn EXCEPT !.body = code]
             z == [fn EXCEPT !.body = next]
  <2>1. [gs[k] EXCEPT !.body = next] = z
    BY <1>4, <1>9
  <2>2. gs = [fs EXCEPT ![k] = y]
    OBVIOUS
  <2> HIDE DEF y, z, gs
  <2>3. [gs EXCEPT ![k] = z] = [fs EXCEPT ![k] = z]
    BY <1>7, <2>2
  <2>4. QED
    BY <2>1, <2>3 DEF z
<1>11. QED
  BY <1>5, <1>8, <1>10


\* The slots that code reads.
Used(code) == UNION {Reads(code[n]) : n \in DOMAIN code}

\* One round of dcePass: what sets a slot that nothing reads is not missed.
LEMMA DceRoundKeeps ==
    ASSUME NEW p, NEW k, NEW D, Comparable(p, k, D), LabelsDistinct(p.functions[k].body),
           NEW g \in Memories(D), NEW P,
           P = {n \in DOMAIN p.functions[k].body :
                  DefinesSlot(p.functions[k].body[n]) =>
                     p.functions[k].body[n].dest \in Used(p.functions[k].body)}
    PROVE  KeepsOutcome(p, WithBody(p, k, KeepAt(p.functions[k].body, P)), g)
<1> DEFINE fn == p.functions[k]
           body == fn.body
           U == Used(body)
           F == Anything(fn)
<1>1. DOMAIN body = 1 .. Len(body)
  BY AllowedIs
<1>2. Covers(F, fn, D) /\ \A n \in 1 .. Len(body) : Reads(body[n]) \subseteq Slots(fn.slotCount)
  BY AnythingCovers
<1>3. \A n \in 1 .. Len(body) : Reads(body[n]) \subseteq U
  BY <1>1 DEF Used
<1>4. U \subseteq Slots(fn.slotCount)
  BY <1>1, <1>2 DEF Used
<1>5. \A n \in 1 .. Len(body) : n \notin P => DefinesSlot(body[n]) /\ body[n].dest \notin U
  BY <1>1
<1>6. Suffices(fn, P, F, U, D)
  <2>1. LabelsDistinct(body)
    OBVIOUS
  <2> HIDE DEF F, U
  <2>2. QED
    BY <1>2, <1>3, <1>4, <1>5, <2>1 DEF Suffices
<1>7. QED
  <2> HIDE DEF F, U
  <2>1. QED
    BY <1>6, KeepAtKeeps

\* Code that can stand in the function of p at k, and with which p returns what it did.
Serves(p, k, D, g, code) ==
    LET q == WithBody(p, k, code)
    IN  /\ Comparable(q, k, D) /\ q.functions[k].body = code /\ LabelsDistinct(code)
        /\ KeepsOutcome(p, q, g)

LEMMA DceRoundServes ==
    ASSUME NEW p, NEW k, NEW D, Comparable(p, k, D), NEW g \in Memories(D), NEW code,
           Serves(p, k, D, g, code), NEW P,
           P = {n \in DOMAIN code : DefinesSlot(code[n]) => code[n].dest \in Used(code)}
    PROVE  Serves(p, k, D, g, KeepAt(code, P))
<1> DEFINE q == WithBody(p, k, code)
           next == KeepAt(code, P)
<1>1. Comparable(q, k, D) /\ q.functions[k].body = code /\ LabelsDistinct(code) /\ KeepsOutcome(p, q, g)
  BY DEF Serves
<1>2. WithBody(q, k, next) = WithBody(p, k, next)
  BY <1>1, BodyTwice
<1> HIDE DEF q
<1>3. /\ Comparable(WithBody(q, k, next), k, D) /\ WithBody(q, k, next).functions[k].body = next
      /\ LabelsDistinct(next)
  BY <1>1, KeepAtComparable
<1>4. KeepsOutcome(q, WithBody(q, k, next), g)
  BY <1>1, DceRoundKeeps
<1>5. KeepsOutcome(p, WithBody(q, k, next), g)
  BY <1>1, <1>4 DEF KeepsOutcome
<1> HIDE DEF next
<1>6. Serves(p, k, D, g, next)
  BY <1>2, <1>3, <1>5 DEF Serves
<1>7. QED
  BY <1>6 DEF next

LEMMA ServesItself ==
    ASSUME NEW p, NEW k, NEW D, Comparable(p, k, D), LabelsDistinct(p.functions[k].body), NEW g
    PROVE  Serves(p, k, D, g, p.functions[k].body)
<1> DEFINE fn == p.functions[k]
<1>1. IsProgram(p) /\ k \in DOMAIN p.functions
  BY DEF Comparable
<1>2. fn = [name |-> fn.name, params |-> fn.params, slotCount |-> fn.slotCount,
            named |-> fn.named, body |-> fn.body]
  BY <1>1 DEF IsProgram, IsFunction
<1>3. [fn EXCEPT !.body = fn.body] = fn
  <2> HIDE DEF fn
  <2>1. QED
    BY <1>2
<1>4. [p EXCEPT !.functions[k] = fn] = p
  BY <1>1, SameAgain DEF IsProgram
<1>5. WithBody(p, k, fn.body) = p
  <2>1. WithBody(p, k, fn.body) = [p EXCEPT !.functions[k] = [fn EXCEPT !.body = fn.body]]
    BY DEF WithBody
  <2> HIDE DEF fn
  <2>2. QED
    BY <1>3, <1>4, <2>1
<1>6. QED
  BY <1>5 DEF Serves, KeepsOutcome

\* Taking away, round after round, what sets a slot that nothing reads (dcePass).
THEOREM DceKeeps ==
    ASSUME NEW p, NEW k, NEW D, Comparable(p, k, D), LabelsDistinct(p.functions[k].body),
           NEW g \in Memories(D)
    PROVE  LET cleaned == WithBody(p, k, Dce(p.functions[k].body))
           IN  Outcome(p, g) # Undef => Outcome(cleaned, g) = Outcome(p, g)
<1> DEFINE body == p.functions[k].body
           S == Code(Allowed(p, k), p.functions[k].slotCount)
           Good(code) == Serves(p, k, D, g, code)
           Round(code) ==
              LET used == UNION {Reads(code[j]) : j \in DOMAIN code}
              IN  KeepAt(code, {j \in DOMAIN code : DefinesSlot(code[j]) => code[j].dest \in used})
           n == Len(body) + 1
           base == [x |-> body, stable |-> FALSE]
           op(acc, q) == IF acc.stable THEN acc
                         ELSE LET next == Round(acc.x) IN [x |-> next, stable |-> next = acc.x]
           Is(f) == f = [q \in 0 .. n |-> IF q = 0 THEN base
                                        ELSE CHOOSE v \in {op(u, q) : u \in {f[q - 1]}} : TRUE]
           run == CHOOSE f : Is(f)
           C == [x : {code \in Seq(S) : Good(code)}, stable : BOOLEAN]
<1>a. Good(body) /\ body \in Seq(S) /\ Len(body) \in Nat
  BY ServesItself, AllowedIs
<1>b. ASSUME NEW code \in Seq(S), Good(code) PROVE Round(code) \in Seq(S) /\ Good(Round(code))
  <2> DEFINE P == {j \in DOMAIN code : DefinesSlot(code[j]) => code[j].dest \in Used(code)}
  <2>1. Round(code) = KeepAt(code, P)
    BY DEF Used
  <2>2. KeepAt(code, P) \in Seq(S)
    <3> HIDE DEF S, P
    <3>1. QED
      BY KeepAtStays
  <2>3. Serves(p, k, D, g, code)
    BY <1>b
  <2>4. Serves(p, k, D, g, KeepAt(code, P))
    BY <2>3, DceRoundServes
  <2> HIDE DEF Round, P
  <2>5. QED
    BY <2>1, <2>2, <2>4
<1>3. Dce(body) = run[n].x
  BY DEF Dce, Saturate, Walk
<1> HIDE DEF Good, S, Round
<1>1. n \in Nat /\ base \in C
  BY <1>a
<1>2. \A u \in C, q \in 1 .. n : op(u, q) \in C
  <2>1. TAKE u \in C, q \in 1 .. n
  <2>2. Round(u.x) \in {code \in Seq(S) : Good(code)}
    BY <1>b
  <2>3. QED
    BY <2>2
<1> HIDE DEF op, C, n, base
<1> DEFINE H == [z \in C \X (1 .. n) |-> op(z[1], z[2])]
<1>4. H \in [C \X (1 .. n) -> C] /\ \A u \in C, q \in 1 .. n : H[<<u, q>>] = op(u, q)
  BY <1>2
<1> HIDE DEF H
<1>5. PICK f \in [0 .. n -> C] : Walks(f, n, base, H)
  BY <1>1, <1>4, WalkExists
<1>6. Is(f)
  <2>1. ASSUME NEW q \in 1 .. n PROVE q - 1 \in 0 .. n /\ q # 0 /\ f[q] = op(f[q - 1], q)
    <3>1. q - 1 \in 0 .. n /\ q # 0
      BY <1>1
    <3>2. f[q - 1] \in C
      BY <3>1
    <3>3. QED
      BY <1>4, <1>5, <3>1, <3>2 DEF Walks
  <2>2. \A q \in 0 .. n : q # 0 => q \in 1 .. n
    BY <1>1
  <2>3. f[0] = base
    BY <1>5 DEF Walks
  <2>4. QED
    BY <2>1, <2>2, <2>3
<1>7. Is(run)
  BY <1>6
<1> HIDE DEF run
<1>8. run[0] = base /\ \A q \in 1 .. n : run[q] = op(run[q - 1], q)
  <2>1. 0 \in 0 .. n /\ \A q \in 1 .. n : q \in 0 .. n /\ q # 0
    BY <1>1
  <2>2. run[0] = base
    BY <1>7, <2>1
  <2>3. ASSUME NEW q \in 1 .. n PROVE run[q] = op(run[q - 1], q)
    <3>1. run[q] = CHOOSE v \in {op(u, q) : u \in {run[q - 1]}} : TRUE
      BY <1>7, <2>1
    <3>2. QED
      BY <3>1
  <2>4. QED
    BY <2>2, <2>3
<1>9. \A q \in 0 .. n : run[q] \in C
  <2>1. \A q \in 1 .. n : run[q - 1] \in C => run[q] \in C
    BY <1>2, <1>8
  <2>2. run[0] \in C
    BY <1>1, <1>8
  <2>3. QED
    BY <1>1, <2>1, <2>2, WalkStays
<1>10. run[n].x \in {code \in Seq(S) : Good(code)}
  BY <1>1, <1>9 DEF C
<1>11. KeepsOutcome(p, WithBody(p, k, run[n].x), g)
  BY <1>10 DEF Good, Serves
<1> HIDE DEF n
<1>12. QED
  BY <1>3, <1>11 DEF KeepsOutcome


-----------------------------------------------------------------------------
(* Branches that are known to go one way. *)

\* The branch i goes by what is known; where that is nowhere, it is left out.
Decided(i, known) == i.op = "Branch" /\ i.lhs \in DOMAIN known
Side(i, known) == IF known[i.lhs] = 0 THEN i.falseLabel ELSE i.label

\* what branchFoldPass leaves of i
Turned(i, known) ==
    IF Decided(i, known) THEN Goto(Side(i, known))
    ELSE IF StopsAt(i, known) THEN Const(i.dest, Undef) ELSE i

\* what it turns every instruction into, and where it leaves one
Turning(K, body) == [j \in 1 .. Len(body) |-> Turned(body[j], K[j - 1])]
Staying(K, body) ==
    {j \in 1 .. Len(body) : ~(Decided(body[j], K[j - 1]) /\ Side(body[j], K[j - 1]) = NoLabel)}

LEMMA TurnedIn ==
    ASSUME NEW c, IsContext(c), c.values = Constants, NEW m \in Nat, NEW i \in Code(c, m), NEW known
    PROVE  Turned(i, known) \in Code(c, m)
<1>1. CASE Decided(i, known)
  <2>1. i.label \in c.labels /\ i.falseLabel \in c.labels
    BY DEF Code, Instructions
  <2>2. Goto(i.label) \in Code(c, m) /\ Goto(i.falseLabel) \in Code(c, m)
    BY <2>1, Constructed
  <2>3. QED
    BY <1>1, <2>2 DEF Turned, Side
<1>2. CASE ~Decided(i, known) /\ StopsAt(i, known)
  <2>1. i.op \in {"Move", "Unary", "Binary"}
    BY <1>2 DEF StopsAt, Foldable
  <2>2. i \in Instructions(c) /\ i \in Code(c, m)
    BY DEF Code
  <2>3. i.dest \in Slots(m)
    BY <2>1, <2>2, CodeIs
  <2>4. Undef \in c.values
    BY DEF Constants
  <2>5. Const(i.dest, Undef) \in Code(c, m)
    BY <2>3, <2>4, Constructed
  <2>6. QED
    BY <1>2, <2>5 DEF Turned
<1>3. CASE ~Decided(i, known) /\ ~StopsAt(i, known)
  BY <1>3 DEF Turned
<1>4. QED
  BY <1>1, <1>2, <1>3

LEMMA BranchFoldIs ==
    ASSUME NEW c, IsContext(c), c.values = Constants, NEW m \in Nat, NEW body \in Seq(Code(c, m))
    PROVE  \E K \in [0 .. Len(body) -> Known(m)] :
              /\ Knows(K, body)
              /\ Leaves(BranchFold(body), Turning(K, body), Staying(K, body), Len(body))
<1> DEFINE Folded(i, known) ==
              IF i.op = "Branch" /\ i.lhs \in DOMAIN known
              THEN LET target == IF known[i.lhs] = 0 THEN i.falseLabel ELSE i.label
                   IN  IF target = NoLabel THEN <<>> ELSE <<Goto(target)>>
              ELSE <<IF StopsAt(i, known) THEN Const(i.dest, Undef) ELSE i>>
           n == Len(body)
           base == [known |-> Nothing, code |-> <<>>]
           op(acc, k) ==
              [known |-> IF IsControlBoundary(body[k]) THEN Nothing ELSE Learn(acc.known, body[k]),
               code  |-> acc.code \o Folded(body[k], acc.known)]
           S == Code(c, m)
           Is(f) == f = [k \in 0 .. n |-> IF k = 0 THEN base
                                        ELSE CHOOSE v \in {op(u, k) : u \in {f[k - 1]}} : TRUE]
           run == CHOOSE f : Is(f)
           C == [known : Known(m), code : Seq(S)]
<1>a. \A i, known : Folded(i, known) =
         IF Decided(i, known) /\ Side(i, known) = NoLabel THEN <<>> ELSE <<Turned(i, known)>>
  BY DEF Decided, Side, Turned
<1>1. n \in Nat /\ base \in C
  BY MapsAre DEF Known
<1>b. ASSUME NEW s \in Seq(S), NEW x \in S PROVE s \o <<x>> = Append(s, x) /\ s \o <<>> = s
  <2> HIDE DEF S
  <2>1. QED
    OBVIOUS
<1>c. ASSUME NEW u \in C, NEW k \in 1 .. n
      PROVE  LET i == body[k]
             IN  /\ Turned(i, u.known) \in S
                 /\ u.code \o Folded(i, u.known) =
                      IF Decided(i, u.known) /\ Side(i, u.known) = NoLabel THEN u.code
                      ELSE Append(u.code, Turned(i, u.known))
  <2>1. body[k] \in S /\ u.code \in Seq(S)
    OBVIOUS
  <2>2. Turned(body[k], u.known) \in S
    BY <2>1, TurnedIn
  <2>3. Folded(body[k], u.known) = IF Decided(body[k], u.known) /\ Side(body[k], u.known) = NoLabel
                                    THEN <<>> ELSE <<Turned(body[k], u.known)>>
    BY <1>a
  <2> HIDE DEF Folded, S
  <2>4. QED
    BY <1>b, <2>1, <2>2, <2>3
<1>2. \A u \in C, k \in 1 .. n : op(u, k) \in C
  <2>1. TAKE u \in C, k \in 1 .. n
  <2>2. body[k] \in S /\ u.known \in Known(m) /\ u.code \in Seq(S)
    OBVIOUS
  <2>3. Nothing \in Known(m)
    BY MapsAre DEF Known
  <2>4. Learn(u.known, body[k]) \in Known(m)
    BY <2>2, LearnStays
  <2> HIDE DEF Folded, S
  <2>5. u.code \o Folded(body[k], u.known) \in Seq(S)
    <3> DEFINE t == Turned(body[k], u.known)
               v == u.code \o Folded(body[k], u.known)
    <3>1. t \in S /\ (v = u.code \/ v = Append(u.code, t))
      BY <1>c
    <3> HIDE DEF t, v
    <3>2. v \in Seq(S)
      BY <2>2, <3>1
    <3>3. QED
      BY <3>2 DEF v
  <2>6. QED
    BY <2>2, <2>3, <2>4, <2>5
<1>3. BranchFold(body) = run[n].code
  BY DEF BranchFold, Walk
<1> HIDE DEF Folded, S
<1> HIDE DEF op, C, n, base
<1> DEFINE H == [z \in C \X (1 .. n) |-> op(z[1], z[2])]
<1>4. H \in [C \X (1 .. n) -> C] /\ \A u \in C, k \in 1 .. n : H[<<u, k>>] = op(u, k)
  BY <1>2
<1> HIDE DEF H
<1>5. PICK f \in [0 .. n -> C] : Walks(f, n, base, H)
  BY <1>1, <1>4, WalkExists
<1>6. Is(f)
  <2>1. ASSUME NEW k \in 1 .. n PROVE k - 1 \in 0 .. n /\ k # 0 /\ f[k] = op(f[k - 1], k)
    <3>1. k - 1 \in 0 .. n /\ k # 0
      BY <1>1
    <3>2. f[k - 1] \in C
      BY <3>1
    <3>3. QED
      BY <1>4, <1>5, <3>1, <3>2 DEF Walks
  <2>2. \A k \in 0 .. n : k # 0 => k \in 1 .. n
    BY <1>1
  <2>3. f[0] = base
    BY <1>5 DEF Walks
  <2>4. QED
    BY <2>1, <2>2, <2>3
<1>7. Is(run)
  BY <1>6
<1> HIDE DEF run
<1>8. run[0] = base /\ \A k \in 1 .. n : run[k] = op(run[k - 1], k)
  <2>1. 0 \in 0 .. n /\ \A k \in 1 .. n : k \in 0 .. n /\ k # 0
    BY <1>1
  <2>2. run[0] = base
    BY <1>7, <2>1
  <2>3. ASSUME NEW k \in 1 .. n PROVE run[k] = op(run[k - 1], k)
    <3>1. run[k] = CHOOSE v \in {op(u, k) : u \in {run[k - 1]}} : TRUE
      BY <1>7, <2>1
    <3>2. QED
      BY <3>1
  <2>4. QED
    BY <2>2, <2>3
<1>9. \A k \in 0 .. n : run[k] \in C
  <2>1. \A k \in 1 .. n : run[k - 1] \in C => run[k] \in C
    BY <1>2, <1>8
  <2>2. run[0] \in C
    BY <1>1, <1>8
  <2>3. QED
    BY <1>1, <2>1, <2>2, WalkStays
<1> DEFINE K == [k \in 0 .. n |-> run[k].known]
           code == [k \in 0 .. n |-> run[k].code]
           x == Turning(K, body)
           P == Staying(K, body)
<1>10. \A k \in 1 .. n : k - 1 \in 0 .. n /\ k \in 0 .. n
  BY <1>1
<1>11. ASSUME NEW k \in 0 .. n PROVE run[k].known \in Known(m) /\ run[k].code \in Seq(S)
  BY <1>9 DEF C
<1>12. run[0].known = Nothing /\ run[0].code = <<>>
  BY <1>8 DEF base
<1>13. ASSUME NEW k \in 1 .. n
       PROVE  /\ run[k].known = IF IsControlBoundary(body[k]) THEN Nothing
                                ELSE Learn(run[k - 1].known, body[k])
              /\ run[k].code = IF /\ Decided(body[k], run[k - 1].known)
                                  /\ Side(body[k], run[k - 1].known) = NoLabel
                               THEN run[k - 1].code
                               ELSE Append(run[k - 1].code, Turned(body[k], run[k - 1].known))
  <2>1. run[k] = op(run[k - 1], k) /\ run[k - 1] \in C
    BY <1>8, <1>9, <1>10
  <2>2. /\ run[k].known = IF IsControlBoundary(body[k]) THEN Nothing
                          ELSE Learn(run[k - 1].known, body[k])
        /\ run[k].code = run[k - 1].code \o Folded(body[k], run[k - 1].known)
    <3> DEFINE u == IF IsControlBoundary(body[k]) THEN Nothing ELSE Learn(run[k - 1].known, body[k])
               v == run[k - 1].code \o Folded(body[k], run[k - 1].known)
    <3>1. run[k] = [known |-> u, code |-> v]
      BY <2>1 DEF op
    <3> HIDE DEF u, v
    <3>2. run[k].known = u /\ run[k].code = v
      BY <3>1
    <3>3. QED
      BY <3>2 DEF u, v
  <2>3. QED
    BY <1>c, <2>1, <2>2
<1> HIDE DEF run
<1>14. K \in [0 .. n -> Known(m)]
  BY <1>11
<1>15. Knows(K, body)
  <2>1. 0 \in 0 .. n
    BY <1>1
  <2>2. K[0] = Nothing
    BY <1>12, <2>1
  <2>3. \A k \in 1 .. n :
            K[k] = IF IsControlBoundary(body[k]) THEN Nothing ELSE Learn(K[k - 1], body[k])
    BY <1>10, <1>13
  <2> HIDE DEF K
  <2>4. QED
    BY <2>2, <2>3 DEF Knows, n
<1>16. Leaving(code, x, P, n, S)
  <2>1. 0 \in 0 .. n
    BY <1>1
  <2>2. code[0] = <<>> /\ \A k \in 0 .. n : code[k] \in Seq(S)
    BY <1>11, <1>12, <2>1
  <2>3. ASSUME NEW k \in 1 .. n PROVE code[k] = IF k \in P THEN Append(code[k - 1], x[k]) ELSE code[k - 1]
    <3>1. K[k - 1] = run[k - 1].known /\ code[k] = run[k].code /\ code[k - 1] = run[k - 1].code
      BY <1>10
    <3> HIDE DEF K, code
    <3>2. x[k] = Turned(body[k], K[k - 1])
      BY DEF Turning, n
    <3>3. k \in P <=> ~(Decided(body[k], K[k - 1]) /\ Side(body[k], K[k - 1]) = NoLabel)
      BY DEF Staying, n
    <3> HIDE DEF x, P
    <3>4. QED
      BY <1>13, <3>1, <3>2, <3>3
  <2> HIDE DEF code, x, P
  <2>4. QED
    BY <2>2, <2>3 DEF Leaving
<1>17. code[n] = BranchFold(body)
  <2>1. n \in 0 .. n
    BY <1>1
  <2>2. QED
    BY <1>3, <2>1
<1>18. P \in SUBSET (1 .. n)
  BY DEF Staying, n
<1> HIDE DEF code, x, K, P
<1>19. Leaves(code[n], x, P, n)
  BY <1>1, <1>16, <1>18, LeavingIs
<1>20. QED
  BY <1>14, <1>15, <1>17, <1>19 DEF n, x, P


\* Nothing is known to be what a division that stopped the compiler would have given.
Sane(K, n) == \A j \in 0 .. n : \A s \in DOMAIN K[j] : K[j][s] # Undef

LEMMA LearnSane ==
    ASSUME NEW known, NEW i, \A s \in DOMAIN known : known[s] # Undef,
           i.op = "Const" => i.value # Undef, ~StopsAt(i, known)
    PROVE  \A s \in DOMAIN Learn(known, i) : Learn(known, i)[s] # Undef
<1> DEFINE k == Forget(known, i.dest)
<1>1. \A s \in DOMAIN k : k[s] # Undef
  BY DEF Forget
<1>2. \A v : v # Undef => \A s \in DOMAIN Bind(k, i.dest, v) : Bind(k, i.dest, v)[s] # Undef
  <2> HIDE DEF k
  <2>1. QED
    BY <1>1 DEF Bind
<1> HIDE DEF k
<1>3. CASE i.op = "Const"
  <2>1. Learn(known, i) = Bind(k, i.dest, i.value)
    BY <1>3 DEF Learn, Foldable, k
  <2>2. QED
    BY <1>2, <1>3, <2>1
<1>4. CASE i.op # "Const" /\ Foldable(i, k)
  <2>1. Learn(known, i) = Bind(k, i.dest, FoldedValue(i, k))
    BY <1>4 DEF Learn, k
  <2>2. FoldedValue(i, k) # Undef
    BY <1>4 DEF StopsAt, k
  <2>3. QED
    BY <1>2, <2>1, <2>2
<1>5. CASE i.op # "Const" /\ ~Foldable(i, k)
  <2>1. Learn(known, i) = k
    BY <1>5 DEF Learn, k
  <2>2. QED
    BY <1>1, <2>1
<1>6. QED
  BY <1>3, <1>4, <1>5

LEMMA StaysSane ==
    ASSUME NEW body, Len(body) \in Nat, NEW K, Knows(K, body),
           \A n \in 1 .. Len(body) : /\ body[n].op = "Const" => body[n].value # Undef
                                     /\ ~StopsAt(body[n], K[n - 1])
    PROVE  Sane(K, Len(body))
<1> DEFINE n == Len(body)
           S == {x \in {K[j] : j \in 0 .. n} : \A s \in DOMAIN x : x[s] # Undef}
<1>1. K[0] \in S
  <2>1. 0 \in 0 .. n /\ K[0] = Nothing /\ DOMAIN Nothing = {}
    BY DEF Knows, Nothing
  <2>2. QED
    BY <2>1
<1>2. ASSUME NEW k \in 1 .. n, K[k - 1] \in S PROVE K[k] \in S
  <2>1. k \in 0 .. n
    OBVIOUS
  <2>2. K[k] = IF IsControlBoundary(body[k]) THEN Nothing ELSE Learn(K[k - 1], body[k])
    BY DEF Knows
  <2>3. \A s \in DOMAIN K[k - 1] : K[k - 1][s] # Undef
    BY <1>2
  <2>4. \A s \in DOMAIN Learn(K[k - 1], body[k]) : Learn(K[k - 1], body[k])[s] # Undef
    BY <2>3, LearnSane
  <2>5. \A s \in DOMAIN K[k] : K[k][s] # Undef
    BY <2>2, <2>4 DEF Nothing
  <2>6. QED
    BY <2>1, <2>5
<1> HIDE DEF S
<1>3. \A k \in 0 .. n : K[k] \in S
  BY <1>1, <1>2, WalkStays
<1>4. QED
  BY <1>3 DEF Sane, S

\* Jumping where a known branch goes, or falling through with it (branchFoldPass).
THEOREM BranchFoldKeeps ==
    ASSUME NEW p, NEW k, NEW D, Comparable(p, k, D), LabelsDistinct(p.functions[k].body),
           NEW g \in Memories(D),
           LET folded == WithBody(p, k, BranchFold(p.functions[k].body))
           IN  ~Stopped(folded.functions[k])
    PROVE  LET folded == WithBody(p, k, BranchFold(p.functions[k].body))
           IN  Outcome(p, g) # Undef => Outcome(folded, g) = Outcome(p, g)
<1> DEFINE fn == p.functions[k]
           c == Allowed(p, k)
           m == fn.slotCount
           body == fn.body
           N == Len(body)
           code == BranchFold(body)
           f == [fn EXCEPT !.body = code]
           U == Slots(m)
<1>1. /\ IsContext(c) /\ c.values = Constants /\ m \in Nat /\ N \in Nat
      /\ DOMAIN body = 1 .. N /\ body \in Seq(Code(c, m))
      /\ \A n \in 1 .. N : Sound(body[n], m, Arity(p), D)
  BY AllowedIs
<1>2. Covers(Anything(fn), fn, D) /\ \A n \in 1 .. N : Reads(body[n]) \subseteq U
  BY AnythingCovers
<1>3. LabelsDistinct(body) /\ \A n \in 1 .. N : body[n].op = "Const" => body[n].value # Undef
  BY <1>1 DEF Comparable, Stopped
<1>4. code \in Seq(Code(c, m))
  <2> HIDE DEF c, m, body
  <2>1. QED
    BY <1>1, BranchFoldStays
<1>5. f.body = code /\ f.slotCount = m /\ f.params = fn.params
  <2> HIDE DEF code
  <2>1. QED
    BY <1>4, BodyStands DEF Stands
<1>6. ~Stopped(f)
  <2>1. Becomes(p, WithBody(p, k, code), k, f)
    <3> HIDE DEF code
    <3>1. QED
      BY <1>4, BodyIs DEF f
  <2>2. QED
    BY <2>1 DEF Becomes
<1> HIDE DEF c, m, body, code, f
<1>7. PICK K \in [0 .. N -> Known(m)] :
         Knows(K, body) /\ Leaves(code, Turning(K, body), Staying(K, body), N)
  BY <1>1, BranchFoldIs DEF code
<1> DEFINE P == Staying(K, body)
           E == Envs(m)
           X == Holding(K, body, E)
           F == Before(X, body, E)
<1>8. PICK r : Left(code, P, N, r) /\ \A j \in P : code[r[j]] = Turning(K, body)[j]
  BY <1>7 DEF Leaves
<1>9. DOMAIN code = 1 .. Len(code) /\ Len(code) \in Nat
  BY <1>4
<1>10. ASSUME NEW n \in P PROVE n \in 1 .. N /\ r[n] \in DOMAIN code /\ code[r[n]] = Turned(body[n], K[n - 1])
  <2>1. n \in 1 .. N
    BY DEF Staying
  <2>2. r[n] \in 1 .. Len(code)
    BY <1>8 DEF Left
  <2>3. Turning(K, body)[n] = Turned(body[n], K[n - 1])
    BY <2>1 DEF Turning
  <2>4. QED
    BY <1>8, <1>9, <2>1, <2>2, <2>3
<1>11. ASSUME NEW n \in 1 .. N PROVE ~StopsAt(body[n], K[n - 1])
  <2>1. SUFFICES ASSUME StopsAt(body[n], K[n - 1]) PROVE FALSE
    OBVIOUS
  <2>2. ~Decided(body[n], K[n - 1])
    BY <2>1 DEF StopsAt, Foldable, Decided
  <2>3. n \in P
    BY <2>2 DEF Staying
  <2>4. code[r[n]] = Const(body[n].dest, Undef) /\ r[n] \in DOMAIN code
    BY <1>10, <2>1, <2>2, <2>3 DEF Turned
  <2>5. code[r[n]].op = "Const" /\ code[r[n]].value = Undef
    BY <2>4 DEF Const, Blank
  <2>6. QED
    BY <1>5, <1>6, <2>4, <2>5 DEF Stopped
<1>12. Sane(K, N)
  BY <1>1, <1>3, <1>7, <1>11, StaysSane
<1>13. Covers(F, fn, D)
  <2>1. Carries(X, body, E, D)
    BY <1>1, <1>7, HoldingCarries
  <2> HIDE DEF X
  <2>2. QED
    BY <1>1, <2>1, BeforeCovers DEF body, m
<1>14. ASSUME NEW n \in 1 .. N, Decided(body[n], K[n - 1]), NEW a \in F[n], a[body[n].lhs] # Undef
       PROVE  Side(body[n], K[n - 1]) = IF a[body[n].lhs] # 0 THEN body[n].label ELSE body[n].falseLabel
  <2>1. n \in 1 .. N + 1 /\ n - 1 \in 0 .. N
    BY <1>1
  <2>2. body[n].op # "Label"
    BY <1>14 DEF Decided
  <2>3. F[n] = X[n - 1]
    BY <2>1, <2>2 DEF Before
  <2>4. X[n - 1] = {b \in E : Holds(K[n - 1], b)}
    BY <2>1 DEF Holding
  <2>5. Holds(K[n - 1], a)
    <3> HIDE DEF F, X, E
    <3>1. QED
      BY <1>14, <2>3, <2>4
  <2>6. body[n].lhs \in DOMAIN K[n - 1] /\ K[n - 1][body[n].lhs] # Undef
    BY <1>12, <1>14, <2>1 DEF Sane, Decided
  <2>7. a[body[n].lhs] = K[n - 1][body[n].lhs]
    BY <1>14, <2>5, <2>6 DEF Holds, Below
  <2>8. QED
    BY <2>7 DEF Side
<1> HIDE DEF F, X, E
<1>15. ASSUME NEW n \in 1 .. N
       PROVE  /\ Sound(body[n], m, Arity(p), D) /\ Reads(body[n]) \subseteq U
              /\ body[n].op = "Label" /\ F[n] # {} => n \in P
              /\ n \in P => code[r[n]] = body[n] \/ Decides(body[n], code[r[n]], F[n])
              /\ n \notin P => Idle(body, n, r, F[n], U)
  <2>1. n \in P <=> ~(Decided(body[n], K[n - 1]) /\ Side(body[n], K[n - 1]) = NoLabel)
    BY DEF Staying
  <2>2. body[n].op = "Label" => n \in P
    BY <2>1 DEF Decided
  <2>3. ASSUME n \in P PROVE code[r[n]] = body[n] \/ Decides(body[n], code[r[n]], F[n])
    <3>1. CASE ~Decided(body[n], K[n - 1])
      BY <1>10, <1>11, <2>3, <3>1 DEF Turned
    <3>2. CASE Decided(body[n], K[n - 1])
      <4>1. code[r[n]] = Goto(Side(body[n], K[n - 1])) /\ Side(body[n], K[n - 1]) # NoLabel
        BY <1>10, <2>1, <2>3, <3>2 DEF Turned
      <4>2. code[r[n]].op = "Goto" /\ code[r[n]].label = Side(body[n], K[n - 1])
        BY <4>1 DEF Goto, Blank
      <4>3. body[n].op = "Branch"
        BY <3>2 DEF Decided
      <4>4. QED
        BY <1>14, <3>2, <4>1, <4>2, <4>3 DEF Decides
    <3>3. QED
      BY <3>1, <3>2
  <2>4. ASSUME n \notin P PROVE Idle(body, n, r, F[n], U)
    <3>1. Decided(body[n], K[n - 1]) /\ Side(body[n], K[n - 1]) = NoLabel /\ body[n].op = "Branch"
      BY <2>1, <2>4 DEF Decided
    <3>2. ASSUME NEW a \in F[n], NEW G, NEW z \in Goes(body, n, a, G) PROVE r[z[1]] = r[n]
      <4> DEFINE l == IF a[body[n].lhs] # 0 THEN body[n].label ELSE body[n].falseLabel
      <4>1. a[body[n].lhs] # Undef /\ \E q \in Lands(body, n, l) : z = <<q, a>>
        BY <3>1, <3>2 DEF Goes, DefinesSlot
      <4>2. l = NoLabel
        BY <1>14, <3>1, <4>1
      <4>3. z = <<n + 1, a>>
        BY <4>1, <4>2 DEF Lands
      <4>4. r[n + 1] = r[n]
        BY <1>8, <2>4 DEF Left
      <4>5. QED
        BY <4>3, <4>4
    <3>3. QED
      BY <3>1, <3>2 DEF Idle
  <2> HIDE DEF P
  <2>5. QED
    BY <1>1, <1>2, <2>2, <2>3, <2>4
<1>16. Shortens(fn, f, r, P, F, U, Arity(p), D)
  <2>1. P \subseteq 1 .. N /\ U \subseteq Slots(m)
    BY DEF Staying
  <2> HIDE DEF P, U
  <2>2. QED
    BY <1>1, <1>3, <1>5, <1>8, <1>9, <1>13, <1>15, <2>1 DEF Shortens, body, m
<1>17. KeepsOutcome(p, WithBody(p, k, code), g)
  <2> HIDE DEF P, U
  <2>1. QED
    BY <1>4, <1>16, ShorterKeeps DEF f, c, m
<1>18. QED
  BY <1>17 DEF KeepsOutcome, code, body


-----------------------------------------------------------------------------
(* Functions that are never called. *)

\* Leaving out the functions that main does not get to (deadFunctionElimination): a call
\* from one that stays names one that stays.
THEOREM LiveFunctionsKeep ==
    ASSUME NEW p, IsProgram(p), NEW D, AllLoadsIn(p, D), Len(FunctionNamed(p, "main").params) = 0,
           NEW g \in Memories(D)
    PROVE  Outcome(p, g) # Undef => Outcome(LiveFunctions(p), g) = Outcome(p, g)
<1> DEFINE q == LiveFunctions(p)
           names == FunctionNames(q)
<1>1. /\ IsProgram(q) /\ names \subseteq FunctionNames(p)
      /\ \A f \in names : FunctionNamed(q, f) = FunctionNamed(p, f)
      /\ \A k \in DOMAIN q.functions : \E j \in DOMAIN p.functions : q.functions[k] = p.functions[j]
  BY LiveIs
<1> HIDE DEF q
<1>2. "main" \in names
  BY <1>1 DEF IsProgram
<1>3. AllLoadsIn(q, D)
  BY <1>1 DEF AllLoadsIn
<1> DEFINE V == [f \in names |-> Beside(Anything(FunctionNamed(q, f)), Envs(FunctionNamed(q, f).slotCount))]
<1>4. ASSUME NEW f \in names PROVE Follows(FunctionNamed(p, f), FunctionNamed(q, f), V[f], D, names)
  <2> DEFINE fn == FunctionNamed(q, f)
  <2>1. V[f] = Beside(Anything(fn), Envs(fn.slotCount))
    OBVIOUS
  <2>2. Follows(fn, fn, Beside(Anything(fn), Envs(fn.slotCount)), D, names)
    BY <1>1, <1>3, FollowsSelf
  <2> HIDE DEF V, fn, names
  <2>3. Follows(fn, fn, V[f], D, names)
    BY <2>1, <2>2
  <2>4. FunctionNamed(p, f) = fn
    BY <1>1 DEF fn
  <2>5. QED
    BY <2>3, <2>4 DEF fn
<1> HIDE DEF V
<1>5. FollowsAll(p, q, V, D, names)
  BY <1>1, <1>2, <1>4 DEF FollowsAll
<1>6. Len(FunctionNamed(q, "main").params) = 0
  BY <1>1, <1>2
<1>7. Outcome(p, g) # Undef => Outcome(q, g) = Outcome(p, g)
  BY <1>5, <1>6, Followed
<1>8. QED
  BY <1>7 DEF q


-----------------------------------------------------------------------------
(* In optimizeProgram. *)

\* What is observed of the program: for each start of the globals, what it returns.
\* It loads no globals but those in D.
Watched(D) ==
    /\ LoadedIn(prog) \subseteq D
    /\ Len(FunctionNamed(prog, "main").params) = 0
    /\ DOMAIN does \subseteq Memories(D)
    /\ does = Results(prog, DOMAIN does)
    /\ pass \in Nat

\* A step that changes the program looks at what it returns now.
LEMMA StepsObserve ==
    ASSUME IInv, [Next]_vars
    PROVE  /\ IInv' /\ NothingNew
           /\ does' = Results(prog', DOMAIN does) \/ (prog' = prog /\ does' = does)
           /\ pass \in Nat => pass' \in Nat
<1> USE DEF Once
<1>1. CASE RunPass
  <2>1. IInv' /\ NothingNew
    BY <1>1, PassKeeps
  <2>2. stage \in Sweeps /\ \E fn : After(fn)
    BY <1>1 DEF RunPass, RunTailCall, RunGlobalConstProp, RunGlobalCopyProp, RunGlobalCse, RunConstFold,
         RunBranchFold, RunDeadBlock, RunGotoCleanup, RunCopyProp, RunCse, RunCopyCoalesce,
         RunInstCombine, RunLicm, RunLoopSumElim, RunDce, Turn
  <2>3. PICK fn : After(fn)
    BY <2>2
  <2>4. CASE changed'
    BY <2>1, <2>3, <2>4 DEF After, Observe
  <2>a. pass \in Nat => pass' \in Nat
    BY <2>3 DEF After
  <2>5. CASE ~changed'
    <3>1. fn = Current /\ does' = does /\ prog' = [prog EXCEPT !.functions[at] = fn]
      BY <2>3, <2>5 DEF After, Observe
    <3>2. prog = [functions |-> prog.functions] /\ IsList(prog.functions) /\ Current = prog.functions[at]
      BY DEF IInv, IsProgram, Current
    <3>3. prog' = prog
      BY <3>1, <3>2, SameAgain
    <3>4. QED
      BY <2>1, <2>a, <3>1, <3>3
  <2>6. QED
    BY <2>4, <2>5
<1>2. CASE Inline
  <2>1. IInv' /\ NothingNew /\ (changed' \/ prog' = prog)
    BY <1>2, InlineKeeps
  <2>2. Observe /\ pass' = pass
    BY <1>2 DEF Inline
  <2>3. QED
    BY <2>1, <2>2 DEF Observe
<1>3. CASE RemoveDead
  <2>1. IInv' /\ NothingNew
    BY <1>3, RemoveDeadKeeps
  <2>2. does' = Results(prog', DOMAIN does) /\ pass' = 1
    BY <1>3 DEF RemoveDead, Observe, Enter
  <2>3. QED
    BY <2>1, <2>2
<1>4. CASE \/ Again \/ NextFunction \/ EndSweep \/ EndInline \/ EndFinal \/ Finished \/ UNCHANGED vars
  <2>1. IInv'
    BY <1>4, RestKeeps, StutterKeeps
  <2>2. prog' = prog /\ does' = does
    BY <1>4 DEF Again, NextFunction, EndSweep, EndInline, EndFinal, Finished, Enter, vars
  <2>3. NothingNew
    BY <2>2 DEF NothingNew
  <2>4. pass' \in {pass, 1, Len(Once) + 1}
    BY <1>4 DEF Again, NextFunction, EndSweep, EndInline, EndFinal, Finished, Enter, vars
  <2>5. QED
    BY <2>1, <2>2, <2>3, <2>4
<1>5. QED
  BY <1>1, <1>2, <1>3, <1>4 DEF Next

LEMMA StaysWatched ==
    ASSUME NEW D, IInv, Watched(D), [Next]_vars
    PROVE  IInv' /\ Watched(D)'
<1>1. /\ IInv' /\ NothingNew
      /\ does' = Results(prog', DOMAIN does) \/ (prog' = prog /\ does' = does)
      /\ pass \in Nat => pass' \in Nat
  BY StepsObserve
<1>2. DOMAIN does' = DOMAIN does /\ does' = Results(prog', DOMAIN does')
  <2>1. DOMAIN Results(prog', DOMAIN does) = DOMAIN does
    BY DEF Results
  <2>2. QED
    BY <1>1, <2>1 DEF Watched
<1>3. QED
  BY <1>1, <1>2 DEF Watched, NothingNew

LEMMA WatchedLoads ==
    ASSUME NEW D, IInv, Watched(D)
    PROVE  AllLoadsIn(prog, D)
<1>1. ASSUME NEW k \in DOMAIN prog.functions, NEW n \in DOMAIN prog.functions[k].body,
             prog.functions[k].body[n].op = "LoadGlobal"
      PROVE  prog.functions[k].body[n].name \in D
  <2>1. prog.functions[k].body[n].name \in LoadedIn(prog)
    BY <1>1, WordsOfProgram DEF IInv
  <2>2. QED
    BY <2>1 DEF Watched
<1>2. QED
  BY <1>1 DEF AllLoadsIn, LoadsIn

\* A pass over one function that keeps what the program returns unless it has stopped.
LEMMA KeptByPass ==
    ASSUME NEW D, IInv, Watched(D), stage \in Sweeps, NEW code, After(OnBody(code)), stage' # "stopped",
           \A g \in Memories(D) :
              /\ Comparable(prog, at, D)
              /\ ~Stopped(WithBody(prog, at, code).functions[at])
              => (Outcome(prog, g) # Undef => Outcome(WithBody(prog, at, code), g) = Outcome(prog, g))
    PROVE  \A g \in DOMAIN does : does[g] # Undef => does'[g] = does[g]
<1>1. /\ at \in DOMAIN prog.functions /\ stage # "stopped" /\ IsProgram(prog)
      /\ Current = prog.functions[at]
  BY SweepIsAt DEF IInv, Current
<1>2. prog' = WithBody(prog, at, code) /\ ~Stopped(OnBody(code))
  BY <1>1 DEF After, OnBody, WithBody
<1>3. WithBody(prog, at, code).functions[at] = OnBody(code)
  <2>1. prog = [functions |-> prog.functions]
    BY <1>1 DEF IsProgram
  <2> DEFINE fn == OnBody(code)
  <2>2. WithBody(prog, at, code) = [prog EXCEPT !.functions[at] = fn]
    BY <1>1 DEF WithBody, OnBody
  <2> HIDE DEF fn
  <2>3. [prog EXCEPT !.functions[at] = fn].functions[at] = fn
    BY <1>1, <2>1
  <2>4. QED
    BY <2>2, <2>3 DEF fn
<1>4. Comparable(prog, at, D)
  <2>1. AllLoadsIn(prog, D)
    BY WatchedLoads
  <2>2. QED
    BY <1>1, <2>1 DEF Comparable, Watched, IInv, NoneStopped
<1>5. ASSUME NEW g \in DOMAIN does, does[g] # Undef PROVE does'[g] = does[g]
  <2>1. /\ does[g] = Outcome(prog, g) /\ g \in Memories(D)
    BY DEF Watched, Results
  <2>2. Outcome(prog', g) = Outcome(prog, g)
    BY <1>2, <1>3, <1>4, <1>5, <2>1
  <2>3. does' = Results(prog', DOMAIN does) \/ does' = does
    BY DEF After, Observe
  <2>4. QED
    BY <2>1, <2>2, <2>3 DEF Results
<1>6. QED
  BY <1>5

\* While a pass is to run nothing else happens.
LEMMA RunsInTurn ==
    ASSUME Next, pass \in Nat, NEW f, Turn(f)
    PROVE  RunPass
<1>1. stage \in Sweeps /\ pass =< Len(Passes) /\ pass \in Nat /\ Len(Passes) \in Nat
  <2> DEFINE S == {Once[k] : k \in 1 .. 4} \cup {Repeated[k] : k \in 1 .. 11}
  <2>1. Once \in Seq(S) /\ Repeated \in Seq(S)
    BY DEF Once, Repeated
  <2>2. Len(Passes) \in Nat
    BY <2>1 DEF Passes
  <2>3. QED
    BY <2>2 DEF Turn
<1>2. ~RoundOver
  BY <1>1 DEF RoundOver
<1>3. ~(Again \/ NextFunction \/ EndSweep \/ EndFinal)
  BY <1>2 DEF Again, NextFunction, EndSweep, EndFinal, FunctionOver
<1>4. ~(Inline \/ EndInline \/ RemoveDead \/ Finished)
  BY <1>1 DEF Inline, EndInline, RemoveDead, Finished, Sweeps
<1>5. QED
  BY <1>3, <1>4 DEF Next

\* The passes that put a constant or another name for a slot.
Propagators == {"globalConstProp", "globalCopyProp", "constFold", "copyProp"}

LEMMA OnlyInTurn ==
    ASSUME Next, pass \in Nat, NEW f \in Propagators, Turn(f)
    PROVE  RunGlobalConstProp \/ RunGlobalCopyProp \/ RunConstFold \/ RunCopyProp
<1>1. RunPass /\ \E h \in Propagators : Passes[pass] = h
  BY RunsInTurn DEF Turn
<1>2. QED
  BY <1>1 DEF RunPass, RunTailCall, RunGlobalConstProp, RunGlobalCopyProp, RunGlobalCse,
       RunConstFold, RunBranchFold, RunDeadBlock, RunGotoCleanup, RunCopyProp, RunCse,
       RunCopyCoalesce, RunInstCombine, RunLicm, RunLoopSumElim, RunDce, Turn, Propagators

\* Whatever program optimizeProgram starts from that loads only the globals it is given, and
\* however often passes come round: folding constants and renaming copies, inside a block
\* (constFoldPass, copyPropPass) and across them (globalConstPropPass, globalCopyPropPass),
\* never changes what the program returns.
THEOREM PropagationIsKept ==
    ASSUME NEW D
    PROVE  Started /\ Watched(D) /\ [][Next]_vars => PropagationKept
<1>1. Started /\ Watched(D) => IInv /\ Watched(D)
  BY Starts
<1>2. IInv /\ Watched(D) /\ [Next]_vars => (IInv /\ Watched(D))'
  BY StaysWatched
<1>3. IInv /\ Watched(D) /\ [Next]_vars => [PropagationKeeps]_vars
  <2> SUFFICES ASSUME IInv, Watched(D), Next PROVE PropagationKeeps
    BY DEF PropagationKeeps
  <2> SUFFICES ASSUME NEW f \in Propagators, Turn(f), stage' # "stopped"
               PROVE  \A g \in DOMAIN does : does[g] # Undef => does'[g] = does[g]
    BY DEF PropagationKeeps, Propagators
  <2>1. CASE RunConstFold
    <3>1. After(OnBody(ConstFold(prog.functions[at].body))) /\ stage \in Sweeps
      BY <2>1 DEF RunConstFold, Turn, Current
    <3>2. QED
      BY <3>1, ConstFoldKeeps, KeptByPass
  <2>2. CASE RunCopyProp
    <3>1. After(OnBody(CopyProp(prog.functions[at].body))) /\ stage \in Sweeps
      BY <2>2 DEF RunCopyProp, Turn, Current
    <3>2. QED
      BY <3>1, CopyPropKeeps, KeptByPass
  <2>3. CASE RunGlobalConstProp
    <3>1. After(OnBody(GlobalConstProp(prog.functions[at].body))) /\ stage \in Sweeps
      BY <2>3 DEF RunGlobalConstProp, Turn, Current
    <3>2. QED
      BY <3>1, GlobalConstPropKeeps, KeptByPass
  <2>4. CASE RunGlobalCopyProp
    <3>1. After(OnBody(GlobalCopyProp(prog.functions[at].body))) /\ stage \in Sweeps
      BY <2>4 DEF RunGlobalCopyProp, Turn, Current
    <3>2. QED
      BY <3>1, GlobalCopyPropKeeps, KeptByPass
  <2>5. RunGlobalConstProp \/ RunGlobalCopyProp \/ RunConstFold \/ RunCopyProp
    BY OnlyInTurn DEF Watched
  <2>6. QED
    BY <2>1, <2>2, <2>3, <2>4, <2>5
<1>4. QED
  BY <1>1, <1>2, <1>3, PTL DEF PropagationKept

\* The passes of a round that leave instructions out.
Removers == {"branchFold", "deadBlock", "gotoCleanup", "dce"}

LEMMA OnlyRemoverInTurn ==
    ASSUME Next, pass \in Nat, NEW f \in Removers, Turn(f)
    PROVE  RunBranchFold \/ RunDeadBlock \/ RunGotoCleanup \/ RunDce
<1>1. RunPass /\ \E h \in Removers : Passes[pass] = h
  BY RunsInTurn DEF Turn
<1>2. QED
  BY <1>1 DEF RunPass, RunTailCall, RunGlobalConstProp, RunGlobalCopyProp, RunGlobalCse,
       RunConstFold, RunBranchFold, RunDeadBlock, RunGotoCleanup, RunCopyProp, RunCse,
       RunCopyCoalesce, RunInstCombine, RunLicm, RunLoopSumElim, RunDce, Turn, Removers

\* Whatever program optimizeProgram starts from that loads only the globals it is given, and
\* however often passes come round: deciding branches on constants (branchFoldPass), dropping
\* what control never gets to (deadBlockPass), jumps to the next instruction
\* (gotoCleanupPass), results that are not read (dcePass) and, at the end, functions that are
\* not called (deadFunctionElimination) never changes what the program returns, while no
\* label of the function is defined twice.
THEOREM RemovalIsKept ==
    ASSUME NEW D
    PROVE  Started /\ Watched(D) /\ [][Next]_vars => RemovalKept
<1>1. Started /\ Watched(D) => IInv /\ Watched(D)
  BY Starts
<1>2. IInv /\ Watched(D) /\ [Next]_vars => (IInv /\ Watched(D))'
  BY StaysWatched
<1>3. IInv /\ Watched(D) /\ [Next]_vars => [RemovalKeeps]_vars
  <2> SUFFICES ASSUME IInv, Watched(D), Next PROVE RemovalKeeps
    OBVIOUS
  <2>1. ASSUME NEW f \in Removers, Turn(f), LabelsDistinct(Current.body), stage' # "stopped"
        PROVE  \A g \in DOMAIN does : does[g] # Undef => does'[g] = does[g]
    <3> DEFINE body == prog.functions[at].body
    <3>1. LabelsDistinct(body)
      BY <2>1 DEF Current
    <3>2. CASE RunGotoCleanup
      <4>1. After(OnBody(GotoCleanup(prog.functions[at].body))) /\ stage \in Sweeps
        BY <3>2 DEF RunGotoCleanup, Turn, Current
      <4>2. QED
        BY <2>1, <3>1, <4>1, GotoCleanupKeeps, KeptByPass
    <3>3. CASE RunDeadBlock
      <4>1. After(OnBody(DeadBlock(prog.functions[at].body))) /\ stage \in Sweeps
        BY <3>3 DEF RunDeadBlock, Turn, Current
      <4>2. QED
        BY <2>1, <3>1, <4>1, DeadBlockKeeps, KeptByPass
    <3>4. CASE RunBranchFold
      <4>1. After(OnBody(BranchFold(prog.functions[at].body))) /\ stage \in Sweeps
        BY <3>4 DEF RunBranchFold, Turn, Current
      <4>2. QED
        BY <2>1, <3>1, <4>1, BranchFoldKeeps, KeptByPass
    <3>5. CASE RunDce
      <4>1. After(OnBody(Dce(prog.functions[at].body))) /\ stage \in Sweeps
        BY <3>5 DEF RunDce, Turn, Current
      <4>2. QED
        BY <2>1, <3>1, <4>1, DceKeeps, KeptByPass
    <3>6. RunBranchFold \/ RunDeadBlock \/ RunGotoCleanup \/ RunDce
      BY <2>1, OnlyRemoverInTurn DEF Watched
    <3>7. QED
      BY <3>2, <3>3, <3>4, <3>5, <3>6
  <2>2. ASSUME stage = "dead"
        PROVE  \A g \in DOMAIN does : does[g] # Undef => does'[g] = does[g]
    <3>1. RemoveDead
      <4>1. ~RunPass /\ ~Again /\ ~NextFunction
        BY <2>2 DEF RunPass, RunTailCall, RunGlobalConstProp, RunGlobalCopyProp, RunGlobalCse,
           RunConstFold, RunBranchFold, RunDeadBlock, RunGotoCleanup, RunCopyProp, RunCse,
           RunCopyCoalesce, RunInstCombine, RunLicm, RunLoopSumElim, RunDce, Turn, Sweeps,
           Again, NextFunction, RoundOver, FunctionOver
      <4>2. ~EndSweep /\ ~Inline /\ ~EndInline /\ ~EndFinal /\ ~Finished
        BY <2>2 DEF EndSweep, Inline, EndInline, EndFinal, Finished, Sweeps, RoundOver, FunctionOver
      <4>3. QED
        BY <4>1, <4>2 DEF Next
    <3>2. prog' = LiveFunctions(prog) /\ does' = Results(prog', DOMAIN does)
      BY <3>1 DEF RemoveDead, Observe
    <3>3. IsProgram(prog) /\ AllLoadsIn(prog, D) /\ Len(FunctionNamed(prog, "main").params) = 0
      BY WatchedLoads DEF IInv, Watched
    <3>4. ASSUME NEW g \in DOMAIN does, does[g] # Undef PROVE does'[g] = does[g]
      <4>1. g \in Memories(D) /\ does[g] = Outcome(prog, g)
        BY DEF Watched, Results
      <4>2. Outcome(LiveFunctions(prog), g) = Outcome(prog, g)
        BY <3>3, <3>4, <4>1, LiveFunctionsKeep
      <4>3. QED
        BY <3>2, <4>1, <4>2 DEF Results
    <3>5. QED
      BY <3>4
  <2>3. QED
    BY <2>1, <2>2 DEF RemovalKeeps, Removers
<1>4. QED
  BY <1>1, <1>2, <1>3, PTL DEF RemovalKept

=============================================================================
