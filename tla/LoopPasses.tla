----------------------------- MODULE LoopPasses -----------------------------
(***************************************************************************)
(* The two passes of src/ir/optim.cpp that work on while loops.  A loop is *)
(* found by its labels: the list from a "while_cond" label up to the       *)
(* "while_end" label that closes it, its body after the "while_body" label.*)
(***************************************************************************)
EXTENDS LocalPasses, FiniteSetsExt

The(S) == CHOOSE x \in S : TRUE

LabelOf(body, n, kind) == body[n].op = "Label" /\ body[n].label[1] = kind
Between(body, lo, hi, kind) == {n \in lo .. hi : LabelOf(body, n, kind)}

\* the end labels after c that close the loop opened at c
Closing(body, c) ==
    {e \in c + 1 .. Len(body) :
        /\ LabelOf(body, e, "while_end")
        /\ Cardinality(Between(body, c + 1, e - 1, "while_end"))
             = Cardinality(Between(body, c + 1, e - 1, "while_cond"))}

LoopHeads(body) ==
    {c \in DOMAIN body : LabelOf(body, c, "while_cond") /\ Closing(body, c) # {}}
LoopEnd(body, c) == Min(Closing(body, c))
BodyLabels(body, c) == Between(body, c + 1, LoopEnd(body, c) - 1, "while_body")

\* mutant: nothing is taken to be read behind a loop
ReadAfterNothing(body, n) == {}

ReadAfter(body, n) == UNION {Reads(body[m]) : m \in n + 1 .. Len(body)}

\* Pass applied at the first loop it changes, and again until it changes none.
\* A round takes an instruction or a loop out of a loop, so these are enough.
AtFirstLoop(x, heads, Pass(_)) ==
    LET hit == {c \in heads : Pass(c) # x}
    IN  IF hit = {} THEN x ELSE Pass(Min(hit))

-----------------------------------------------------------------------------
(* Loop-invariant code motion. *)

\* The positions that move in front of the loop at c.  A call counts as the
\* definition of its slot here; one that may write globals fixes everything
\* behind it; a slot that is read behind the loop stays.
Hoisted(body, c, pure) ==
    LET end     == LoopEnd(body, c)
        start   == (IF BodyLabels(body, c) = {} THEN c + 1 ELSE Min(BodyLabels(body, c))) + 1
        region  == start .. end - 1
        Defs(s) == {n \in region : /\ DefinesSlot(body[n]) \/ body[n].op = "Call"
                                   /\ body[n].dest = s}
        stored  == {body[n].name : n \in {m \in region : body[m].op = "StoreGlobal"}}
        BehindCall(n) == \E m \in start .. n - 1 : body[m].op = "Call" /\ body[m].name \notin pure
        Movable(n, out) ==
            /\ n \in region /\ DefinesSlot(body[n])
            /\ ~BehindCall(n)
            /\ Cardinality(Defs(body[n].dest)) = 1
            /\ ~(body[n].op = "LoadGlobal" /\ body[n].name \in stored)
            /\ body[n].dest \notin ReadAfter(body, end)
            /\ \A s \in Reads(body[n]) : Defs(s) \subseteq out
    IN  Walk(LAMBDA out, n : IF Movable(n, out) THEN out \cup {n} ELSE out, {}, Len(body))

Licm(body, pure) ==
    LET HoistAt(code, c) ==
            LET out == Hoisted(code, c, pure)
            IN  SubSeq(code, 1, c - 1)
                  \o KeepAt(code, out)
                  \o KeepAt(code, (c .. Len(code)) \ out)
        Round(code) == AtFirstLoop(code, LoopHeads(code), LAMBDA c : HoistAt(code, c))
    IN  Saturate(Round, body, 2 * Len(body))

-----------------------------------------------------------------------------
(* Summation loops in closed form.  Every slot of the body is a polynomial *)
(* q*i^2 + a*i + c in the induction variable i.  The limits the code puts  *)
(* on 64-bit intermediate values and on the trip count are not modelled:   *)
(* numbers here stay far below them.                                       *)

Poly(q, a, c) == [q |-> q, a |-> a, c |-> c]
IsConstPoly(p) == p.q = 0 /\ p.a = 0
Fits(p) == \A f \in DOMAIN p : Wrap(p[f]) = p[f]
NoPoly == Nothing

\* the polynomial of a binary operation, if it has one of degree two at most
Combined(oper, l, r) ==
    LET p == CASE oper = "add" -> Poly(l.q + r.q, l.a + r.a, l.c + r.c)
               [] oper = "sub" -> Poly(l.q - r.q, l.a - r.a, l.c - r.c)
               [] OTHER -> Poly(l.q * r.c + l.a * r.a + l.c * r.q,
                                l.a * r.c + l.c * r.a, l.c * r.c)
        quadratic == \/ IsConstPoly(l) \/ IsConstPoly(r)
                     \/ l.q = 0 /\ r.q = 0
        known == oper \in {"add", "sub"} \/ (oper = "mul" /\ quadratic)
    IN  IF known /\ Fits(p) THEN {p} ELSE {}

\* the polynomials of all slots after the instruction; NoPoly if it has none
Advance(polys, i) ==
    LET p == IF polys = NoPoly THEN {}
             ELSE CASE i.op = "Const" -> {Poly(0, 0, i.value)}
                    [] i.op = "Move" -> {polys[s] : s \in Reads(i) \cap DOMAIN polys}
                    [] i.op = "Binary" ->
                          IF Reads(i) \subseteq DOMAIN polys
                          THEN Combined(i.oper, polys[i.lhs], polys[i.rhs]) ELSE {}
                    [] OTHER -> {}
    IN  IF p = {} THEN NoPoly ELSE Bind(polys, i.dest, CHOOSE q \in p : TRUE)

\* resolveInitConst: the last definition before position n in the list, looking
\* through one Move
InitConst(body, s, n) ==
    LET Before(t, m) == {j \in 1 .. m - 1 : body[j].dest = t}
        IsConst(P) == P # {} /\ body[Max(P)].op = "Const"
        P == Before(s, n)
        Q == Before(body[Max(P)].lhs, Max(P))
    IN  CASE IsConst(P) -> {body[Max(P)].value}
          [] P # {} /\ body[Max(P)].op = "Move" /\ IsConst(Q) -> {body[Max(Q)].value}
          [] OTHER -> {}

\* how often a loop from init by step runs while "i rel bound"; {} if it is not
\* known to end there
Trips(rel, init, step, bound) ==
    LET dist == IF step > 0 THEN bound - init ELSE init - bound
        size == Magnitude(step)
        strict == IF step > 0 THEN "lt" ELSE "gt"
        loose  == IF step > 0 THEN "le" ELSE "ge"
    IN  CASE rel = "ne" -> IF dist >= 0 /\ dist % size = 0 THEN {dist \div size} ELSE {}
          [] rel = strict -> {IF dist =< 0 THEN 0 ELSE (dist + size - 1) \div size}
          [] rel = loose -> {IF dist < 0 THEN 0 ELSE dist \div size + 1}
          [] OTHER -> {}

\* mutant: one round too many in the triangular numbers
ClosedFormOneMore(p, init, step, t) ==
    LET tri   == (t * (t + 1)) \div 2
        cube  == (tri * (2 * t - 1)) \div 3
        sumSq == t * init * init + 2 * init * step * tri + step * step * cube
    IN  Wrap(t * (p.a * init + p.c) + p.a * step * tri + p.q * sumSq)

\* the sum of p over i = init, init + step, ... for t rounds
ClosedForm(p, init, step, t) ==
    LET tri   == (t * (t - 1)) \div 2
        cube  == (tri * (2 * t - 1)) \div 3
        sumSq == t * init * init + 2 * init * step * tri + step * step * cube
    IN  Wrap(t * (p.a * init + p.c) + p.a * step * tri + p.q * sumSq)

Mirrored(rel) ==
    CASE rel = "lt" -> "gt" [] rel = "le" -> "ge" [] rel = "gt" -> "lt" [] rel = "ge" -> "le"
      [] OTHER -> rel

-----------------------------------------------------------------------------
(* What the pass reads off the loop at c: each is a set of one, or empty   *)
(* when the loop has not the shape looked for.                             *)

\* the comparison the first branch of the condition tests
Comparison(body, c) ==
    LET cond     == c + 1 .. Min(BodyLabels(body, c)) - 1
        branches == {n \in cond : body[n].op = "Branch"}
        compares == {n \in cond : /\ n < Min(branches) /\ body[n].op = "Binary"
                                  /\ body[n].dest = body[Min(branches)].lhs}
    IN  IF branches = {} \/ compares = {} THEN {} ELSE {body[Min(compares)]}

\* the positions of the body proper
BodyInsts(body, c) ==
    {n \in Min(BodyLabels(body, c)) .. LoopEnd(body, c) - 1 :
        body[n].op # "Label" /\ body[n] # Goto(body[c].label)}

ConstSlot(body, s) == IF SingleConst(body, s) THEN body[ConstAt(body, s)].value ELSE 0

\* i = i +- step, or t = i +- step and then i = t: the slot and the step
Inductions(body, insts, cmp) ==
    LET tested == {cmp.lhs, cmp.rhs}
        linear(n) == body[n].op = "Binary" /\ body[n].oper \in {"add", "sub"}
        direct == {n \in insts : linear(n) /\ body[n].dest = body[n].lhs /\ body[n].dest \in tested}
        Signed(i, v) == IF i.oper = "sub" THEN -v ELSE v
        Updates(n) == {t \in insts : body[t].dest = body[n].lhs}
        Other(t, i) == IF t.lhs = i THEN t.rhs ELSE t.lhs
        copied == {n \in insts :
                    /\ body[n].op = "Move" /\ body[n].dest \in tested
                    /\ \E m \in insts :
                          LET t == body[m]
                          IN  /\ Updates(n) = {m} /\ linear(m)
                              /\ body[n].dest \in {t.lhs, t.rhs}
                              /\ t.oper = "sub" => t.lhs = body[n].dest
                              /\ ConstSlot(body, Other(t, body[n].dest)) # 0}
        Copied(n) == LET t == body[CHOOSE m \in insts : Updates(n) = {m}]
                     IN  [slot |-> body[n].dest,
                          step |-> Signed(t, ConstSlot(body, Other(t, body[n].dest)))]
        Direct(n) == [slot |-> body[n].dest, step |-> Signed(body[n], ConstSlot(body, body[n].rhs))]
        found == IF direct # {} THEN {Direct(n) : n \in direct} ELSE {Copied(n) : n \in copied}
    IN  IF Cardinality(IF direct # {} THEN direct ELSE copied) = 1
        THEN {i \in found : i.step # 0} ELSE {}

\* the slots the body adds up: written by a Binary and read behind the loop
Accumulators(body, c, insts, i) ==
    {body[n].dest : n \in {m \in insts : body[m].op = "Binary" /\ body[m].dest # i}}
        \cap ReadAfter(body, LoopEnd(body, c))

\* the polynomials at the end of one round, accumulators counted from zero
RoundPolys(body, insts, i, accs) ==
    LET consts == {s \in UNION {Reads(body[n]) : n \in insts} : SingleConst(body, s)}
        seed == [s \in accs \cup consts \cup {i} |->
                    CASE s \in accs -> Poly(0, 0, 0)
                      [] s \in consts \ accs -> Poly(0, 0, ConstSlot(body, s))
                      [] OTHER -> Poly(0, 1, 0)]
    IN  Walk(LAMBDA polys, n : IF n \in insts THEN Advance(polys, body[n]) ELSE polys,
             seed, Len(body))

\* tryElim: the function with the loop at c replaced by its result
SumElimAt(fn, c) ==
    LET body   == fn.body
        insts  == BodyInsts(body, c)
        straight == /\ BodyLabels(body, c) # {} /\ insts # {} /\ Cardinality(insts) =< 48
                    /\ \A n \in insts : DefinesSlot(body[n])
        cmp    == The(Comparison(body, c))
        ind    == The(Inductions(body, insts, cmp))
        init   == The(InitConst(body, ind.slot, c))
        bound  == IF cmp.lhs = ind.slot THEN cmp.rhs ELSE cmp.lhs
        rel    == IF cmp.lhs = ind.slot THEN cmp.oper ELSE Mirrored(cmp.oper)
        trips  == Trips(rel, init, ind.step, ConstSlot(body, bound))
        accs   == Accumulators(body, c, insts, ind.slot)
        polys  == RoundPolys(body, insts, ind.slot, accs)
        sums   == /\ accs # {} /\ polys # NoPoly
                  /\ \A s \in accs : /\ Cardinality({n \in insts : body[n].dest = s}) = 1
                                     /\ polys[s] # Poly(0, 0, 0)
        Sum(s) == ClosedForm(polys[s], init, ind.step, The(trips))
        Add(code, n) ==
            LET s     == n - 1
                fresh == fn.slotCount + (Len(code) \div 2)
            IN  IF s \in accs THEN code \o <<Const(fresh, Sum(s)), Binary(s, "add", s, fresh)>> ELSE code
        adds   == Walk(Add, <<>>, fn.slotCount)
    IN  IF /\ straight /\ Comparison(body, c) # {}
           /\ Inductions(body, insts, cmp) # {} /\ sums
           /\ SingleConst(body, bound) /\ InitConst(body, ind.slot, c) # {} /\ trips # {}
        THEN [fn EXCEPT !.slotCount = @ + (Len(adds) \div 2),
                        !.body = SubSeq(body, 1, c - 1) \o adds
                                   \o <<Const(ind.slot, Wrap(init + The(trips) * ind.step))>>
                                   \o SubSeq(body, LoopEnd(body, c), Len(body))]
        ELSE fn

LoopSumElim(fn) ==
    LET Round(f) == AtFirstLoop(f, LoopHeads(f.body), LAMBDA c : SumElimAt(f, c))
    IN  Saturate(Round, fn, Len(fn.body))

=============================================================================
