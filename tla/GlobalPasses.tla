---------------------------- MODULE GlobalPasses ----------------------------
(***************************************************************************)
(* The control-flow graph (src/ir/cfg.cpp) and the three passes of         *)
(* src/ir/optim.cpp that carry facts across it: constants, copies and      *)
(* available expressions.                                                  *)
(***************************************************************************)
EXTENDS LocalPasses

CONSTANT RoundCap   \* rounds after which a data-flow iteration gives up; 20 in the code

ASSUME RoundAssumption == RoundCap \in Nat

-----------------------------------------------------------------------------
(* The control-flow graph. *)

\* A block starts at the first instruction, at a label and after a jump.
Leaders(body) ==
    {n \in DOMAIN body : \/ n = 1
                         \/ body[n].op = "Label"
                         \/ body[n-1].op \in {"Goto", "Branch", "Return", "ReturnVoid"}}

\* blocks are named by their first position; the last position of one
BlockEnd(body, b) ==
    CHOOSE n \in b .. Len(body) :
        /\ \A m \in b + 1 .. n : m \notin Leaders(body)
        /\ n = Len(body) \/ n + 1 \in Leaders(body)

\* where control goes from the end of a block, always the start of one
Succs(body, b) == NextPositions(body, BlockEnd(body, b))

BuildCFG(body) ==
    LET starts == Leaders(body)
        succs  == [b \in starts |-> Succs(body, b)]
    IN  [starts |-> starts,
         ends   |-> [b \in starts |-> BlockEnd(body, b)],
         preds  |-> [b \in starts |-> {p \in starts : b \in succs[p]}]]

-----------------------------------------------------------------------------
(* Available expressions: key -> the slot that was given the value, beside *)
(* the constants the keys are made with.                                   *)

\* both operands are cut to 20 bits, and so is the mark of a constant
GlobalKey(i, known) ==
    LET a == Encoded(i.lhs, known)
        b == Encoded(i.rhs, known)
        Cut(n) == n % 1048576
    IN  IF Swapped(i, a, b) THEN <<i.oper, Cut(b), Cut(a)>> ELSE <<i.oper, Cut(a), Cut(b)>>

NoExprs == [avail |-> Nothing, known |-> Nothing]

Kill(f, d) ==
    [avail |-> [q \in {p \in DOMAIN f.avail : d \notin {f.avail[p], p[2], p[3]}} |-> f.avail[q]],
     known |-> Forget(f.known, d)]

Available(f, i) ==
    LET k == Kill(f, i.dest)
    IN  CASE i.op = "Const" -> [k EXCEPT !.known = Bind(@, i.dest, i.value)]
          [] i.op = "Move" ->
                [k EXCEPT !.known = IF i.lhs \in DOMAIN @ THEN Bind(@, i.dest, @[i.lhs]) ELSE @]
          [] i.op = "Binary" ->
                [avail |-> IF SelfUpdate(i) THEN k.avail
                           ELSE Bind(k.avail, GlobalKey(i, k.known), i.dest),
                 known |-> IF Foldable(i, k.known)
                           THEN Bind(k.known, i.dest, FoldedValue(i, k.known)) ELSE k.known]
          [] OTHER -> k

-----------------------------------------------------------------------------
(* An analysis carries facts across the graph: "constants" and "copies"    *)
(* are maps by slot, "expressions" the two maps above.                     *)

NoFacts(analysis) == IF analysis = "expressions" THEN NoExprs ELSE Nothing

FactsAfter(analysis, facts, i) ==
    CASE analysis = "constants" -> Learn(facts, i)
      [] analysis = "copies" -> AfterMove(facts, i)
      [] analysis = "expressions" -> Available(facts, i)

\* mutant: keeps whatever the first side says
AgreedFirstSide(f, g) == f

\* a fact survives a join when both sides agree on it
Agreed(f, g) == [x \in {y \in DOMAIN f \cap DOMAIN g : f[y] = g[y]} |-> f[x]]

BothAvailable(f, g) ==
    [avail |-> Agreed(f.avail, g.avail), known |-> Agreed(f.known, g.known)]

Meet(analysis, f, g) ==
    IF analysis = "expressions" THEN BothAvailable(f, g) ELSE Agreed(f, g)

\* the facts at the end of the block b, from those at its start
ThroughBlock(body, cfg, analysis, facts, b) ==
    Walk(LAMBDA f, k : FactsAfter(analysis, f, body[b + k - 1]), facts, cfg.ends[b] - b + 1)

\* what every block of P has in out
MeetAll(body, analysis, P, out) ==
    LET first == CHOOSE p \in P : \A q \in P : p =< q
    IN  Walk(LAMBDA f, n : IF n \in P THEN Meet(analysis, f, out[n]) ELSE f, out[first], Len(body))

\* one block, or no change where no block starts
VisitBlock(body, cfg, analysis, st, b) ==
    IF b \notin cfg.starts THEN st
    ELSE LET in == IF b = 1 \/ cfg.preds[b] = {} THEN NoFacts(analysis)
                   ELSE MeetAll(body, analysis, cfg.preds[b], st.out)
         IN  [in  |-> [st.in EXCEPT ![b] = in],
              out |-> [st.out EXCEPT ![b] = ThroughBlock(body, cfg, analysis, in, b)]]

\* Facts at the start of every block: nothing at the entry, elsewhere what all
\* predecessors had at their end when the block was last visited.  A round visits
\* the blocks in order; the iteration starts from no facts and stops when a round
\* changes none, or at the cap.
Dataflow(body, analysis) ==
    LET cfg == BuildCFG(body)
        Round(st) == Walk(LAMBDA s, b : VisitBlock(body, cfg, analysis, s, b), st, Len(body))
        start == [b \in cfg.starts |-> NoFacts(analysis)]
    IN  Saturate(Round, [in |-> start, out |-> start], RoundCap).in

-----------------------------------------------------------------------------
(* The passes: every instruction rewritten by the facts where it stands, a *)
(* block at a time.                                                        *)

\* the slot at the end of a chain of copies, at most four of them
Follow(alias, s) ==
    Walk(LAMBDA t, k : IF t \in DOMAIN alias THEN alias[t] ELSE t, s, 4)

\* the instruction in place of i, and the facts behind it
Rewritten(analysis, facts, i) ==
    CASE analysis = "constants" -> [facts |-> Learn(facts, i), inst |-> Simplify(i, facts)]
      [] analysis = "copies" ->
            LET j == Substitute(i, LAMBDA s : Follow(facts, s))
            IN  [facts |-> AfterMove(facts, j), inst |-> j]
      [] analysis = "expressions" ->
            LET key == GlobalKey(i, facts.known)
                hit == /\ i.op = "Binary" /\ ~SelfUpdate(i)
                       /\ key \in DOMAIN facts.avail
                       /\ facts.avail[key] \notin {i.dest, i.lhs, i.rhs}
            IN  IF hit THEN [facts |-> Kill(facts, i.dest), inst |-> Move(i.dest, facts.avail[key])]
                ELSE [facts |-> Available(facts, i), inst |-> i]

Rewrite(body, analysis) ==
    LET in == Dataflow(body, analysis)
    IN  Walk(LAMBDA acc, n :
                LET r == Rewritten(analysis, IF n \in DOMAIN in THEN in[n] ELSE acc.facts, body[n])
                IN  [facts |-> r.facts, code |-> Append(acc.code, r.inst)],
             [facts |-> NoFacts(analysis), code |-> <<>>], Len(body)).code

GlobalConstProp(body) == Rewrite(body, "constants")
GlobalCopyProp(body) == Rewrite(body, "copies")
GlobalCse(body) == Rewrite(body, "expressions")

=============================================================================
