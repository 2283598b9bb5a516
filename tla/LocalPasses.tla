---------------------------- MODULE LocalPasses ----------------------------
(***************************************************************************)
(* The passes of src/ir/optim.cpp that look at one basic block or at the   *)
(* instruction list as a whole: each is an operator from instruction lists *)
(* to instruction lists, and has "changed" something when its result is    *)
(* another list.  A map of the code is a function over the keys it holds.  *)
(***************************************************************************)
EXTENDS ToyIR

Nothing == <<>>
Forget(map, d) == [s \in DOMAIN map \ {d} |-> map[s]]
Bind(map, d, v) == [s \in DOMAIN map \cup {d} |-> IF s = d THEN v ELSE map[s]]

\* a pass repeated until it changes nothing, at most n times
Saturate(pass(_), x, n) ==
    Walk(LAMBDA acc, k : IF acc.stable THEN acc
                         ELSE LET next == pass(acc.x)
                              IN  [x |-> next, stable |-> next = acc.x],
         [x |-> x, stable |-> FALSE], n).x

-----------------------------------------------------------------------------
(* Constants: what known says after an instruction, and what it becomes.   *)

Foldable(i, known) ==
    i.op \in {"Move", "Unary", "Binary"} /\ Reads(i) \subseteq DOMAIN known
\* Undef from the moment the compiler has stopped at a division
FoldedValue(i, known) ==
    CASE \E s \in Reads(i) : known[s] = Undef -> Undef
      [] i.op = "Move" -> known[i.lhs]
      [] i.op = "Unary" /\ known[i.lhs] # Undef -> UnaryValue(i.oper, known[i.lhs])
      [] i.op = "Binary" /\ Undef \notin {known[i.lhs], known[i.rhs]} ->
            IF Overflows(i.oper, known[i.lhs], known[i.rhs]) THEN Undef
            ELSE BinaryValue(i.oper, known[i.lhs], known[i.rhs])

Learn(known, i) ==
    LET k == Forget(known, i.dest)
    IN  CASE i.op = "Const" -> Bind(k, i.dest, i.value)
          [] Foldable(i, k) -> Bind(k, i.dest, FoldedValue(i, k))
          [] OTHER -> k

\* The destination is forgotten before the operands are looked up, so x = x + 1
\* never folds.
Simplify(i, known) ==
    LET k == Forget(known, i.dest)
        Is(s, v) == s \in DOMAIN k /\ k[s] = v
        Bin(o) == i.op = "Binary" /\ i.oper = o
    IN  CASE Foldable(i, k) -> Const(i.dest, FoldedValue(i, k))
          [] Bin("add") /\ Is(i.lhs, 0) /\ ~Foldable(i, k) -> Move(i.dest, i.rhs)
          [] Bin("add") /\ Is(i.rhs, 0) /\ ~Foldable(i, k) -> Move(i.dest, i.lhs)
          [] Bin("sub") /\ Is(i.rhs, 0) /\ ~Foldable(i, k) -> Move(i.dest, i.lhs)
          [] Bin("sub") /\ Is(i.lhs, 0) /\ ~Foldable(i, k) -> Unary(i.dest, "minus", i.rhs)
          [] Bin("mul") /\ (Is(i.lhs, 0) \/ Is(i.rhs, 0)) /\ ~Foldable(i, k) -> Const(i.dest, 0)
          [] Bin("mul") /\ Is(i.lhs, 1) /\ ~Foldable(i, k) -> Move(i.dest, i.rhs)
          [] Bin("mul") /\ Is(i.rhs, 1) /\ ~Foldable(i, k) -> Move(i.dest, i.lhs)
          [] OTHER -> i

ConstFold(body) ==
    Walk(LAMBDA acc, n :
            [known |-> IF IsControlBoundary(body[n]) THEN Nothing ELSE Learn(acc.known, body[n]),
             code  |-> Append(acc.code, Simplify(body[n], acc.known))],
         [known |-> Nothing, code |-> <<>>], Len(body)).code

\* the compiler is stopped by the division that i is, as in constFoldPass
StopsAt(i, known) ==
    LET k == Forget(known, i.dest) IN Foldable(i, k) /\ FoldedValue(i, k) = Undef

\* A branch on a known slot becomes a jump to the side it takes, or nothing when
\* that side falls through.  What is known is worked out anew, and with that divisions
\* that constFoldPass did not come to.
BranchFold(body) ==
    LET Folded(i, known) ==
            IF i.op = "Branch" /\ i.lhs \in DOMAIN known
            THEN LET target == IF known[i.lhs] = 0 THEN i.falseLabel ELSE i.label
                 IN  IF target = NoLabel THEN <<>> ELSE <<Goto(target)>>
            ELSE <<IF StopsAt(i, known) THEN Const(i.dest, Undef) ELSE i>>
    IN  Walk(LAMBDA acc, n :
                [known |-> IF IsControlBoundary(body[n]) THEN Nothing
                           ELSE Learn(acc.known, body[n]),
                 code  |-> acc.code \o Folded(body[n], acc.known)],
             [known |-> Nothing, code |-> <<>>], Len(body)).code

-----------------------------------------------------------------------------
(* Dead code. *)

\* where control may go from position n
NextPositions(body, n) ==
    LET i == body[n]
        To(l) == IF l \in Labels(body) THEN {PositionOf(body, l)} ELSE {}
        Side(l) == IF l = NoLabel THEN {n + 1} ELSE To(l)
        next == CASE i.op = "Goto" -> To(i.label)
                  [] i.op = "Branch" -> Side(i.label) \cup Side(i.falseLabel)
                  [] i.op \in {"Return", "ReturnVoid"} -> {}
                  [] OTHER -> {n + 1}
    IN  next \cap DOMAIN body

DeadBlock(body) ==
    LET Spread(S) == S \cup UNION {NextPositions(body, n) : n \in S}
        reachable == Saturate(Spread, {1} \cap DOMAIN body, Len(body))
    IN  KeepAt(body, reachable)

\* mutant: takes away the label instead of the jump
GotoCleanupDropsLabel(body) ==
    KeepAt(body, {n \in DOMAIN body : ~(/\ body[n].op = "Label" /\ n > 1
                                        /\ body[n-1].op = "Goto"
                                        /\ body[n-1].label = body[n].label)})

\* a jump to the very next instruction
GotoCleanup(body) ==
    KeepAt(body, {n \in DOMAIN body : ~(/\ body[n].op = "Goto" /\ n < Len(body)
                                        /\ body[n+1].op = "Label"
                                        /\ body[n+1].label = body[n].label)})

Dce(body) ==
    LET Round(code) ==
            LET used == UNION {Reads(code[n]) : n \in DOMAIN code}
            IN  KeepAt(code, {n \in DOMAIN code : DefinesSlot(code[n]) => code[n].dest \in used})
    IN  Saturate(Round, body, Len(body) + 1)

-----------------------------------------------------------------------------
(* Copies. *)

\* the reads of i through alias; the arguments of a call are left alone
Substitute(i, Through(_)) ==
    IF i.op \in {"Move", "Unary", "Binary", "StoreGlobal", "Branch", "Return"}
    THEN [i EXCEPT !.lhs = Through(@), !.rhs = Through(@)]
    ELSE i

\* both sides of a copy go stale when either is redefined
Unalias(alias, d) == [s \in {t \in DOMAIN alias : t # d /\ alias[t] # d} |-> alias[s]]

AfterMove(alias, i) ==
    IF i.op = "Move" /\ i.dest # i.lhs
    THEN Bind(Unalias(alias, i.dest), i.dest, i.lhs) ELSE Unalias(alias, i.dest)

\* The value side of an alias is never a key here: it was looked up itself, and
\* becoming a destination it would have been removed.  One look-up is the chain.
CopyProp(body) ==
    LET One(alias, i) ==
            Substitute(i, LAMBDA s : IF s \in DOMAIN alias THEN alias[s] ELSE s)
    IN  Walk(LAMBDA acc, n :
                LET i == One(acc.alias, body[n])
                IN  [alias |-> IF IsControlBoundary(i) THEN Nothing ELSE AfterMove(acc.alias, i),
                     code  |-> Append(acc.code, i)],
             [alias |-> Nothing, code |-> <<>>], Len(body)).code

\* a definition right before the only read of its slot, a Move, writes the Move's
\* destination itself
CopyCoalesce(body) ==
    LET Round(code) ==
            LET movable == {n \in DOMAIN code :
                              LET s == code[n].lhs
                              IN  /\ code[n].op = "Move" /\ s # code[n].dest
                                  /\ DefsOf(code, s) = {n - 1}
                                  /\ code[n-1].op # "Move"
                                  /\ UseCount(code, s) = 1}
                retargeted == [n \in DOMAIN code |->
                                IF n + 1 \in movable THEN [code[n] EXCEPT !.dest = code[n+1].dest]
                                ELSE code[n]]
            IN  KeepAt(retargeted, DOMAIN code \ movable)
    IN  Saturate(Round, body, Len(body) + 1)

-----------------------------------------------------------------------------
(* Common subexpressions within a block. *)

\* an operand as it goes into a key: a constant is marked by bit 30 and cut to 22
\* bits, a slot is its number
Encoded(s, known) ==
    IF s \in DOMAIN known THEN 1073741824 + (known[s] % 4194304) ELSE s

\* op in the top bits, then 32 bits of the one operand and 16 of the other
LocalKey(oper, a, b) == <<oper, a, b % 65536>>

SelfUpdate(i) == i.dest \in {i.lhs, i.rhs}

\* mutant: sorts the operands of every operator
SwappedAnyOper(i, a, b) == a > b
Swapped(i, a, b) == i.oper \in {"add", "mul"} /\ a > b

CseStep(acc, i) ==
    LET known == IF i.op = "Const" THEN Bind(acc.known, i.dest, i.value) ELSE acc.known
        a     == Encoded(i.lhs, known)
        b     == Encoded(i.rhs, known)
        key   == IF Swapped(i, a, b) THEN LocalKey(i.oper, b, a) ELSE LocalKey(i.oper, a, b)
        entry == [dest |-> i.dest, opers |-> {i.lhs, i.rhs} \ DOMAIN known]
        tried == i.op = "Binary" /\ ~SelfUpdate(i)
        hit   == tried /\ key \in DOMAIN acc.seen
        seen  == IF tried /\ ~hit THEN Bind(acc.seen, key, entry) ELSE acc.seen
    IN  IF IsControlBoundary(i)
        THEN [known |-> Nothing, seen |-> Nothing, code |-> Append(acc.code, i)]
        ELSE [known |-> known,
              seen  |-> IF DefinesSlot(i)
                        THEN [q \in {p \in DOMAIN seen : i.dest \notin seen[p].opers} |-> seen[q]]
                        ELSE seen,
              code  |-> Append(acc.code, IF hit THEN Move(i.dest, acc.seen[key].dest) ELSE i)]

Cse(body) ==
    Walk(LAMBDA acc, n : CseStep(acc, body[n]),
         [known |-> Nothing, seen |-> Nothing, code |-> <<>>], Len(body)).code

-----------------------------------------------------------------------------
(* Chains of additions of constants. *)

\* the constant a slot always holds, if its one definition is a Const
SingleConst(body, s) ==
    \E n \in DOMAIN body : DefsOf(body, s) = {n} /\ body[n].op = "Const"
ConstAt(body, s) == CHOOSE n \in DOMAIN body : DefsOf(body, s) = {n}

\* tip, whose value is base plus accum, was computed with the Const at first; a
\* further t = tip +- c becomes a copy of tip and c goes into that Const.
InstCombine(body) ==
    LET NoTip == [slot |-> NoSlot, first |-> 0, adds |-> TRUE, accum |-> 0]
        Signed(i, v) == IF i.oper = "add" THEN v ELSE Wrap(-v)
        Combine(acc, n) ==
            LET i       == acc.code[n]
                tip     == acc.tip
                linear  == i.op = "Binary" /\ i.oper \in {"add", "sub"}
                isConst == linear /\ SingleConst(body, i.rhs)
                c       == Signed(i, body[ConstAt(body, i.rhs)].value)
                link    == linear /\ tip.slot # NoSlot /\ i.lhs = tip.slot /\ i.dest # tip.slot
                extends == link /\ isConst /\ UseCount(body, tip.slot) = 1
                starts  == ~extends /\ isConst /\ i.dest # i.lhs /\ UseCount(body, i.rhs) = 1
                accum   == Wrap(tip.accum + c)
                rest    == IF link /\ UseCount(body, tip.slot) # 1 THEN NoTip ELSE tip
            IN  CASE extends ->
                        [code |-> [acc.code EXCEPT
                                    ![tip.first].value = IF tip.adds THEN accum ELSE Wrap(-accum),
                                    ![n] = Move(i.dest, tip.slot)],
                         tip  |-> [tip EXCEPT !.slot = i.dest, !.accum = accum]]
                  [] starts ->
                        [acc EXCEPT !.tip = [slot |-> i.dest, first |-> ConstAt(body, i.rhs),
                                             adds |-> i.oper = "add", accum |-> c]]
                  [] OTHER ->
                        [acc EXCEPT !.tip = IF \/ IsControlBoundary(i)
                                               \/ DefinesSlot(i) /\ i.dest = tip.slot
                                            THEN NoTip ELSE rest]
    IN  Walk(Combine, [code |-> body, tip |-> NoTip], Len(body)).code

=============================================================================
