--------------------------- MODULE EmitterTables ---------------------------
(***************************************************************************)
(* What FunctionEmitter::emit (src/backend/riscv.cpp) works out about a    *)
(* function before it writes the first instruction: which slots live in    *)
(* s-registers, which are constants, which stores can be left out, which   *)
(* labels are jumped to, and where everything lies in the stack frame.     *)
(* Nothing here is recursive, so that theorems can be stated about it.     *)
(***************************************************************************)
EXTENDS ToyIR

CONSTANTS
    SReg,       \* the registers allocateRegisters hands out, <<"s2", .., "s11">>
    NoReg       \* no register

ASSUME TablesAssumption ==
    /\ SReg \in Seq(STRING)
    /\ \A j, k \in DOMAIN SReg : SReg[j] = SReg[k] => j = k
    /\ \A k \in DOMAIN SReg : SReg[k] # NoReg

\* the operands that are slot s, by instruction and place; readsOf
ReadSites(body, s) ==
    UNION {{<<n, k>> : k \in {j \in DOMAIN ReadsOf(body[n]) : ReadsOf(body[n])[j] = s}}
           : n \in DOMAIN body}
ReadCount(body, s) == Cardinality(ReadSites(body, s))

SlotsOf(fn) == 0 .. fn.slotCount - 1
Members(seq) == {seq[k] : k \in DOMAIN seq}

-----------------------------------------------------------------------------
(* allocateRegisters: the named slots that are read, by falling number of  *)
(* reads, then by number.                                                  *)

\* s is sorted before t
Ahead(uses, s, t) == uses[s] > uses[t] \/ (uses[s] = uses[t] /\ s < t)

\* mutant: slots read equally often share a place
RankTied(uses, ranked, s) == Cardinality({t \in ranked : uses[t] > uses[s]})

\* the place of s, counted from 0
Rank(uses, ranked, s) == Cardinality({t \in ranked : Ahead(uses, t, s)})

Picked(uses, ranked) == {s \in ranked : Rank(uses, ranked, s) < Len(SReg)}

\* regMap_ for slots with these numbers of reads
RegMap(uses, ranked, slots) ==
    [s \in slots |-> IF s \in Picked(uses, ranked) THEN SReg[Rank(uses, ranked, s) + 1] ELSE NoReg]

UsesOf(fn) == [s \in SlotsOf(fn) |-> ReadCount(fn.body, s)]
Ranked(fn) == LET uses == UsesOf(fn) IN {s \in Members(fn.named) : uses[s] > 0}
Allocated(fn) == Picked(UsesOf(fn), Ranked(fn))

-----------------------------------------------------------------------------
(* computeConstSlots. *)

\* every instruction with a result; here a call counts
Sets(i, s) == (DefinesSlot(i) \/ i.op = "Call") /\ i.dest = s
Definitions(fn, s) == {n \in DOMAIN fn.body : Sets(fn.body[n], s)}

\* the one definition of a constant slot: a Const, and there is no other
ConstPositions(fn, s) ==
    {n \in Definitions(fn, s) : fn.body[n].op = "Const" /\ Definitions(fn, s) = {n}}

\* slotConst_
SlotConst(fn) ==
    [s \in SlotsOf(fn) |->
        IF ConstPositions(fn, s) = {} THEN Undef
        ELSE fn.body[CHOOSE n \in ConstPositions(fn, s) : TRUE].value]

\* positions the emitter writes no instruction for
Silent(fn) ==
    LET const == SlotConst(fn)
        inReg == Allocated(fn)
    IN  {n \in DOMAIN fn.body :
            LET i == fn.body[n]
            IN  i.op = "Label" \/ (i.op = "Const" /\ const[i.dest] = i.value /\ i.dest \notin inReg)}

\* the first instruction behind n that emits code, if there is one
NextEmitted(silent, body, n) ==
    LET later == {m \in DOMAIN body : m > n /\ m \notin silent}
    IN  {m \in later : \A j \in later : m =< j}

\* mutant: any number of reads
ReadOnceOften(fn, s) == s \notin Members(fn.params) /\ ReadCount(fn.body, s) > 0

\* one read in the whole function; how often it is assigned is not asked
ReadOnce(fn, s) == s \notin Members(fn.params) /\ ReadCount(fn.body, s) = 1

\* the reader takes the slot as an operand of its own
Takes(i, s) == i.op \in {"Branch", "Return", "Unary", "Move", "StoreGlobal", "Binary"} /\ s \in Reads(i)

\* Definitions whose result is read by the next instruction that emits code, and
\* nowhere else.
BeforeReader(fn) ==
    LET silent == Silent(fn)
    IN  {n \in DOMAIN fn.body :
            LET i == fn.body[n]
            IN  /\ i.op \in {"Binary", "Unary", "Const"}
                /\ ReadOnce(fn, i.dest)
                /\ \E m \in NextEmitted(silent, fn.body, n) : Takes(fn.body[m], i.dest)}

\* skipStore_: by slot, so that no definition of such a slot is stored
SkipStore(fn) == {fn.body[n].dest : n \in BeforeReader(fn)}

-----------------------------------------------------------------------------
(* collectBranchTargets. *)

BranchTargets(body) ==
    UNION {{body[n].label, body[n].falseLabel} :
              n \in {m \in DOMAIN body : body[m].op \in {"Goto", "Branch"}}} \ {NoLabel}

-----------------------------------------------------------------------------
(* The frame: byte offsets from s0, the end of the frame.                  *)

WordBytes == 4
RaOffset == -4
S0Offset == -8

\* the place of the (k+1)-st saved s-register
SavedOffset(k) == -12 - k * 4

\* mutant: as if no register were saved
SlotOffsetUnsaved(slot, saved) == -12 - slot * 4

\* slotOffset
SlotOffset(slot, saved) == -12 - saved * 4 - slot * 4

\* computeFrameSize: 8 bytes for ra and s0, rounded up to a multiple of 16
LocalBytes(saved, slots) == 8 + saved * 4 + slots * 4
FrameSize(saved, slots) ==
    LET rounded == ((LocalBytes(saved, slots) + 15) \div 16) * 16
    IN  IF rounded < 16 THEN 16 ELSE rounded

\* Everything a function keeps in its frame has a word of its own there: ra, s0, the
\* s-registers it saves and its slots.
FrameApart(saved, slots) ==
    LET Within(offset) == offset \in -FrameSize(saved, slots) .. -WordBytes /\ offset % WordBytes = 0
    IN  /\ FrameSize(saved, slots) % 16 = 0
        /\ Within(RaOffset) /\ Within(S0Offset) /\ RaOffset # S0Offset
        /\ \A k \in 0 .. saved - 1 :
              /\ Within(SavedOffset(k)) /\ SavedOffset(k) \notin {RaOffset, S0Offset}
              /\ \A j \in 0 .. saved - 1 : SavedOffset(j) = SavedOffset(k) => j = k
        /\ \A s \in 0 .. slots - 1 :
              /\ Within(SlotOffset(s, saved)) /\ SlotOffset(s, saved) \notin {RaOffset, S0Offset}
              /\ \A k \in 0 .. saved - 1 : SlotOffset(s, saved) # SavedOffset(k)
              /\ \A u \in 0 .. slots - 1 : SlotOffset(u, saved) = SlotOffset(s, saved) => u = s

=============================================================================
