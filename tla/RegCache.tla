------------------------------ MODULE RegCache ------------------------------
(***************************************************************************)
(* The register bookkeeping of FunctionEmitter (src/backend/riscv.cpp).    *)
(*                                                                         *)
(* While it writes assembly the emitter keeps two tables about the machine *)
(* that will run it: cache_, rows saying "this work register holds the     *)
(* current value of that slot", and sRegHeld_, work registers known to be  *)
(* copies of an s-register.  Every method below is an operator on one      *)
(* record that holds both tables and the machine they talk about:          *)
(*                                                                         *)
(*    cache   set of rows [slot, reg, age]; age 0 is the back of the C++   *)
(*            vector, the oldest row its front                             *)
(*    held    sRegHeld_, NoReg where the map has no entry                  *)
(*    reg     what each register holds at run time                         *)
(*    mem     what the stack home of each slot holds at run time           *)
(*                                                                         *)
(* so that emitting an instruction and executing it are one step.          *)
(***************************************************************************)
EXTENDS Naturals, FiniteSets

CONSTANTS
    Slots,      \* the IR slots of the function being emitted
    Val,        \* the 32-bit words, abstracted to a few distinct values
    Undef,      \* what no slot that has been assigned holds
    WorkRegs,   \* a0..a7 and t0
    SRegs,      \* s2..s11
    NoReg,
    Home,       \* regMap_: the s-register of a slot, or NoReg
    ConstOf,    \* slotConst_: the constant of a slot, or Undef
    Skip,       \* skipStore_: slots whose sw is left out
    CacheCap    \* kCacheCap

ASSUME RegisterAssumption ==
    /\ WorkRegs \cap SRegs = {}
    /\ NoReg \notin WorkRegs \cup SRegs
    /\ Undef \notin Val

ASSUME TableAssumption ==
    /\ Home \in [Slots -> SRegs \cup {NoReg}]
    /\ \A s, t \in Slots : Home[s] = Home[t] /\ Home[s] # NoReg => s = t
    /\ ConstOf \in [Slots -> Val \cup {Undef}]
    /\ Skip \subseteq Slots
    /\ CacheCap \in Nat \ {0}

Regs == WorkRegs \cup SRegs
Word == Val \cup {Undef}
InSReg(s) == Home[s] # NoReg
IsConst(s) == ConstOf[s] # Undef

\* Slots whose only copy, between definition and use, is a register: storeSlot
\* tests regMap_ before skipStore_, and a constant slot is never stored.
Deferred == {s \in Skip : ~InSReg(s) /\ ~IsConst(s)}

Row == [slot : Slots, reg : WorkRegs, age : Nat]

Emitter ==
    [cache : SUBSET Row, held : [WorkRegs -> SRegs \cup {NoReg}],
     reg : [Regs -> Word], mem : [Slots -> Word]]

-----------------------------------------------------------------------------
(* cache_ *)

DropReg(cache, r) == {row \in cache : row.reg # r}

DropSlot(cache, s) == {row \in cache : row.slot # s}

IsCached(cache, s) == \E row \in cache : row.slot = s

CachedIn(cache, s) == (CHOOSE row \in cache : row.slot = s).reg

\* push_back makes every row one older, up to the first unused age; when the
\* vector is over capacity its front, the oldest row, is erased.
Older(cache) ==
    LET ages == {row.age : row \in cache}
        gap  == CHOOSE n \in 0 .. Cardinality(cache) :
                    n \notin ages /\ 0 .. n-1 \subseteq ages
    IN  {[row EXCEPT !.age = IF @ < gap THEN @ + 1 ELSE @] : row \in cache}

AddCache(cache, s, r) ==
    LET older == Older(DropSlot(cache, s))
        fits  == Cardinality(older) < CacheCap
    IN  {[slot |-> s, reg |-> r, age |-> 0]}
            \cup {row \in older : fits \/ \E front \in older : front.age > row.age}

Promote(cache, s) == AddCache(cache, s, CachedIn(cache, s))

-----------------------------------------------------------------------------
(* Methods that change both tables, and the instructions they write. *)

\* only the s-register copy is forgotten
KillRegKeepsRows(e, r) == [e EXCEPT !.held[r] = NoReg]

KillReg(e, r) ==
    [e EXCEPT !.cache = DropReg(e.cache, r), !.held[r] = NoReg]

InvalidateCache(e) ==
    [e EXCEPT !.cache = {}, !.held = [r \in WorkRegs |-> NoReg]]

\* an instruction written without telling the tables
Write(e, r, v) == [e EXCEPT !.reg[r] = v]
Mv(e, rd, rs) == Write(e, rd, e.reg[rs])

\* li, la or lw into a work register after every fact about it is dropped
Overwrite(e, r, v) == Write(KillReg(e, r), r, v)

SlotInReg(e, s) ==
    IF InSReg(s) THEN Home[s]
    ELSE IF IsCached(e.cache, s) THEN CachedIn(e.cache, s) ELSE NoReg

\* the cached value moved over a register whose own rows stay
LoadSlotKeepsRows(e, r, s) ==
    IF ~InSReg(s) /\ ~IsConst(s) /\ IsCached(e.cache, s) /\ CachedIn(e.cache, s) # r
    THEN [Overwrite(e, r, e.reg[CachedIn(e.cache, s)]) EXCEPT !.cache = AddCache(e.cache, s, r)]
    ELSE Overwrite(e, r, IF InSReg(s) THEN e.reg[Home[s]]
                         ELSE IF IsConst(s) THEN ConstOf[s] ELSE e.mem[s])

\* loadSlot: from the s-register unless the work register is known to be a copy
\* of it, else li of the constant, else from the register the cache names, else lw.
LoadSlot(e, r, s) ==
    CASE InSReg(s) ->
            IF e.held[r] = Home[s] THEN e
            ELSE [Overwrite(e, r, e.reg[Home[s]]) EXCEPT !.held[r] = Home[s]]
      [] ~InSReg(s) /\ IsConst(s) -> Overwrite(e, r, ConstOf[s])
      [] ~InSReg(s) /\ ~IsConst(s) /\ IsCached(e.cache, s) ->
            LET from == CachedIn(e.cache, s)
            IN  IF from = r
                THEN [e EXCEPT !.cache = Promote(e.cache, s), !.held[r] = NoReg]
                ELSE [Overwrite(e, r, e.reg[from]) EXCEPT
                        !.cache = AddCache(DropReg(e.cache, r), s, r)]
      [] OTHER -> Overwrite(e, r, e.mem[s])

\* a row for the s-register itself
StoreSlotCachesHome(e, r, s) ==
    IF InSReg(s) THEN [Mv(e, Home[s], r) EXCEPT !.cache = AddCache(e.cache, s, Home[s])]
    ELSE IF s \in Skip THEN [e EXCEPT !.cache = AddCache(e.cache, s, r)]
    ELSE [e EXCEPT !.cache = AddCache(e.cache, s, r), !.mem[s] = e.reg[r]]

\* storeSlot: into the s-register, or only into the cache, or to the stack and
\* into the cache.
StoreSlot(e, r, s) ==
    CASE InSReg(s) -> Mv(e, Home[s], r)
      [] ~InSReg(s) /\ s \in Skip -> [e EXCEPT !.cache = AddCache(e.cache, s, r)]
      [] OTHER -> [e EXCEPT !.cache = AddCache(e.cache, s, r), !.mem[s] = e.reg[r]]

\* copies of the overwritten s-register still taken for its value
OpToDestKeepsHeld(e, v, d) ==
    IF InSReg(d) THEN Write(e, Home[d], v) ELSE StoreSlot(Overwrite(e, "a0", v), "a0", d)

\* emitOpToDest and emitOpImmToDest: the result v straight into the destination's
\* s-register, else through a0.
OpToDest(e, v, d) ==
    IF InSReg(d)
    THEN [e EXCEPT !.cache = DropReg(e.cache, Home[d]),
                   !.held = [r \in WorkRegs |->
                                IF e.held[r] = Home[d] THEN NoReg ELSE e.held[r]],
                   !.reg[Home[d]] = v]
    ELSE StoreSlot(Overwrite(e, "a0", v), "a0", d)

\* the same through a0 in every case: killReg, op a0, storeSlot
OpViaA0(e, v, d) == StoreSlot(Overwrite(e, "a0", v), "a0", d)

=============================================================================
