--------------------------- MODULE FunctionEmitter ---------------------------
(***************************************************************************)
(* emitInst, emitUnary, emitBinary and emitCall of FunctionEmitter         *)
(* (src/backend/riscv.cpp): one action per IR instruction, which emits     *)
(* the assembly for it and runs it, beside the instruction itself.         *)
(*                                                                         *)
(* The IR program is open: any instruction may come next whose operands    *)
(* are defined, so a behaviour is one path through some function with      *)
(* these tables.  Arithmetic is not interpreted: an operation yields any   *)
(* word, the same one in the IR and in the register, and misread collects  *)
(* the operands for which the machine was handed another word than the IR. *)
(* At a join other code ran last, so the work registers hold anything      *)
(* (Undef) and only s-registers and stack homes are kept.                  *)
(***************************************************************************)
EXTENDS RegCache, Sequences

CONSTANTS
    Params,     \* paramSlots
    NoSlot,
    Shapes,     \* which branches of emitBinary the function exercises
    GapLabels,  \* labels found between a deferred definition and its reader
    ArgReg,     \* the argument registers, <<"a0", .., "a7">>
    MaxArgs     \* bound on the number of arguments of a call

AllShapes == {"imm", "neg", "copy", "zero", "divconst", "generic"}

ASSUME FunctionAssumption ==
    /\ Params \subseteq Slots
    /\ Params \cap Skip = {}
    /\ NoSlot \notin Slots
    /\ Shapes \subseteq AllShapes
    /\ GapLabels \subseteq {"fallthrough", "target"}
    /\ {"a0", "t0"} \subseteq WorkRegs
    /\ ArgReg \in Seq(WorkRegs \ {"t0"})
    /\ ArgReg # <<>> /\ ArgReg[1] = "a0"
    /\ \A i, j \in 1 .. Len(ArgReg) : ArgReg[i] = ArgReg[j] => i = j
    /\ MaxArgs \in Nat

VARIABLES
    em,       \* the tables and the machine
    val,      \* what each slot holds according to the IR
    pending,  \* the deferred slot whose reader must come next, or NoSlot
    call,     \* the argument loads of emitCall still to do
    misread   \* slots whose operand register held another word than the slot

vars == <<em, val, pending, call, misread>>

NoCall == [args |-> <<>>, left |-> 0, dest |-> NoSlot, stacked |-> <<>>]
Calls == [args : Seq(Slots), left : Nat, dest : Slots \cup {NoSlot}, stacked : Seq(Word)]
Idle == call = NoCall

-----------------------------------------------------------------------------
(* What makes the next instruction possible. *)

\* A deferred slot has one reader, the first instruction after its definition
\* that emits code; every operand was assigned before.
MayRead(S) ==
    /\ Idle
    /\ \A s \in S : val[s] # Undef
    /\ S \cap Deferred \subseteq {pending}
    /\ pending # NoSlot => pending \in S

\* The constants of the table have no other definition.  A Const, Unary or Binary
\* may be the definition its reader follows; any other one of a deferred slot is
\* dead, though its store is left out as well.
MayDefine(d) == ~IsConst(d)
MayDefer(d) == pending' \in IF d \in Deferred THEN {d, NoSlot} ELSE {NoSlot}

\* Forget the work registers: the code that ran last is not the code above.
Join(e) ==
    [InvalidateCache(e) EXCEPT
        !.reg = [r \in Regs |-> IF r \in WorkRegs THEN Undef ELSE e.reg[r]]]

Assign(d, v) == val' = [val EXCEPT ![d] = v]
Consume(reads) == misread' = misread \cup {p[1] : p \in {q \in reads : val[q[1]] # q[2]}}

-----------------------------------------------------------------------------
(* emit(): the prologue moves or spills every argument to its slot's home. *)

Arguments(arg) == [s \in Slots |-> IF s \in Params THEN arg[s] ELSE Undef]

Prologue(arg) ==
    [cache |-> {},
     held |-> [r \in WorkRegs |-> NoReg],
     reg |-> [r \in Regs |->
                IF \E p \in Params : InSReg(p) /\ Home[p] = r
                THEN arg[CHOOSE p \in Params : Home[p] = r] ELSE Undef],
     mem |-> [s \in Slots |-> IF s \in Params /\ ~InSReg(s) THEN arg[s] ELSE Undef]]

Init ==
    /\ \E arg \in [Params -> Val] : em = Prologue(arg) /\ val = Arguments(arg)
    /\ pending = NoSlot
    /\ call = NoCall
    /\ misread = {}

-----------------------------------------------------------------------------
(* Labels and jumps. *)

\* mutant: every label empties the cache
FallthroughLabelForgets ==
    /\ Idle
    /\ pending # NoSlot => "fallthrough" \in GapLabels
    /\ em' = InvalidateCache(em)
    /\ UNCHANGED <<val, pending, call, misread>>

\* A label nothing jumps to emits no invalidation: the cache carries over.
FallthroughLabel ==
    /\ Idle
    /\ pending # NoSlot => "fallthrough" \in GapLabels
    /\ UNCHANGED vars

TargetLabel ==
    /\ Idle
    /\ pending # NoSlot => "target" \in GapLabels
    /\ em' = Join(em)
    /\ UNCHANGED <<val, pending, call, misread>>

Goto ==
    /\ Idle
    /\ pending = NoSlot
    /\ em' = Join(em)
    /\ UNCHANGED <<val, pending, call, misread>>

\* bnez / beqz on a0; the cache survives into the fall-through.
Branch(s) ==
    /\ MayRead({s})
    /\ em' = LoadSlot(em, "a0", s)
    /\ Consume({<<s, em'.reg["a0"]>>})
    /\ pending' = NoSlot
    /\ UNCHANGED <<val, call>>

Return(s) ==
    /\ MayRead({s})
    /\ LET e == LoadSlot(em, "a0", s)
       IN  Consume({<<s, e.reg["a0"]>>}) /\ em' = Join(e)
    /\ pending' = NoSlot
    /\ UNCHANGED <<val, call>>

ReturnVoid ==
    /\ MayRead({})
    /\ em' = Join(em)
    /\ UNCHANGED <<val, pending, call, misread>>

-----------------------------------------------------------------------------
(* Const, Move, globals, unary operators. *)

\* A constant of the table emits nothing unless it lives in an s-register.
ConstOmitted(d) ==
    /\ Idle
    /\ IsConst(d) /\ ~InSReg(d)
    /\ Assign(d, ConstOf[d])
    /\ UNCHANGED <<em, pending, call, misread>>

ConstEmitted(d) ==
    /\ MayRead({})
    /\ IsConst(d) => InSReg(d)
    /\ MayDefer(d)
    /\ \E v \in Val :
        /\ IsConst(d) => v = ConstOf[d]
        /\ em' = OpViaA0(em, v, d)
        /\ Assign(d, v)
    /\ UNCHANGED <<call, misread>>

Move(d, s) ==
    /\ MayRead({s})
    /\ MayDefine(d)
    /\ pending' = NoSlot
    /\ LET e == LoadSlot(em, "a0", s)
       IN  /\ Consume({<<s, e.reg["a0"]>>})
           /\ em' = StoreSlot(e, "a0", d)
    /\ Assign(d, val[s])
    /\ UNCHANGED call

LoadGlobal(d) ==
    /\ MayRead({})
    /\ MayDefine(d)
    /\ pending' = NoSlot
    /\ \E v \in Val :
        /\ em' = OpViaA0(Overwrite(em, "t0", Undef), v, d)
        /\ Assign(d, v)
    /\ UNCHANGED <<call, misread>>

StoreGlobal(s) ==
    /\ MayRead({s})
    /\ LET e == LoadSlot(KillReg(em, "t0"), "a0", s)
       IN  /\ Consume({<<s, e.reg["a0"]>>})
           /\ em' = Write(e, "t0", Undef)
    /\ pending' = NoSlot
    /\ UNCHANGED <<val, call>>

\* neg and seqz give any word; unary plus leaves a0 as it was loaded.
Unary(d, s) ==
    /\ MayRead({s})
    /\ MayDefine(d) /\ MayDefer(d)
    /\ LET e == LoadSlot(em, "a0", s)
       IN  /\ Consume({<<s, e.reg["a0"]>>})
           /\ \/ \E v \in Val : em' = OpViaA0(e, v, d) /\ Assign(d, v)
              \/ em' = StoreSlot(KillReg(e, "a0"), "a0", d) /\ Assign(d, val[s])
    /\ UNCHANGED call

-----------------------------------------------------------------------------
(* emitBinary.  k is the operand the table knows to be constant: its value *)
(* goes into the instruction as an immediate.                              *)

\* the operand where it is, or in t0 if it is nowhere
InPlaceOrT0(e, s) == IF SlotInReg(e, s) = NoReg THEN LoadSlot(e, "t0", s) ELSE e
RegInPlaceOrT0(e, s) == IF SlotInReg(e, s) = NoReg THEN "t0" ELSE SlotInReg(e, s)

WithConst(shape, d, s, k) ==
    /\ shape \in Shapes
    /\ MayRead({s, k})
    /\ IsConst(k)
    /\ MayDefine(d) /\ MayDefer(d)
    /\ UNCHANGED call

\* addi, or slli for a power of two
BinaryImm(d, s, k) ==
    /\ WithConst("imm", d, s, k)
    /\ LET e == InPlaceOrT0(em, s)
       IN  /\ Consume({<<s, e.reg[RegInPlaceOrT0(em, s)]>>, <<k, ConstOf[k]>>})
           /\ \E v \in Val : em' = OpToDest(e, v, d) /\ Assign(d, v)

\* x * -1 and x / -1
BinaryNeg(d, s, k) ==
    /\ WithConst("neg", d, s, k)
    /\ LET e == InPlaceOrT0(em, s)
       IN  /\ Consume({<<s, e.reg[RegInPlaceOrT0(em, s)]>>, <<k, ConstOf[k]>>})
           /\ \E v \in Val : em' = OpViaA0(e, v, d) /\ Assign(d, v)

\* x * 1 and x / 1
BinaryCopy(d, s, k) ==
    /\ WithConst("copy", d, s, k)
    /\ LET e == LoadSlot(em, "a0", s)
       IN  /\ Consume({<<s, e.reg["a0"]>>, <<k, ConstOf[k]>>})
           /\ em' = StoreSlot(KillReg(e, "a0"), "a0", d)
    /\ Assign(d, val[s])

\* x * 0 and x % 1
BinaryZero(d, s, k) ==
    /\ WithConst("zero", d, s, k)
    /\ Consume({<<k, ConstOf[k]>>})
    /\ \E v \in Val : em' = OpViaA0(em, v, d) /\ Assign(d, v)

\* a dividend left in a0, where the sequence's first result goes
DividendRegInPlace(e, s) == IF SlotInReg(e, s) = NoReg THEN "t0" ELSE SlotInReg(e, s)

\* Division and remainder by a power of two and emitDivByConst: the sequence
\* reads the dividend again after writing a0, so one that is in a0 goes to t0.
DividendReg(e, s) == IF SlotInReg(e, s) \in {NoReg, "a0"} THEN "t0" ELSE SlotInReg(e, s)

BinaryDivConst(d, s, k) ==
    /\ WithConst("divconst", d, s, k)
    /\ LET from == DividendReg(em, s)
           e    == IF from = SlotInReg(em, s) THEN em ELSE LoadSlot(em, from, s)
       IN  \E v \in Val :
            /\ Consume({<<s, e.reg[from]>>, <<s, Overwrite(e, "a0", v).reg[from]>>,
                        <<k, ConstOf[k]>>})
            /\ em' = OpViaA0(e, v, d)
            /\ Assign(d, v)

\* a general case that loads the right operand into a0 before it saves the left one
OperandsSavedLate(e, l, r, dInSReg) ==
    IF SlotInReg(e, l) = "a0" /\ SlotInReg(e, r) = NoReg /\ ~dInSReg
    THEN [em |-> Mv(LoadSlot(e, "a0", r), "t0", "a0"), l |-> "t0", r |-> "a0"]
    ELSE [em |-> LoadSlot(LoadSlot(e, "t0", l), "a0", r), l |-> "t0", r |-> "a0"]

\* Where the general case finds its operands.  The moves between t0 and a0 are
\* written without a killReg.
Operands(e, l, r, dInSReg) ==
    LET atL == SlotInReg(e, l)
        atR == SlotInReg(e, r)
        At(f, lr, rr) == [em |-> f, l |-> lr, r |-> rr]
        saveL == atL = "a0" /\ ~dInSReg
        saved == IF saveL THEN Mv(e, "t0", "a0") ELSE e
    IN  CASE atL # NoReg /\ atR # NoReg ->
                At(saved, IF saveL THEN "t0" ELSE atL, atR)
          [] atL # NoReg /\ atR = NoReg /\ (atL # "a0" \/ saveL) ->
                At(LoadSlot(saved, "a0", r), IF saveL THEN "t0" ELSE atL, "a0")
          [] atL = "a0" /\ atR = NoReg /\ ~saveL ->
                At(LoadSlot(e, "t0", r), "a0", "t0")
          [] atL = NoReg /\ atR = "t0" ->
                At(LoadSlot(Mv(e, "a0", "t0"), "t0", l), "t0", "a0")
          [] atL = NoReg /\ atR \notin {NoReg, "t0"} ->
                At(LoadSlot(e, "t0", l), "t0", atR)
          [] OTHER ->
                At(LoadSlot(LoadSlot(e, "t0", l), "a0", r), "t0", "a0")

\* slt, add, sub, mul, div, rem write the destination's home directly; the other
\* comparisons take two instructions and go through a0.
BinaryGeneric(d, l, r) ==
    /\ "generic" \in Shapes
    /\ MayRead({l, r})
    /\ MayDefine(d) /\ MayDefer(d)
    /\ LET o == Operands(em, l, r, InSReg(d))
       IN  /\ Consume({<<l, o.em.reg[o.l]>>, <<r, o.em.reg[o.r]>>})
           /\ \E v \in Val :
                /\ Assign(d, v)
                /\ \/ em' = OpToDest(o.em, v, d)
                   \/ em' = OpViaA0(o.em, v, d)
    /\ UNCHANGED call

-----------------------------------------------------------------------------
(* emitCall, one step per argument.  The arguments beyond the registers    *)
(* are stored first, in order, through a0; the register arguments are then *)
(* loaded from the last to the first.                                      *)

Overflow(args) == IF Len(args) > Len(ArgReg) THEN Len(args) - Len(ArgReg) ELSE 0
InRegs(args) == Len(args) - Overflow(args)

CallBegin(args, d) ==
    /\ MayRead({args[i] : i \in 1 .. Len(args)})
    /\ pending = NoSlot
    /\ MayDefine(d)
    /\ call' = [args |-> args, left |-> Len(args), dest |-> d, stacked |-> <<>>]
    /\ UNCHANGED <<em, val, pending, misread>>

CallStackArg ==
    LET n == Len(call.stacked)
    IN  /\ ~Idle
        /\ n < Overflow(call.args)
        /\ em' = LoadSlot(em, "a0", call.args[Len(ArgReg) + n + 1])
        /\ call' = [call EXCEPT !.stacked = Append(@, em'.reg["a0"]), !.left = @ - 1]
        /\ UNCHANGED <<val, pending, misread>>

CallRegArg ==
    /\ ~Idle
    /\ Len(call.stacked) = Overflow(call.args)
    /\ call.left > 0
    /\ em' = LoadSlot(em, ArgReg[call.left], call.args[call.left])
    /\ call' = [call EXCEPT !.left = @ - 1]
    /\ UNCHANGED <<val, pending, misread>>

\* jal: the callee finds each argument in its place, keeps the s-registers and
\* leaves its result in a0.
CallJump ==
    /\ ~Idle
    /\ call.left = 0
    /\ Consume({<<call.args[i],
                  IF i <= Len(ArgReg) THEN em.reg[ArgReg[i]]
                                      ELSE call.stacked[i - Len(ArgReg)]>> :
                i \in 1 .. Len(call.args)})
    /\ \E v \in Val :
        /\ em' = StoreSlot(Write(Join(em), "a0", v), "a0", call.dest)
        /\ Assign(call.dest, v)
    /\ call' = NoCall
    /\ UNCHANGED pending

ArgLists == UNION {[1 .. n -> Slots] : n \in 0 .. MaxArgs}

Binary(d, s, t) ==
    \/ BinaryImm(d, s, t)
    \/ BinaryNeg(d, s, t)
    \/ BinaryCopy(d, s, t)
    \/ BinaryZero(d, s, t)
    \/ BinaryDivConst(d, s, t)
    \/ BinaryGeneric(d, s, t)

Next ==
    \/ FallthroughLabel \/ TargetLabel \/ Goto \/ ReturnVoid
    \/ \E s \in Slots : Branch(s) \/ Return(s) \/ StoreGlobal(s)
    \/ \E d \in Slots : ConstOmitted(d) \/ ConstEmitted(d) \/ LoadGlobal(d)
    \/ \E d, s \in Slots : Move(d, s) \/ Unary(d, s)
    \/ \E d, s, t \in Slots : Binary(d, s, t)
    \/ \E args \in ArgLists, d \in Slots : CallBegin(args, d)
    \/ CallStackArg \/ CallRegArg \/ CallJump

Spec == Init /\ [][Next]_vars

-----------------------------------------------------------------------------
(* Properties. *)

\* What a function must avoid for its code to be right: a cached dividend left in
\* t0 beside a general operation that reuses t0; a jump target between a
\* definition whose store was left out and its reader; a parameter among the
\* slots taken for constants because their one defining instruction is a Const.
Benign ==
    /\ ~({"divconst", "generic"} \subseteq Shapes)
    /\ "target" \notin GapLabels
    /\ \A p \in Params : ~IsConst(p)

\* The tables, the machine and the IR values have their types.
TypeOK ==
    /\ em \in Emitter
    /\ val \in [Slots -> Word]
    /\ pending \in Slots \cup {NoSlot}
    /\ call \in Calls
    /\ misread \subseteq Slots

\* Every emitted instruction is handed, in whatever register loadSlot or
\* slotInReg chose, the value the IR says the operand's slot has.
OperandsCorrect == misread = {}

\* A row of cache_ is a fact about the running program: the register holds the
\* latest value of the slot (the promise stated above the declaration of cache_).
CacheTruthful ==
    \A row \in em.cache :
        /\ em.reg[row.reg] = val[row.slot]
        /\ \A other \in em.cache : other.slot = row.slot => other = row

\* A work register listed in sRegHeld_ still equals the s-register it was
\* copied from, so leaving out the next mv changes nothing.
HeldTruthful ==
    \A r \in WorkRegs : em.held[r] # NoReg => em.reg[r] = em.reg[em.held[r]]

\* Where the value of a slot can always be found again: in its s-register, in the
\* constant table, in its stack home, or, for a store that was left out, in a
\* register the cache knows until the one reader has run.
NoLostValue ==
    \A s \in Slots : val[s] # Undef =>
        /\ InSReg(s) => em.reg[Home[s]] = val[s]
        /\ IsConst(s) => val[s] = ConstOf[s]
        /\ ~InSReg(s) /\ ~IsConst(s) /\ s \notin Skip => em.mem[s] = val[s]
        /\ s \in Deferred /\ s = pending => IsCached(em.cache, s)

=============================================================================
