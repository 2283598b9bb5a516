------------------------------ MODULE CodeGen ------------------------------
(***************************************************************************)
(* The compiler from IR to assembly: the optimizer until it is done, then  *)
(* FunctionEmitter::emit on a function of what it delivers.  The tables    *)
(* are computed for that very function (EmitterTables), and its code is    *)
(* emitted by the actions of FunctionEmitter while it runs.  Control may    *)
(* take either side of a branch, and a result that is not a constant is a  *)
(* mark of where it was computed, so that any two of them can be told apart.*)
(*                                                                         *)
(* FunctionEmitter takes any sequence of instructions that meets its       *)
(* guards; here they come from the compiler.  A guard that no instruction  *)
(* of a real function may break is an obligation of the passes and tables, *)
(* so nothing but the end of a function stops this specification.          *)
(***************************************************************************)
EXTENDS PassManager, EmitterTables, BinaryShape

CONSTANTS
    CacheCap,   \* kCacheCap, 16 in the code
    ArgReg      \* <<"a0", .., "a7">>

VARIABLES
    tables,     \* the members of the FunctionEmitter at work
    pc,         \* the next of them; 0 behind a return
    em, val, pending, call, misread

emission == <<em, val, pending, call, misread>>

TablesOf(fn) ==
    [body   |-> fn.body,
     slots  |-> SlotsOf(fn),
     params |-> Members(fn.params),
     home   |-> RegMap(UsesOf(fn), Ranked(fn), SlotsOf(fn)),
     const  |-> SlotConst(fn),
     skip   |-> SkipStore(fn),
     before |-> BeforeReader(fn),
     targets |-> BranchTargets(fn.body)]

\* the emitter with the tables t, before an instruction that yields v
E(t, v) ==
    INSTANCE FunctionEmitter WITH
        Slots <- t.slots, Val <- {v}, Params <- t.params, Home <- t.home,
        ConstOf <- t.const, Skip <- t.skip,
        WorkRegs <- Members(ArgReg) \cup {"t0"}, SRegs <- Members(SReg),
        Shapes <- {"imm", "neg", "copy", "zero", "divconst", "generic"},
        GapLabels <- {"fallthrough", "target"}, MaxArgs <- 0

NotStarted == <<>>

\* Words of no program: the value a parameter starts with, and what the instruction at
\* n computes, another one each time it comes by.
Argument(p) == -(2^WordBits) - p
Computed(n, before) ==
    LET mark == 2^WordBits + 2 * n IN IF before = mark THEN mark + 1 ELSE mark

\* nothing is emitted yet
Idle ==
    /\ tables = NotStarted /\ pc = 0
    /\ em = NotStarted /\ val = NotStarted /\ pending = NoSlot /\ call = NotStarted /\ misread = {}

\* buildIr and optimizeProgram
Compile ==
    /\ stage # "done"
    /\ Next
    /\ UNCHANGED <<tables, pc, emission>>

\* emit() of some function; every function has an emitter of its own
BeginFunction ==
    /\ stage = "done" /\ tables = NotStarted
    /\ \E fn \in Members(prog.functions) :
        LET t   == TablesOf(fn)
            arg == [p \in t.params |-> Argument(p)]
        IN  /\ tables' = t /\ pc' = 1
            /\ em' = E(t, 0)!Prologue(arg) /\ val' = E(t, 0)!Arguments(arg)
            /\ pending' = NoSlot /\ call' = E(t, 0)!NoCall /\ misread' = {}
    /\ UNCHANGED vars

-----------------------------------------------------------------------------
(* emitInst. *)

Inst == tables.body[pc]
Inside == tables # NotStarted /\ pc \in DOMAIN tables.body
At(op) == Inside /\ Inst.op = op
Onward(l) == IF l = NoLabel THEN pc + 1 ELSE PositionOf(tables.body, l)

\* whether the reader of what this instruction defines comes next
Reader(t) == pending' = IF pc \in t.before /\ Inst.dest \in E(t, 0)!Deferred THEN Inst.dest ELSE NoSlot

Result ==
    CASE Inst.op = "Const" -> Inst.value
      [] Inst.op = "Unary" /\ Inst.oper = "plus" -> val[Inst.lhs]
      [] Inst.op \in {"Unary", "Binary", "LoadGlobal", "Call"} -> Computed(pc, val[Inst.dest])
      [] OTHER -> Undef

EmitLabel ==
    /\ At("Label")
    /\ \E t \in {tables} : IF Inst.label \in t.targets THEN E(t, 0)!TargetLabel ELSE E(t, 0)!FallthroughLabel
    /\ pc' = pc + 1
    /\ UNCHANGED <<vars, tables>>

EmitGoto ==
    /\ At("Goto")
    /\ \E t \in {tables} : E(t, 0)!Goto
    /\ pc' = Onward(Inst.label)
    /\ UNCHANGED <<vars, tables>>

EmitBranch ==
    /\ At("Branch")
    /\ \E t \in {tables} : E(t, 0)!Branch(Inst.lhs)
    /\ pc' \in {Onward(Inst.label), Onward(Inst.falseLabel)}
    /\ UNCHANGED <<vars, tables>>

EmitReturn ==
    /\ \E t \in {tables} : \/ At("Return") /\ E(t, 0)!Return(Inst.lhs)
                           \/ At("ReturnVoid") /\ E(t, 0)!ReturnVoid
    /\ pc' = 0
    /\ UNCHANGED <<vars, tables>>

\* An instruction that control runs through.
EmitConst(t, v) ==
    /\ At("Const")
    /\ \/ E(t, v)!ConstOmitted(Inst.dest)
       \/ E(t, v)!ConstEmitted(Inst.dest) /\ Reader(t)

EmitMove(t, v) == At("Move") /\ E(t, v)!Move(Inst.dest, Inst.lhs)
EmitLoadGlobal(t, v) == At("LoadGlobal") /\ E(t, v)!LoadGlobal(Inst.dest)
EmitStoreGlobal(t, v) == At("StoreGlobal") /\ E(t, v)!StoreGlobal(Inst.lhs)
EmitUnary(t, v) == At("Unary") /\ E(t, v)!Unary(Inst.dest, Inst.lhs) /\ Result = val'[Inst.dest] /\ Reader(t)

\* Which operand is taken for the constant, the right one first, and how.
Shaped(const) ==
    LET With(k, shape) == IF const[k] = Undef THEN "generic" ELSE shape
        right == With(Inst.rhs, RightShape(Inst.oper, const[Inst.rhs]))
        left  == With(Inst.lhs, LeftShape(Inst.oper, const[Inst.lhs]))
    IN  IF right # "generic" THEN [shape |-> right, other |-> Inst.lhs, const |-> Inst.rhs]
        ELSE [shape |-> left, other |-> Inst.rhs, const |-> Inst.lhs]

EmitBinary(t, v) ==
    /\ At("Binary")
    /\ LET d == Inst.dest
           w == Shaped(t.const)
       IN  \/ w.shape \in {"addi", "slli"} /\ E(t, v)!BinaryImm(d, w.other, w.const)
           \/ w.shape = "neg" /\ E(t, v)!BinaryNeg(d, w.other, w.const)
           \/ w.shape = "copy" /\ E(t, v)!BinaryCopy(d, w.other, w.const)
           \/ w.shape = "zero" /\ E(t, v)!BinaryZero(d, w.other, w.const)
           \/ w.shape \in {"power", "magic"} /\ E(t, v)!BinaryDivConst(d, w.other, w.const)
           \/ w.shape = "generic" /\ E(t, v)!BinaryGeneric(d, Inst.lhs, Inst.rhs)
    /\ Reader(t)

EmitCallJump(t, v) == At("Call") /\ E(t, v)!CallJump

EmitOnward ==
    /\ Inside
    /\ \E t \in {tables}, v \in {Result} :
        \/ EmitConst(t, v) \/ EmitMove(t, v) \/ EmitLoadGlobal(t, v) \/ EmitStoreGlobal(t, v)
        \/ EmitUnary(t, v) \/ EmitBinary(t, v) \/ EmitCallJump(t, v)
    /\ pc' = pc + 1
    /\ UNCHANGED <<vars, tables>>

\* the arguments of a call, one by one
EmitArguments ==
    /\ At("Call")
    /\ \E t \in {tables} : E(t, 0)!CallBegin(Inst.args, Inst.dest) \/ E(t, 0)!CallStackArg \/ E(t, 0)!CallRegArg
    /\ UNCHANGED <<vars, tables, pc>>

Emitted == tables # NotStarted /\ pc = 0 /\ UNCHANGED <<vars, tables, pc, emission>>

EmitNext ==
    \/ Compile \/ BeginFunction
    \/ EmitLabel \/ EmitGoto \/ EmitBranch \/ EmitReturn
    \/ EmitOnward \/ EmitArguments \/ Emitted

-----------------------------------------------------------------------------
(* Properties. *)

\* A slot whose store was left out is read by the instruction whose definition of it
\* ran last, and by no other: the tables leave out no store that some path needs.
DeferralSound ==
    \A t \in {tables} \ {NotStarted} :
        (pc \in DOMAIN t.body /\ call = E(t, 0)!NoCall) =>
            LET deferred == Reads(Inst) \cap E(t, 0)!Deferred
            IN  /\ deferred \subseteq {pending}
                /\ (pending # NoSlot /\ Inst.op \notin {"Label", "Const"}) => pending \in deferred

\* What runs is what the IR says: every emitted instruction of a compiled function
\* finds the values of its operands in the registers it names.
CodeCorrect == misread = {}

\* The value of every slot can be found again wherever control has come.
NothingLost == \A t \in {tables} \ {NotStarted} : E(t, 0)!NoLostValue

\* No two slots live in the same place, and none lives where a register is saved.
HomesApart ==
    \A t \in {tables} \ {NotStarted} :
        /\ \A s, u \in t.slots : t.home[s] = t.home[u] /\ t.home[s] # NoReg => s = u
        /\ FrameApart(Cardinality({s \in t.slots : t.home[s] # NoReg}), Cardinality(t.slots))

=============================================================================
