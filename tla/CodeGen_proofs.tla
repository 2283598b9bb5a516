-------------------------- MODULE CodeGen_proofs --------------------------
(***************************************************************************)
(* Code generation.  First the tables of one function, for every function, *)
(* any number of s-registers and any number of slots.  Then code           *)
(* generation on what the optimizer delivers: from the program lowering    *)
(* hands over to the frame of every function that is emitted.              *)
(***************************************************************************)
EXTENDS CodeGen, PassManager_proofs

-----------------------------------------------------------------------------
(* The frame. *)

\* Any number of saved registers and slots fits in the frame, each in a word of its
\* own: slotOffset and computeFrameSize never place one thing over another.
THEOREM FrameLayout ==
    ASSUME NEW saved \in Nat, NEW slots \in Nat
    PROVE  FrameApart(saved, slots)
<1> DEFINE bytes == LocalBytes(saved, slots)
           size == FrameSize(saved, slots)
<1>1. bytes \in Nat /\ bytes = 8 + saved * 4 + slots * 4 /\ bytes >= 8
  BY DEF LocalBytes
<1>2. size \in Nat /\ size >= bytes /\ size % 16 = 0 /\ size % 4 = 0
  BY <1>1 DEF FrameSize
<1>3. QED
  BY <1>1, <1>2 DEF FrameApart, RaOffset, S0Offset, SavedOffset, SlotOffset, WordBytes

-----------------------------------------------------------------------------
(* Register allocation. *)

\* The sorting order of allocateRegisters is strict and total: no tie is left open.
LEMMA AheadStrict ==
    ASSUME NEW ranked, ranked \subseteq Int,
           NEW uses, \A u \in ranked : uses[u] \in Nat,
           NEW s \in ranked, NEW t \in ranked
    PROVE  /\ ~Ahead(uses, s, s)
           /\ s # t => Ahead(uses, s, t) \/ Ahead(uses, t, s)
           /\ \A u \in ranked : Ahead(uses, u, s) /\ Ahead(uses, s, t) => Ahead(uses, u, t)
  BY DEF Ahead

\* Whoever is sorted before has the smaller place.
LEMMA RankOrdered ==
    ASSUME NEW ranked, IsFiniteSet(ranked), ranked \subseteq Int,
           NEW uses, \A u \in ranked : uses[u] \in Nat,
           NEW s \in ranked, NEW t \in ranked, Ahead(uses, s, t)
    PROVE  /\ Rank(uses, ranked, s) \in Nat /\ Rank(uses, ranked, t) \in Nat
           /\ Rank(uses, ranked, s) < Rank(uses, ranked, t)
<1> DEFINE S == {u \in ranked : Ahead(uses, u, s)}
           T == {u \in ranked : Ahead(uses, u, t)}
<1>1. IsFiniteSet(S) /\ IsFiniteSet(T)
  BY FS_Subset
<1>2. s \notin S /\ s \in T /\ S \subseteq T \ {s}
  <2>1. s \in T /\ ~Ahead(uses, s, s)
    BY AheadStrict
  <2>2. ASSUME NEW u \in ranked, Ahead(uses, u, s)
        PROVE  Ahead(uses, u, t) /\ u # s
    BY <2>1, <2>2, AheadStrict
  <2>3. QED
    BY <2>1, <2>2
<1>3. IsFiniteSet(T \ {s}) /\ Cardinality(T \ {s}) = Cardinality(T) - 1
  BY <1>1, <1>2, FS_RemoveElement
<1>4. Cardinality(S) =< Cardinality(T \ {s})
  BY <1>2, <1>3, FS_Subset
<1>5. Cardinality(S) \in Nat /\ Cardinality(T) \in Nat
  BY <1>1, FS_CardinalityType
<1>6. QED
  BY <1>3, <1>4, <1>5 DEF Rank

\* A slot's place in the sorted list is a number.
LEMMA RankType ==
    ASSUME NEW ranked, IsFiniteSet(ranked), NEW uses, NEW s
    PROVE  Rank(uses, ranked, s) \in Nat
<1>1. IsFiniteSet({t \in ranked : Ahead(uses, t, s)})
  BY FS_Subset
<1>2. QED
  BY <1>1, FS_CardinalityType DEF Rank

\* allocateRegisters never gives one s-register to two slots, however often their
\* numbers of reads agree.
LEMMA RegistersApart ==
    ASSUME NEW slots, NEW ranked, IsFiniteSet(ranked), ranked \subseteq Int,
           NEW uses, \A u \in ranked : uses[u] \in Nat
    PROVE  LET home == RegMap(uses, ranked, slots)
           IN  /\ home \in [slots -> Members(SReg) \cup {NoReg}]
               /\ \A s, t \in slots : home[s] = home[t] /\ home[s] # NoReg => s = t
<1> DEFINE home == RegMap(uses, ranked, slots)
           picked == Picked(uses, ranked)
<1>1. SReg \in Seq(STRING)
  BY TablesAssumption
<1>2. ASSUME NEW s \in picked
      PROVE  /\ s \in ranked /\ Rank(uses, ranked, s) \in Nat
             /\ Rank(uses, ranked, s) + 1 \in DOMAIN SReg
  BY <1>1, RankType DEF Picked
<1>3. home \in [slots -> Members(SReg) \cup {NoReg}]
  BY <1>2 DEF RegMap, Members
<1>4. ASSUME NEW s \in slots, NEW t \in slots, home[s] = home[t], home[s] # NoReg
      PROVE  s = t
  <2>1. s \in picked /\ t \in picked
    BY <1>4 DEF RegMap
  <2>2. Rank(uses, ranked, s) = Rank(uses, ranked, t)
    <3>1. SReg[Rank(uses, ranked, s) + 1] = SReg[Rank(uses, ranked, t) + 1]
      BY <1>4, <2>1 DEF RegMap
    <3>2. Rank(uses, ranked, s) + 1 = Rank(uses, ranked, t) + 1
      BY <1>2, <2>1, <3>1, TablesAssumption
    <3>3. QED
      BY <1>2, <2>1, <3>2
  <2>3. ~Ahead(uses, s, t) /\ ~Ahead(uses, t, s)
    <3>1. s \in ranked /\ t \in ranked
      BY <1>2, <2>1
    <3>2. Ahead(uses, s, t) => Rank(uses, ranked, s) < Rank(uses, ranked, t)
      BY <3>1, RankOrdered
    <3>3. Ahead(uses, t, s) => Rank(uses, ranked, t) < Rank(uses, ranked, s)
      BY <3>1, RankOrdered
    <3>4. Rank(uses, ranked, s) \in Nat /\ Rank(uses, ranked, t) \in Nat
      BY <1>2, <2>1
    <3>5. QED
      BY <2>2, <3>2, <3>3, <3>4
  <2>4. QED
    BY <1>2, <2>1, <2>3, AheadStrict
<1>5. QED
  BY <1>3, <1>4

-----------------------------------------------------------------------------
(* The tables of a function. *)

\* what the passes hand over: a list of instructions over the slots of the function
Listed(fn) ==
    /\ fn.slotCount \in Nat
    /\ fn.body \in Seq(Members(fn.body))
    /\ fn.named \in Seq(SlotsOf(fn))
    /\ \A n \in DOMAIN fn.body :
          LET i == fn.body[n]
          IN  /\ ReadsOf(i) \in Seq(SlotsOf(fn))
              /\ i.op \in {"Const", "Unary", "Binary"} => i.dest \in SlotsOf(fn)
              /\ i.op = "Const" => i.value \in Words

\* A list has finitely many places.
LEMMA DomainFinite ==
    ASSUME NEW S, NEW seq \in Seq(S)
    PROVE  IsFiniteSet(DOMAIN seq)
<1>1. DOMAIN seq = 1 .. Len(seq) /\ Len(seq) \in Nat
  OBVIOUS
<1>2. QED
  BY <1>1, FS_Interval

\* A finite set has finitely many images.
LEMMA ImageFinite ==
    ASSUME NEW S, IsFiniteSet(S), NEW f, DOMAIN f = S
    PROVE  IsFiniteSet({f[x] : x \in S})
<1> DEFINE T == {f[x] : x \in S}
           g == [x \in S |-> f[x]]
<1>1. g \in Surjection(S, T)
  BY DEF Surjection
<1>2. QED
  BY <1>1, FS_Surjection

\* The count of a slot's reads in computeConstSlots is a number.
LEMMA ReadSitesFinite ==
    ASSUME NEW fn, Listed(fn), NEW s
    PROVE  IsFiniteSet(ReadSites(fn.body, s)) /\ ReadCount(fn.body, s) \in Nat
<1> DEFINE reads(n) == {<<n, k>> : k \in {j \in DOMAIN ReadsOf(fn.body[n]) : ReadsOf(fn.body[n])[j] = s}}
           all == {reads(n) : n \in DOMAIN fn.body}
<1>1. ASSUME NEW n \in DOMAIN fn.body
      PROVE  IsFiniteSet(reads(n))
  <2> DEFINE J == {j \in DOMAIN ReadsOf(fn.body[n]) : ReadsOf(fn.body[n])[j] = s}
             pair == [k \in J |-> <<n, k>>]
  <2>1. IsFiniteSet(DOMAIN ReadsOf(fn.body[n]))
    BY DomainFinite DEF Listed
  <2>2. IsFiniteSet(J)
    BY <2>1, FS_Subset
  <2>3. DOMAIN pair = J /\ reads(n) = {pair[k] : k \in J}
    OBVIOUS
  <2>4. QED
    <3> HIDE DEF J, pair, reads
    <3> QED  BY <2>2, <2>3, ImageFinite
<1>2. IsFiniteSet(DOMAIN fn.body)
  BY DomainFinite DEF Listed
<1>3. IsFiniteSet(all)
  <2> DEFINE places == [n \in DOMAIN fn.body |-> reads(n)]
  <2>1. DOMAIN places = DOMAIN fn.body /\ all = {places[n] : n \in DOMAIN fn.body}
    OBVIOUS
  <2>2. QED
    <3> HIDE DEF places, all
    <3> QED  BY <1>2, <2>1, ImageFinite
<1>4. IsFiniteSet(UNION all)
  <2>1. \A T \in all : IsFiniteSet(T)
    BY <1>1
  <2>2. QED
    BY <1>3, <2>1, FS_UNION
<1>5. ReadSites(fn.body, s) = UNION all
  BY DEF ReadSites
<1>6. QED
  BY <1>4, <1>5, FS_CardinalityType DEF ReadCount

\* The tables of every function are as the emitter assumes (TableAssumption and
\* FunctionAssumption): registers of their own, no parameter without a store.
THEOREM TablesFit ==
    ASSUME NEW fn, Listed(fn)
    PROVE  LET home == RegMap(UsesOf(fn), Ranked(fn), SlotsOf(fn))
           IN  /\ home \in [SlotsOf(fn) -> Members(SReg) \cup {NoReg}]
               /\ \A s, t \in SlotsOf(fn) : home[s] = home[t] /\ home[s] # NoReg => s = t
               /\ SlotConst(fn) \in [SlotsOf(fn) -> Words \cup {Undef}]
               /\ SkipStore(fn) \subseteq SlotsOf(fn)
               /\ SkipStore(fn) \cap Members(fn.params) = {}
<1> DEFINE home == RegMap(UsesOf(fn), Ranked(fn), SlotsOf(fn))
<1>1. SlotsOf(fn) \subseteq Int /\ IsFiniteSet(SlotsOf(fn))
  <2>1. fn.slotCount - 1 \in Int
    BY DEF Listed
  <2>2. QED
    BY <2>1, FS_Interval DEF SlotsOf
<1>2. Ranked(fn) \subseteq SlotsOf(fn)
  BY DEF Ranked, Members, Listed
<1>3. UsesOf(fn) \in [SlotsOf(fn) -> Nat]
  BY ReadSitesFinite DEF UsesOf
<1>4. /\ home \in [SlotsOf(fn) -> Members(SReg) \cup {NoReg}]
      /\ \A s, t \in SlotsOf(fn) : home[s] = home[t] /\ home[s] # NoReg => s = t
  <2>1. IsFiniteSet(Ranked(fn))
    BY <1>1, <1>2, FS_Subset
  <2>2. QED
    BY <1>1, <1>2, <1>3, <2>1, RegistersApart
<1>5. SlotConst(fn) \in [SlotsOf(fn) -> Words \cup {Undef}]
  BY DEF SlotConst, ConstPositions, Definitions, Listed
<1>6. SkipStore(fn) \subseteq SlotsOf(fn)
  BY DEF SkipStore, BeforeReader, Listed
<1>7. SkipStore(fn) \cap Members(fn.params) = {}
  BY DEF SkipStore, BeforeReader, ReadOnce
<1>8. QED
  BY <1>4, <1>5, <1>6, <1>7

\* A definition taken to be read next is read by the next instruction that emits code and
\* by no other instruction of the function: what computeConstSlots looks for.
THEOREM ReaderFollows ==
    ASSUME NEW fn, Listed(fn), NEW n \in BeforeReader(fn)
    PROVE  \E m \in DOMAIN fn.body :
              /\ m > n
              /\ \A k \in DOMAIN fn.body : fn.body[n].dest \in Reads(fn.body[k]) => k = m
              /\ \A k \in n + 1 .. m - 1 : k \in Silent(fn)
<1> DEFINE s == fn.body[n].dest
<1>1. /\ ReadCount(fn.body, s) = 1
      /\ n \in DOMAIN fn.body
  BY DEF BeforeReader, ReadOnce
<1>2. PICK m \in NextEmitted(Silent(fn), fn.body, n) : s \in Reads(fn.body[m])
  BY DEF BeforeReader, Takes
<1>3. m \in DOMAIN fn.body /\ m > n
  BY <1>2 DEF NextEmitted
<1>4. PICK only : ReadSites(fn.body, s) = {only}
  BY <1>1, ReadSitesFinite, FS_Singleton DEF ReadCount
<1>5. ASSUME NEW k \in DOMAIN fn.body, s \in Reads(fn.body[k])
      PROVE  k = only[1]
  <2>1. PICK j \in DOMAIN ReadsOf(fn.body[k]) : ReadsOf(fn.body[k])[j] = s
    BY <1>5 DEF Reads
  <2>2. <<k, j>> \in ReadSites(fn.body, s)
    BY <2>1 DEF ReadSites
  <2>3. QED
    BY <1>4, <2>2
<1>6. \A k \in DOMAIN fn.body : s \in Reads(fn.body[k]) => k = m
  BY <1>2, <1>3, <1>5
<1>7. DOMAIN fn.body = 1 .. Len(fn.body) /\ Len(fn.body) \in Nat
  BY DEF Listed
<1>8. ASSUME NEW k \in n + 1 .. m - 1
      PROVE  k \in Silent(fn)
  <2>1. k \in DOMAIN fn.body /\ k > n /\ k < m
    BY <1>1, <1>3, <1>7
  <2>2. k \in Silent(fn) \/ m =< k
    BY <1>2, <2>1 DEF NextEmitted
  <2>3. QED
    BY <1>3, <1>7, <2>1, <2>2
<1>9. QED
  BY <1>3, <1>6, <1>8

-----------------------------------------------------------------------------
(* From the optimizer to the frame. *)

allVars == <<vars, tables, pc, emission>>

\* The operands of an instruction, one after the other.
LEMMA OperandsAreListed ==
    ASSUME NEW i, IsInstruction(i), NEW S, Reads(i) \subseteq S
    PROVE  ReadsOf(i) \in Seq(S)
<1> DEFINE r == ReadsOf(i)
<1>1. r \in Seq(Int)
  BY DEF IsInstruction, ReadsOf
<1>2. \A k \in DOMAIN r : r[k] \in S
  BY DEF Reads
<1> HIDE DEF r
<1>3. IsList(r)
  BY <1>1, ListIs
<1>4. QED
  BY <1>2, <1>3, ListOf DEF r

\* A function that no fold has stopped the compiler in is one the tables can be made for.
LEMMA FunctionListed ==
    ASSUME NEW p, IsProgram(p), NEW fn \in Members(p.functions), ~Stopped(fn)
    PROVE  Listed(fn) /\ fn.params \in Seq(SlotsOf(fn))
<1>1. IsFunction(fn, Arity(p))
  BY DEF IsProgram, Members
<1>2. /\ fn.slotCount \in Nat /\ fn.named \in Seq(SlotsOf(fn)) /\ fn.params \in Seq(SlotsOf(fn))
      /\ fn.body \in Seq(Members(fn.body))
  BY <1>1 DEF IsFunction, SlotsOf, IsList, Members
<1>3. ASSUME NEW n \in DOMAIN fn.body
      PROVE  LET i == fn.body[n]
             IN  /\ ReadsOf(i) \in Seq(SlotsOf(fn))
                 /\ i.op \in {"Const", "Unary", "Binary"} => i.dest \in SlotsOf(fn)
                 /\ i.op = "Const" => i.value \in Words
  <2>1. IsInstruction(fn.body[n]) /\ FitsFrame(fn.body[n], fn.slotCount, Arity(p))
    BY <1>1 DEF IsFunction
  <2> DEFINE i == fn.body[n]
  <2>2. i.op = "Const" => i.value # Undef
    BY DEF Stopped
  <2> HIDE DEF i
  <2>3. ReadsOf(i) \in Seq(SlotsOf(fn))
    <3>1. IsInstruction(i) /\ Reads(i) \subseteq SlotsOf(fn)
      BY <2>1 DEF FitsFrame, SlotsOf, i
    <3>2. QED
      BY <3>1, OperandsAreListed
  <2>4. i.op \in {"Const", "Unary", "Binary"} => i.dest \in SlotsOf(fn)
    BY <2>1 DEF FitsFrame, DefinesSlot, SlotsOf, i
  <2>5. i.op = "Const" => i.value \in Words
    BY <2>1, <2>2 DEF IsInstruction, i
  <2>6. QED
    BY <2>3, <2>4, <2>5 DEF i
<1>4. QED
  BY <1>2, <1>3 DEF Listed

\* what HomesApart asks of the tables of one function
Apart(t) ==
    /\ \A s, u \in t.slots : t.home[s] = t.home[u] /\ t.home[s] # NoReg => s = u
    /\ FrameApart(Cardinality({s \in t.slots : t.home[s] # NoReg}), Cardinality(t.slots))

LEMMA TablesApart == ASSUME NEW fn, Listed(fn) PROVE Apart(TablesOf(fn))
<1> DEFINE t == TablesOf(fn)
           home == RegMap(UsesOf(fn), Ranked(fn), SlotsOf(fn))
           saved == {s \in t.slots : t.home[s] # NoReg}
<1>1. t.slots = SlotsOf(fn) /\ t.home = home
  BY DEF TablesOf
<1>2. \A s, u \in SlotsOf(fn) : home[s] = home[u] /\ home[s] # NoReg => s = u
  BY TablesFit
<1>3. IsFiniteSet(SlotsOf(fn))
  <2>1. fn.slotCount - 1 \in Int /\ 0 \in Int
    BY DEF Listed
  <2>2. QED
    BY <2>1, FS_Interval DEF SlotsOf
<1> HIDE DEF t, home
<1>4. IsFiniteSet(t.slots) /\ IsFiniteSet(saved)
  BY <1>1, <1>3, FS_Subset
<1> HIDE DEF saved
<1>5. Cardinality(saved) \in Nat /\ Cardinality(t.slots) \in Nat
  BY <1>4, FS_CardinalityType
<1>6. FrameApart(Cardinality(saved), Cardinality(t.slots))
  BY <1>5, FrameLayout
<1>7. QED
  BY <1>1, <1>2, <1>6 DEF Apart, saved, t

-----------------------------------------------------------------------------
(* The compiler from beginning to end. *)

\* t are the tables of a function they can be made for
Tabled(t) == \E fn : Listed(fn) /\ fn.params \in Seq(SlotsOf(fn)) /\ t = TablesOf(fn)

TInv == IInv /\ (tables = NotStarted \/ Tabled(tables))

\* The emitter leaves the program alone, and its own tables too.
LEMMA EmittingKeeps ==
    EmitLabel \/ EmitGoto \/ EmitBranch \/ EmitReturn \/ EmitOnward \/ EmitArguments \/ Emitted
        => UNCHANGED <<vars, tables>>
<1>1. EmitLabel => UNCHANGED <<vars, tables>>
  BY DEF EmitLabel
<1>2. EmitGoto => UNCHANGED <<vars, tables>>
  BY DEF EmitGoto
<1>3. EmitBranch => UNCHANGED <<vars, tables>>
  BY DEF EmitBranch
<1>4. EmitReturn => UNCHANGED <<vars, tables>>
  BY DEF EmitReturn
<1>5. EmitOnward => UNCHANGED <<vars, tables>>
  BY DEF EmitOnward
<1>6. EmitArguments => UNCHANGED <<vars, tables>>
  BY DEF EmitArguments
<1>7. Emitted => UNCHANGED <<vars, tables>>
  BY DEF Emitted
<1>8. QED
  BY <1>1, <1>2, <1>3, <1>4, <1>5, <1>6, <1>7

LEMMA TablesStay == TInv /\ [EmitNext]_allVars => TInv'
<1> SUFFICES ASSUME TInv, [EmitNext]_allVars PROVE TInv'
  OBVIOUS
<1>1. CASE Compile
  <2>1. IInv'
    BY <1>1, PassKeeps, InlineKeeps, RemoveDeadKeeps, RestKeeps DEF Compile, Next, TInv
  <2>2. tables' = tables
    BY <1>1 DEF Compile
  <2>3. QED
    BY <2>1, <2>2 DEF TInv
<1>2. CASE BeginFunction
  <2>1. stage = "done" /\ UNCHANGED vars
    BY <1>2 DEF BeginFunction
  <2>2. IInv'
    BY <2>1, StutterKeeps DEF TInv
  <2>3. PICK fn \in Members(prog.functions) : tables' = TablesOf(fn)
    BY <1>2 DEF BeginFunction
  <2>4. IsProgram(prog) /\ ~Stopped(fn)
    BY <2>1 DEF TInv, IInv, NoneStopped, Members
  <2>5. Listed(fn) /\ fn.params \in Seq(SlotsOf(fn))
    BY <2>4, FunctionListed
  <2>6. Tabled(tables')
    BY <2>3, <2>5 DEF Tabled
  <2>7. QED
    BY <2>2, <2>6 DEF TInv
<1>3. ASSUME UNCHANGED <<vars, tables>> PROVE TInv'
  BY <1>3, StutterKeeps DEF TInv
<1>4. CASE UNCHANGED allVars
  BY <1>3, <1>4 DEF allVars
<1>5. QED
  BY <1>1, <1>2, <1>3, <1>4, EmittingKeeps DEF EmitNext

\* Every function that is emitted keeps its slots apart: whatever the optimizer makes of
\* a program, no two slots of a function share an s-register and its stack frame puts no
\* two things in one place (allocateRegisters, slotOffset, computeFrameSize).
THEOREM HomesStayApart == Started /\ Idle /\ [][EmitNext]_allVars => []HomesApart
<1>1. Started /\ Idle => TInv
  BY Starts DEF TInv, Idle
<1>2. TInv => HomesApart
  <2>1. SUFFICES ASSUME TInv, NEW t \in {tables} \ {NotStarted} PROVE Apart(t)
    BY DEF HomesApart, Apart
  <2>2. Tabled(t)
    BY <2>1 DEF TInv
  <2>3. PICK fn : Listed(fn) /\ t = TablesOf(fn)
    BY <2>2 DEF Tabled
  <2>4. QED
    BY <2>3, TablesApart
<1>3. QED
  BY <1>1, <1>2, TablesStay, PTL

\* what the emitter takes for granted of its tables (TableAssumption, FunctionAssumption)
AssumptionsMet ==
    \A t \in {tables} \ {NotStarted} :
        /\ t.home \in [t.slots -> Members(SReg) \cup {NoReg}]
        /\ \A s, u \in t.slots : t.home[s] = t.home[u] /\ t.home[s] # NoReg => s = u
        /\ t.const \in [t.slots -> Words \cup {Undef}]
        /\ t.skip \subseteq t.slots /\ t.params \subseteq t.slots /\ t.params \cap t.skip = {}

\* The tables of every function that is emitted are as the emitter's bookkeeping needs
\* them: no parameter is without a store, no store is left out of a slot the function
\* does not have (allocateRegisters, computeConstSlots and the guards they stand for).
THEOREM TablesStayFit == Started /\ Idle /\ [][EmitNext]_allVars => []AssumptionsMet
<1>1. Started /\ Idle => TInv
  BY Starts DEF TInv, Idle
<1>2. TInv => AssumptionsMet
  <2>1. SUFFICES ASSUME TInv, NEW t \in {tables} \ {NotStarted}
                 PROVE  /\ t.home \in [t.slots -> Members(SReg) \cup {NoReg}]
                        /\ \A s, u \in t.slots : t.home[s] = t.home[u] /\ t.home[s] # NoReg => s = u
                        /\ t.const \in [t.slots -> Words \cup {Undef}]
                        /\ t.skip \subseteq t.slots /\ t.params \subseteq t.slots
                        /\ t.params \cap t.skip = {}
    BY DEF AssumptionsMet
  <2>2. Tabled(t)
    BY <2>1 DEF TInv
  <2>3. PICK fn : Listed(fn) /\ fn.params \in Seq(SlotsOf(fn)) /\ t = TablesOf(fn)
    BY <2>2 DEF Tabled
  <2>4. /\ t.slots = SlotsOf(fn) /\ t.params = Members(fn.params)
        /\ t.home = RegMap(UsesOf(fn), Ranked(fn), SlotsOf(fn))
        /\ t.const = SlotConst(fn) /\ t.skip = SkipStore(fn)
    BY <2>3 DEF TablesOf
  <2>5. Members(fn.params) \subseteq SlotsOf(fn)
    BY <2>3 DEF Members
  <2>6. QED
    BY <2>3, <2>4, <2>5, TablesFit
<1>3. QED
  BY <1>1, <1>2, TablesStay, PTL
=============================================================================
