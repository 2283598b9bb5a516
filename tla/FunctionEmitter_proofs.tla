------------------------ MODULE FunctionEmitter_proofs ------------------------
(***************************************************************************)
(* For every function, whatever its slots, tables, registers and cache     *)
(* capacity, the emitted code reads the values the IR means, provided the  *)
(* function meets the three conditions of Benign.                          *)
(***************************************************************************)
EXTENDS FunctionEmitter, TLAPS

-----------------------------------------------------------------------------
(* The inductive invariant. *)

Rows(e, v) ==
    \A row \in e.cache :
        /\ e.reg[row.reg] = v[row.slot]
        /\ ~InSReg(row.slot) /\ ~IsConst(row.slot)
        /\ \A other \in e.cache : other.slot = row.slot => other = row

Held(e) == \A r \in WorkRegs : e.held[r] # NoReg => e.reg[r] = e.reg[e.held[r]]

Homes(e, v) ==
    \A s \in Slots : v[s] # Undef =>
        /\ InSReg(s) => e.reg[Home[s]] = v[s]
        /\ IsConst(s) => v[s] = ConstOf[s]
        /\ ~InSReg(s) /\ ~IsConst(s) /\ s \notin Skip => e.mem[s] = v[s]

Good(e, v) ==
    /\ e \in Emitter
    /\ v \in [Slots -> Word]
    /\ Rows(e, v)
    /\ Held(e)
    /\ Homes(e, v)

\* storeSlot writes an s-register without looking at sRegHeld_: only a0 may be
\* listed there.
OnlyA0Held(e) == \A r \in WorkRegs : r # "a0" => e.held[r] = NoReg

\* the general case of emitBinary writes t0 without looking at cache_
NoT0(e) == \A row \in e.cache : row.reg # "t0"

\* a slot that has no home but a register is in a0 when it is read
InA0(e, s) == \E row \in e.cache : row.slot = s /\ row.reg = "a0"
Found(e, s) == s \in Deferred => InA0(e, s)

CallInv ==
    ~Idle =>
        LET n == Len(call.stacked) IN
        /\ pending = NoSlot
        /\ call.dest \in Slots /\ ~IsConst(call.dest)
        /\ \A i \in 1 .. Len(call.args) :
                val[call.args[i]] # Undef /\ call.args[i] \notin Deferred
        /\ n <= Overflow(call.args)
        /\ n < Overflow(call.args) => call.left = Len(call.args) - n
        /\ n = Overflow(call.args) => call.left <= InRegs(call.args)
        /\ \A i \in 1 .. n : call.stacked[i] = val[call.args[Len(ArgReg) + i]]
        /\ \A i \in 1 .. Len(call.args) :
                i > call.left /\ i <= Len(ArgReg) => em.reg[ArgReg[i]] = val[call.args[i]]

IInv ==
    /\ Good(em, val)
    /\ Idle => OnlyA0Held(em)
    /\ "generic" \in Shapes => NoT0(em)
    /\ pending \in Deferred \cup {NoSlot}
    /\ pending # NoSlot => InA0(em, pending)
    /\ call \in Calls
    /\ CallInv
    /\ misread = {}


-----------------------------------------------------------------------------
(* The operators on cache_. *)

\* Ageing a row changes neither its slot nor its register.
LEMMA OlderRows ==
    ASSUME NEW cache, cache \subseteq Row
    PROVE  /\ Older(cache) \subseteq Row
           /\ \A row \in Older(cache) :
                \E old \in cache : old.slot = row.slot /\ old.reg = row.reg
           /\ (\A a, b \in cache : a.slot = b.slot => a = b)
                => \A a, b \in Older(cache) : a.slot = b.slot => a = b
<1> DEFINE gap == CHOOSE n \in 0 .. Cardinality(cache) :
                     n \notin {row.age : row \in cache} /\ 0 .. n-1 \subseteq {row.age : row \in cache}
           aged(row) == [row EXCEPT !.age = IF @ < gap THEN @ + 1 ELSE @]
<1>1. Older(cache) = {aged(row) : row \in cache}
  BY DEF Older
<1>2. ASSUME NEW row \in cache
      PROVE  aged(row) \in Row /\ aged(row).slot = row.slot /\ aged(row).reg = row.reg
  BY DEF Row
<1> HIDE DEF aged
<1>3. Older(cache) \subseteq Row
  BY <1>1, <1>2
<1>4. \A row \in Older(cache) : \E old \in cache : old.slot = row.slot /\ old.reg = row.reg
  BY <1>1, <1>2
<1>5. ASSUME \A a, b \in cache : a.slot = b.slot => a = b
      PROVE  \A a, b \in Older(cache) : a.slot = b.slot => a = b
  BY <1>1, <1>2, <1>5
<1>6. QED
  BY <1>3, <1>4, <1>5

\* addCache: the new row is there, alone for its slot, and every other row was
\* there before.
LEMMA AddCacheRows ==
    ASSUME NEW cache, cache \subseteq Row, NEW s \in Slots, NEW r \in WorkRegs
    PROVE  LET c == AddCache(cache, s, r) IN
           /\ c \subseteq Row
           /\ \E row \in c : row.slot = s /\ row.reg = r
           /\ \A row \in c :
                \/ row.slot = s /\ row.reg = r
                \/ row.slot # s /\ \E old \in cache : old.slot = row.slot /\ old.reg = row.reg
           /\ (\A a, b \in cache : a.slot = b.slot => a = b)
                => \A a, b \in c : a.slot = b.slot => a = b
<1> DEFINE kept == DropSlot(cache, s)
           older == Older(kept)
           new == [slot |-> s, reg |-> r, age |-> 0]
           c == AddCache(cache, s, r)
<1>1. kept \subseteq Row /\ kept \subseteq cache /\ \A row \in kept : row.slot # s
  BY DEF DropSlot
<1>2. older \subseteq Row
      /\ \A row \in older : \E old \in kept : old.slot = row.slot /\ old.reg = row.reg
      /\ ((\A a, b \in kept : a.slot = b.slot => a = b)
            => \A a, b \in older : a.slot = b.slot => a = b)
  BY <1>1, OlderRows
<1>3. c \subseteq {new} \cup older /\ new \in c
  BY DEF AddCache
<1>4. new \in Row
  BY DEF Row
<1>5. \A row \in older : row.slot # s
  BY <1>1, <1>2
<1> HIDE DEF kept, older, c
<1>6. ASSUME \A a, b \in cache : a.slot = b.slot => a = b,
             NEW a \in c, NEW b \in c, a.slot = b.slot
      PROVE  a = b
  BY <1>1, <1>2, <1>3, <1>5, <1>6
<1>7. \A row \in c : \/ row.slot = s /\ row.reg = r
                     \/ row.slot # s /\ \E old \in cache : old.slot = row.slot /\ old.reg = row.reg
  BY <1>1, <1>2, <1>3, <1>5
<1>8. QED
  BY <1>2, <1>3, <1>4, <1>6, <1>7 DEF c

LEMMA CachedInRow ==
    ASSUME NEW cache, cache \subseteq Row, NEW s \in Slots, IsCached(cache, s)
    PROVE  \E row \in cache : row.slot = s /\ row.reg = CachedIn(cache, s)
  BY DEF IsCached, CachedIn

-----------------------------------------------------------------------------
(* What each method keeps true. *)

LEMMA KillRegGood ==
    ASSUME NEW e, NEW v, Good(e, v), NEW r \in WorkRegs
    PROVE  /\ Good(KillReg(e, r), v)
           /\ \A row \in KillReg(e, r).cache : row.reg # r /\ row \in e.cache
           /\ KillReg(e, r).held = [e.held EXCEPT ![r] = NoReg]
           /\ KillReg(e, r).reg = e.reg
<1> DEFINE f == KillReg(e, r)
<1>1. /\ f.cache = DropReg(e.cache, r) /\ f.held = [e.held EXCEPT ![r] = NoReg]
      /\ f.reg = e.reg /\ f.mem = e.mem /\ f \in Emitter
  BY DEF KillReg, Good, Emitter, DropReg
<1>2. f.cache \subseteq e.cache /\ \A row \in f.cache : row.reg # r
  BY <1>1 DEF DropReg
<1> HIDE DEF f
<1>3. Rows(f, v)
  BY <1>1, <1>2 DEF Good, Rows
<1>4. Held(f)
  BY <1>1 DEF Good, Held, Emitter
<1>5. Homes(f, v)
  BY <1>1 DEF Good, Homes
<1>6. QED
  BY <1>1, <1>2, <1>3, <1>4, <1>5 DEF Good, f

LEMMA OverwriteGood ==
    ASSUME NEW e, NEW v, Good(e, v), NEW r \in WorkRegs, NEW w \in Word
    PROVE  /\ Good(Overwrite(e, r, w), v)
           /\ Overwrite(e, r, w).reg = [e.reg EXCEPT ![r] = w]
           /\ Overwrite(e, r, w).mem = e.mem
           /\ Overwrite(e, r, w).held = [e.held EXCEPT ![r] = NoReg]
           /\ Overwrite(e, r, w).cache = DropReg(e.cache, r)
<1> DEFINE f == Overwrite(e, r, w)
<1>1. /\ f.cache = DropReg(e.cache, r) /\ f.held = [e.held EXCEPT ![r] = NoReg]
      /\ f.reg = [e.reg EXCEPT ![r] = w] /\ f.mem = e.mem /\ f \in Emitter
  BY DEF Overwrite, Write, KillReg, Good, Emitter, DropReg, Regs
<1>2. f.cache \subseteq e.cache /\ \A row \in f.cache : row.reg # r
  BY <1>1 DEF DropReg
<1>3. \A row \in e.cache : row.reg \in WorkRegs
  BY DEF Good, Emitter, Row
<1> HIDE DEF f
<1>4. Rows(f, v)
  BY <1>1, <1>2, <1>3 DEF Good, Rows, Emitter, Regs
<1>5. Held(f)
  <2>1. ASSUME NEW q \in WorkRegs, f.held[q] # NoReg
        PROVE  f.reg[q] = f.reg[f.held[q]]
    <3>1. q # r /\ f.held[q] = e.held[q]
      BY <1>1, <2>1 DEF Good, Emitter
    <3>2. e.held[q] \in SRegs
      BY <2>1, <3>1 DEF Good, Emitter
    <3>3. e.held[q] # r
      BY <3>2, RegisterAssumption
    <3>4. QED
      BY <1>1, <2>1, <3>1, <3>2, <3>3 DEF Good, Held, Emitter, Regs
  <2>2. QED
    BY <2>1 DEF Held
<1>6. Homes(f, v)
  <2>1. ASSUME NEW s \in Slots, InSReg(s)
        PROVE  f.reg[Home[s]] = e.reg[Home[s]]
    BY <1>1, <2>1, RegisterAssumption, TableAssumption DEF InSReg, Good, Emitter, Regs
  <2>2. QED
    BY <1>1, <2>1 DEF Good, Homes
<1>7. QED
  BY <1>1, <1>4, <1>5, <1>6 DEF Good, f

\* addCache of a register that holds the slot's value adds a fact.
LEMMA AddCacheGood ==
    ASSUME NEW e, NEW v, Good(e, v), NEW r \in WorkRegs, NEW s \in Slots,
           ~InSReg(s), ~IsConst(s), e.reg[r] = v[s],
           NEW f, f = [cache |-> f.cache, held |-> f.held, reg |-> f.reg, mem |-> f.mem],
           f.cache = AddCache(e.cache, s, r), f.held = e.held, f.reg = e.reg, f.mem = e.mem
    PROVE  /\ Good(f, v)
           /\ IsCached(f.cache, s)
           /\ \A row \in f.cache : row.reg = r \/ \E old \in e.cache : old.reg = row.reg
<1>1. e.cache \subseteq Row /\ \A a, b \in e.cache : a.slot = b.slot => a = b
  BY DEF Good, Emitter, Rows
<1>2. /\ AddCache(e.cache, s, r) \subseteq Row
      /\ \E row \in AddCache(e.cache, s, r) : row.slot = s /\ row.reg = r
      /\ \A row \in AddCache(e.cache, s, r) :
            \/ row.slot = s /\ row.reg = r
            \/ row.slot # s /\ \E old \in e.cache : old.slot = row.slot /\ old.reg = row.reg
      /\ \A a, b \in AddCache(e.cache, s, r) : a.slot = b.slot => a = b
  BY <1>1, AddCacheRows
<1>3. /\ f.cache = AddCache(e.cache, s, r) /\ f.held = e.held
      /\ f.reg = e.reg /\ f.mem = e.mem /\ f \in Emitter
  BY <1>2 DEF Good, Emitter
<1>4. Rows(f, v)
  BY <1>2, <1>3 DEF Good, Rows
<1>5. Held(f) /\ Homes(f, v)
  BY <1>3 DEF Good, Held, Homes
<1>6. IsCached(f.cache, s)
  BY <1>2, <1>3 DEF IsCached
<1>7. \A row \in f.cache : row.reg = r \/ \E old \in e.cache : old.reg = row.reg
  BY <1>2, <1>3
<1>8. QED
  BY <1>3, <1>4, <1>5, <1>6, <1>7 DEF Good

\* loadSlot brings the slot's value, whichever way it takes.
LEMMA LoadSlotGood ==
    ASSUME NEW e, NEW v, Good(e, v), NEW r \in WorkRegs, NEW s \in Slots,
           v[s] # Undef, Found(e, s)
    PROVE  LET f == LoadSlot(e, r, s) IN
           /\ Good(f, v)
           /\ f.reg[r] = v[s]
           /\ \A q \in Regs : q # r => f.reg[q] = e.reg[q]
           /\ \A q \in WorkRegs : q # r => f.held[q] = e.held[q]
           /\ ~InSReg(s) => f.held[r] = NoReg
           /\ \A row \in f.cache : row.reg = r \/ \E old \in e.cache : old.reg = row.reg
           /\ ~IsCached(e.cache, s) => f.cache \subseteq e.cache
<1> DEFINE f == LoadSlot(e, r, s)
<1>0. /\ e.cache \subseteq Row /\ e.held \in [WorkRegs -> SRegs \cup {NoReg}]
      /\ e.reg \in [Regs -> Word] /\ e.mem \in [Slots -> Word]
      /\ v \in [Slots -> Word] /\ r \in Regs /\ v[s] \in Word
  BY DEF Good, Emitter, Regs
<1>1. ASSUME f = Overwrite(e, r, v[s])
      PROVE  /\ Good(f, v)
             /\ f.reg[r] = v[s]
             /\ \A q \in Regs : q # r => f.reg[q] = e.reg[q]
             /\ \A q \in WorkRegs : q # r => f.held[q] = e.held[q]
             /\ f.held[r] = NoReg
             /\ f.cache \subseteq e.cache
  <2>1. /\ Good(f, v) /\ f.reg = [e.reg EXCEPT ![r] = v[s]]
        /\ f.held = [e.held EXCEPT ![r] = NoReg] /\ f.cache = DropReg(e.cache, r)
    BY <1>0, <1>1, OverwriteGood
  <2>2. QED
    BY <1>0, <2>1 DEF DropReg
<1>2. CASE InSReg(s)
  <2>1. Home[s] \in SRegs /\ e.reg[Home[s]] = v[s]
    BY <1>2, TableAssumption DEF InSReg, Good, Homes
  <2>2. CASE e.held[r] = Home[s]
    <3>1. f = e
      BY <1>2, <2>2 DEF LoadSlot
    <3>2. e.reg[r] = v[s]
      BY <2>1, <2>2, RegisterAssumption DEF Good, Held
    <3> HIDE DEF f
    <3>3. QED
      BY <1>2, <3>1, <3>2 DEF f
  <2>3. CASE e.held[r] # Home[s]
    <3> DEFINE g == Overwrite(e, r, v[s])
    <3>1. f = [g EXCEPT !.held[r] = Home[s]]
      BY <1>2, <2>1, <2>3 DEF LoadSlot
    <3>2. /\ Good(g, v) /\ g.reg = [e.reg EXCEPT ![r] = v[s]]
          /\ g.held = [e.held EXCEPT ![r] = NoReg] /\ g.cache = DropReg(e.cache, r)
      BY <1>0, OverwriteGood
    <3> HIDE DEF f, g
    <3>3. /\ f.reg = g.reg /\ f.mem = g.mem /\ f.cache = g.cache
          /\ f.held = [g.held EXCEPT ![r] = Home[s]] /\ f \in Emitter
      BY <2>1, <3>1, <3>2 DEF Good, Emitter
    <3>4. g.reg[Home[s]] = v[s] /\ g.reg[r] = v[s]
      BY <1>0, <2>1, <3>2, RegisterAssumption DEF Regs
    <3>5. Held(f)
      BY <1>0, <2>1, <3>2, <3>3, <3>4 DEF Good, Held, Emitter
    <3>6. Rows(f, v) /\ Homes(f, v)
      BY <3>2, <3>3 DEF Good, Rows, Homes
    <3>7. Good(f, v)
      BY <3>2, <3>3, <3>5, <3>6 DEF Good
    <3>8. /\ \A q \in Regs : q # r => f.reg[q] = e.reg[q]
          /\ \A q \in WorkRegs : q # r => f.held[q] = e.held[q]
          /\ f.cache \subseteq e.cache
      BY <1>0, <3>2, <3>3 DEF DropReg
    <3>9. QED
      BY <1>2, <3>3, <3>4, <3>7, <3>8 DEF f
  <2>4. QED
    BY <2>2, <2>3
<1>3. CASE ~InSReg(s) /\ IsConst(s)
  <2>1. f = Overwrite(e, r, v[s])
    BY <1>3 DEF LoadSlot, Good, Homes
  <2> HIDE DEF f
  <2>2. QED
    BY <1>1, <2>1 DEF f
<1>4. CASE ~InSReg(s) /\ ~IsConst(s) /\ ~IsCached(e.cache, s)
  <2>1. e.mem[s] = v[s]
    BY <1>4 DEF Found, InA0, IsCached, Deferred, Good, Homes
  <2>2. f = Overwrite(e, r, v[s])
    BY <1>4, <2>1 DEF LoadSlot
  <2> HIDE DEF f
  <2>3. QED
    BY <1>1, <2>2 DEF f
<1>5. CASE ~InSReg(s) /\ ~IsConst(s) /\ IsCached(e.cache, s)
  <2> DEFINE from == CachedIn(e.cache, s)
  <2>1. from \in WorkRegs /\ e.reg[from] = v[s]
    BY <1>0, <1>5, CachedInRow DEF Good, Rows, Row
  <2>2. CASE from = r
    <3> DEFINE g == [cache |-> AddCache(e.cache, s, r), held |-> e.held,
                     reg |-> e.reg, mem |-> e.mem]
    <3>1. /\ f = [cache |-> f.cache, held |-> f.held, reg |-> f.reg, mem |-> f.mem]
          /\ f.cache = g.cache /\ f.held = [e.held EXCEPT ![r] = NoReg]
          /\ f.reg = e.reg /\ f.mem = e.mem
      BY <1>5, <2>2 DEF LoadSlot, Promote, Good, Emitter
    <3>2. /\ Good(g, v) /\ g.reg = e.reg /\ g.held = e.held /\ g.mem = e.mem
          /\ \A row \in g.cache : row.reg = r \/ \E old \in e.cache : old.reg = row.reg
      <4>1. /\ g = [cache |-> g.cache, held |-> g.held, reg |-> g.reg, mem |-> g.mem]
            /\ g.cache = AddCache(e.cache, s, r)
            /\ g.held = e.held /\ g.reg = e.reg /\ g.mem = e.mem
        OBVIOUS
      <4>2. e.reg[r] = v[s] /\ ~InSReg(s) /\ ~IsConst(s)
        BY <1>5, <2>1, <2>2
      <4> HIDE DEF g, f, from
      <4>3. QED
        BY <4>1, <4>2, AddCacheGood
    <3> HIDE DEF f, g
    <3>3. /\ f.reg = g.reg /\ f.mem = g.mem /\ f.cache = g.cache
          /\ f.held = [g.held EXCEPT ![r] = NoReg] /\ f \in Emitter
      BY <1>0, <3>1, <3>2 DEF Good, Emitter
    <3>4. Held(f)
      BY <3>2, <3>3 DEF Good, Held, Emitter
    <3>5. Rows(f, v) /\ Homes(f, v)
      BY <3>2, <3>3 DEF Good, Rows, Homes
    <3>6. Good(f, v)
      BY <3>2, <3>3, <3>4, <3>5 DEF Good
    <3>7. f.reg[r] = v[s]
      BY <2>1, <2>2, <3>2, <3>3
    <3>8. f.held[r] = NoReg /\ \A q \in WorkRegs : q # r => f.held[q] = e.held[q]
      BY <1>0, <3>2, <3>3
    <3>9. QED
      BY <1>5, <3>2, <3>3, <3>6, <3>7, <3>8 DEF f
  <2>3. CASE from # r
    <3> DEFINE g == Overwrite(e, r, v[s])
    <3>1. /\ Good(g, v) /\ g.reg = [e.reg EXCEPT ![r] = v[s]]
          /\ g.held = [e.held EXCEPT ![r] = NoReg] /\ g.cache = DropReg(e.cache, r)
      BY <1>0, OverwriteGood
    <3>2. /\ f = [cache |-> f.cache, held |-> f.held, reg |-> f.reg, mem |-> f.mem]
          /\ f.cache = AddCache(g.cache, s, r)
          /\ f.held = g.held /\ f.reg = g.reg /\ f.mem = g.mem
      BY <1>5, <2>1, <2>3, <3>1 DEF LoadSlot, Good, Emitter
    <3> HIDE DEF f, g
    <3>3. Good(g, v) /\ ~InSReg(s) /\ ~IsConst(s) /\ g.reg[r] = v[s]
      BY <1>0, <1>5, <3>1
    <3>4. /\ Good(f, v)
          /\ \A row \in f.cache : row.reg = r \/ \E old \in g.cache : old.reg = row.reg
      BY <3>2, <3>3, AddCacheGood
    <3>5. f.reg = g.reg /\ f.held = g.held
      BY <3>1, <3>2 DEF Good, Emitter
    <3>6. QED
      BY <1>0, <1>5, <3>1, <3>3, <3>4, <3>5 DEF DropReg, f
  <2>4. QED
    BY <2>2, <2>3
<1>6. QED
  BY <1>2, <1>3, <1>4, <1>5

\* After storeSlot the slot's new value is where it will be looked for.
LEMMA StoreSlotGood ==
    ASSUME NEW e, NEW v, Good(e, v), OnlyA0Held(e), NEW d \in Slots, NEW w \in Val,
           e.reg["a0"] = w, IsConst(d) => InSReg(d) /\ w = ConstOf[d]
    PROVE  LET f == StoreSlot(e, "a0", d)
               u == [v EXCEPT ![d] = w] IN
           /\ Good(f, u)
           /\ f.held = e.held
           /\ \A q \in WorkRegs : f.reg[q] = e.reg[q]
           /\ \A row \in f.cache : row.reg = "a0" \/ \E old \in e.cache : old.reg = row.reg
           /\ Found(f, d)
<1> DEFINE f == StoreSlot(e, "a0", d)
           u == [v EXCEPT ![d] = w]
<1>0. /\ e.cache \subseteq Row /\ e.held \in [WorkRegs -> SRegs \cup {NoReg}]
      /\ e.reg \in [Regs -> Word] /\ e.mem \in [Slots -> Word]
      /\ v \in [Slots -> Word] /\ u \in [Slots -> Word] /\ "a0" \in WorkRegs
      /\ u[d] = w /\ \A s \in Slots : s # d => u[s] = v[s]
  BY FunctionAssumption DEF Good, Emitter, Word
<1>1. CASE InSReg(d)
  <2>1. /\ f.cache = e.cache /\ f.held = e.held /\ f.mem = e.mem
        /\ f.reg = [e.reg EXCEPT ![Home[d]] = w] /\ f \in Emitter
        /\ Home[d] \in SRegs
    BY <1>0, <1>1, TableAssumption DEF StoreSlot, Mv, Write, InSReg, Good, Emitter, Regs, Word
  <2> HIDE DEF f, u
  <2>2. \A q \in WorkRegs : f.reg[q] = e.reg[q]
    BY <1>0, <2>1, RegisterAssumption DEF Regs
  <2>3. Rows(f, u)
    <3>1. \A row \in e.cache : row.slot # d /\ row.slot \in Slots /\ row.reg \in WorkRegs
      BY <1>0, <1>1 DEF Good, Rows, Row
    <3>2. QED
      BY <1>0, <2>1, <2>2, <3>1 DEF Good, Rows
  <2>4. Held(f)
    <3>1. ASSUME NEW q \in WorkRegs, f.held[q] # NoReg
          PROVE  f.reg[q] = f.reg[f.held[q]]
      <4>1. q = "a0"
        BY <2>1, <3>1 DEF OnlyA0Held
      <4>2. e.held[q] \in SRegs /\ e.reg[q] = e.reg[e.held[q]]
        BY <1>0, <2>1, <3>1 DEF Good, Held
      <4>3. QED
        BY <1>0, <2>1, <2>2, <4>1, <4>2 DEF Regs
    <3>2. QED
      BY <3>1 DEF Held
  <2>5. Homes(f, u)
    <3>1. ASSUME NEW s \in Slots, InSReg(s), s # d
          PROVE  f.reg[Home[s]] = e.reg[Home[s]]
      BY <1>0, <1>1, <2>1, <3>1, TableAssumption DEF InSReg, Regs
    <3>2. f.reg[Home[d]] = w
      BY <1>0, <2>1 DEF Regs
    <3>3. QED
      BY <1>0, <1>1, <2>1, <3>1, <3>2 DEF Good, Homes
  <2>6. Found(f, d)
    BY <1>1 DEF Found, Deferred
  <2>7. QED
    BY <1>0, <2>1, <2>2, <2>3, <2>4, <2>5, <2>6 DEF Good, f, u
<1>2. CASE ~InSReg(d)
  <2>1. ~IsConst(d)
    BY <1>2
  <2> DEFINE c == AddCache(e.cache, d, "a0")
  <2>2. /\ c \subseteq Row
        /\ \E row \in c : row.slot = d /\ row.reg = "a0"
        /\ \A row \in c :
            \/ row.slot = d /\ row.reg = "a0"
            \/ row.slot # d /\ \E old \in e.cache : old.slot = row.slot /\ old.reg = row.reg
        /\ \A a, b \in c : a.slot = b.slot => a = b
    <3>1. \A a, b \in e.cache : a.slot = b.slot => a = b
      BY DEF Good, Rows
    <3>2. QED
      BY <1>0, <3>1, AddCacheRows
  <2> HIDE DEF c
  <2>3. /\ f.cache = c /\ f.held = e.held /\ f.reg = e.reg /\ f \in Emitter
        /\ \A s \in Slots : s # d => f.mem[s] = e.mem[s]
        /\ d \notin Skip => f.mem[d] = w
    BY <1>0, <1>2, <2>2 DEF StoreSlot, Good, Emitter, Word, c
  <2> HIDE DEF f, u
  <2>4. Rows(f, u)
    BY <1>0, <1>2, <2>2, <2>3 DEF Good, Rows, Row
  <2>5. Held(f)
    BY <2>3 DEF Good, Held
  <2>6. Homes(f, u)
    BY <1>0, <1>2, <2>1, <2>3 DEF Good, Homes
  <2>7. Found(f, d)
    BY <2>2, <2>3 DEF Found, InA0
  <2>8. QED
    BY <1>0, <2>2, <2>3, <2>4, <2>5, <2>6, <2>7 DEF Good, f, u
<1>3. QED
  BY <1>1, <1>2

-----------------------------------------------------------------------------
(* The state between two instructions. *)

Steady(e, v) ==
    /\ Good(e, v)
    /\ OnlyA0Held(e)
    /\ "generic" \in Shapes => NoT0(e)

LEMMA LoadA0Steady ==
    ASSUME NEW e, NEW v, Steady(e, v), NEW s \in Slots, v[s] # Undef, Found(e, s)
    PROVE  /\ Steady(LoadSlot(e, "a0", s), v)
           /\ LoadSlot(e, "a0", s).reg["a0"] = v[s]
           /\ \A q \in Regs : q # "a0" => LoadSlot(e, "a0", s).reg[q] = e.reg[q]
           /\ \A row \in LoadSlot(e, "a0", s).cache :
                row.reg = "a0" \/ \E old \in e.cache : old.reg = row.reg
<1> DEFINE f == LoadSlot(e, "a0", s)
<1>1. "a0" \in WorkRegs
  BY FunctionAssumption
<1>2. /\ Good(f, v) /\ f.reg["a0"] = v[s]
      /\ \A q \in Regs : q # "a0" => f.reg[q] = e.reg[q]
      /\ \A q \in WorkRegs : q # "a0" => f.held[q] = e.held[q]
      /\ \A row \in f.cache : row.reg = "a0" \/ \E old \in e.cache : old.reg = row.reg
  BY <1>1, LoadSlotGood DEF Steady
<1> HIDE DEF f
<1>3. Steady(f, v)
  BY <1>2 DEF Steady, OnlyA0Held, NoT0
<1>4. QED
  BY <1>2, <1>3 DEF f

\* an operand that is in no register goes to t0 and leaves no row there
LEMMA LoadT0Steady ==
    ASSUME NEW e, NEW v, Steady(e, v), NEW s \in Slots, v[s] # Undef, Found(e, s),
           SlotInReg(e, s) = NoReg
    PROVE  /\ Steady(LoadSlot(e, "t0", s), v)
           /\ LoadSlot(e, "t0", s).reg["t0"] = v[s]
           /\ \A q \in Regs : q # "t0" => LoadSlot(e, "t0", s).reg[q] = e.reg[q]
           /\ LoadSlot(e, "t0", s).cache \subseteq e.cache
<1> DEFINE f == LoadSlot(e, "t0", s)
<1>1. "t0" \in WorkRegs
  BY FunctionAssumption
<1>2. ~InSReg(s)
  BY RegisterAssumption, TableAssumption DEF SlotInReg, InSReg
<1>3. ~IsCached(e.cache, s)
  <2>1. SUFFICES ASSUME IsCached(e.cache, s) PROVE FALSE
    OBVIOUS
  <2>2. CachedIn(e.cache, s) \in WorkRegs
    BY <2>1, CachedInRow DEF Steady, Good, Emitter, Row
  <2>3. QED
    BY <1>2, <2>1, <2>2, RegisterAssumption DEF SlotInReg
<1>4. /\ Good(f, v) /\ f.reg["t0"] = v[s]
      /\ \A q \in Regs : q # "t0" => f.reg[q] = e.reg[q]
      /\ \A q \in WorkRegs : q # "t0" => f.held[q] = e.held[q]
      /\ f.held["t0"] = NoReg
      /\ f.cache \subseteq e.cache
  BY <1>1, <1>2, <1>3, LoadSlotGood DEF Steady
<1> HIDE DEF f
<1>5. Steady(f, v)
  BY <1>4 DEF Steady, OnlyA0Held, NoT0
<1>6. QED
  BY <1>4, <1>5 DEF f

LEMMA StoreA0Steady ==
    ASSUME NEW e, NEW v, Steady(e, v), NEW d \in Slots, NEW w \in Val,
           e.reg["a0"] = w, IsConst(d) => InSReg(d) /\ w = ConstOf[d]
    PROVE  /\ Steady(StoreSlot(e, "a0", d), [v EXCEPT ![d] = w])
           /\ Found(StoreSlot(e, "a0", d), d)
<1> DEFINE f == StoreSlot(e, "a0", d)
           u == [v EXCEPT ![d] = w]
<1>1. /\ Good(f, u) /\ f.held = e.held /\ Found(f, d)
      /\ \A row \in f.cache : row.reg = "a0" \/ \E old \in e.cache : old.reg = row.reg
  BY StoreSlotGood DEF Steady
<1> HIDE DEF f, u
<1>2. Steady(f, u)
  BY <1>1 DEF Steady, OnlyA0Held, NoT0
<1>3. QED
  BY <1>1, <1>2 DEF f, u

LEMMA KillSteady ==
    ASSUME NEW e, NEW v, Steady(e, v), NEW r \in WorkRegs
    PROVE  /\ Steady(KillReg(e, r), v)
           /\ KillReg(e, r).reg = e.reg
           /\ \A row \in KillReg(e, r).cache : row.reg # r
<1> DEFINE f == KillReg(e, r)
<1>1. /\ Good(f, v) /\ f.reg = e.reg /\ f.held = [e.held EXCEPT ![r] = NoReg]
      /\ \A row \in f.cache : row.reg # r /\ row \in e.cache
  BY KillRegGood DEF Steady
<1>2. e.held \in [WorkRegs -> SRegs \cup {NoReg}]
  BY DEF Steady, Good, Emitter
<1> HIDE DEF f
<1>3. Steady(f, v)
  BY <1>1, <1>2 DEF Steady, OnlyA0Held, NoT0
<1>4. QED
  BY <1>1, <1>3 DEF f

LEMMA OverwriteSteady ==
    ASSUME NEW e, NEW v, Steady(e, v), NEW r \in WorkRegs, NEW w \in Word
    PROVE  Steady(Overwrite(e, r, w), v) /\ Overwrite(e, r, w).reg[r] = w
<1> DEFINE f == Overwrite(e, r, w)
<1>1. /\ Good(f, v) /\ f.reg = [e.reg EXCEPT ![r] = w]
      /\ f.held = [e.held EXCEPT ![r] = NoReg] /\ f.cache \subseteq e.cache
  BY OverwriteGood DEF Steady, DropReg
<1>2. e.held \in [WorkRegs -> SRegs \cup {NoReg}] /\ e.reg \in [Regs -> Word]
  BY DEF Steady, Good, Emitter
<1> HIDE DEF f
<1>3. Steady(f, v)
  BY <1>1, <1>2 DEF Steady, OnlyA0Held, NoT0
<1>4. QED
  BY <1>1, <1>2, <1>3 DEF f, Regs

LEMMA OpViaA0Steady ==
    ASSUME NEW e, NEW v, Steady(e, v), NEW d \in Slots, NEW w \in Val,
           IsConst(d) => InSReg(d) /\ w = ConstOf[d]
    PROVE  /\ Steady(OpViaA0(e, w, d), [v EXCEPT ![d] = w])
           /\ Found(OpViaA0(e, w, d), d)
<1> DEFINE f == Overwrite(e, "a0", w)
<1>1. Steady(f, v) /\ f.reg["a0"] = w
  BY OverwriteSteady, FunctionAssumption DEF Word
<1> HIDE DEF f
<1>2. QED
  BY <1>1, StoreA0Steady DEF OpViaA0, f

LEMMA OpToDestSteady ==
    ASSUME NEW e, NEW v, Steady(e, v), NEW d \in Slots, NEW w \in Val, ~IsConst(d)
    PROVE  /\ Steady(OpToDest(e, w, d), [v EXCEPT ![d] = w])
           /\ Found(OpToDest(e, w, d), d)
<1>1. CASE ~InSReg(d)
  <2>1. OpToDest(e, w, d) = OpViaA0(e, w, d)
    BY <1>1 DEF OpToDest, OpViaA0
  <2>2. QED
    BY <2>1, OpViaA0Steady
<1>2. CASE InSReg(d)
  <2> DEFINE f == OpToDest(e, w, d)
             u == [v EXCEPT ![d] = w]
  <2>0. /\ e.cache \subseteq Row /\ e.held \in [WorkRegs -> SRegs \cup {NoReg}]
        /\ e.reg \in [Regs -> Word] /\ v \in [Slots -> Word] /\ Home[d] \in SRegs
        /\ u \in [Slots -> Word] /\ u[d] = w /\ \A s \in Slots : s # d => u[s] = v[s]
    BY <1>2, TableAssumption DEF Steady, Good, Emitter, InSReg, Word
  <2>1. /\ f.cache = DropReg(e.cache, Home[d]) /\ f.mem = e.mem
        /\ f.held = [r \in WorkRegs |-> IF e.held[r] = Home[d] THEN NoReg ELSE e.held[r]]
        /\ f.reg = [e.reg EXCEPT ![Home[d]] = w] /\ f \in Emitter
    BY <1>2, <2>0 DEF OpToDest, Steady, Good, Emitter, Regs, Word, DropReg
  <2> HIDE DEF f, u
  <2>2. \A q \in WorkRegs : f.reg[q] = e.reg[q]
    BY <2>0, <2>1, RegisterAssumption DEF Regs
  <2>3. f.cache \subseteq e.cache
    BY <2>1 DEF DropReg
  <2>4. Rows(f, u)
    <3>1. \A row \in e.cache : row.slot # d /\ row.slot \in Slots /\ row.reg \in WorkRegs
      BY <2>0, <1>2 DEF Steady, Good, Rows, Row
    <3>2. QED
      BY <2>0, <2>2, <2>3, <3>1 DEF Steady, Good, Rows
  <2>5. Held(f)
    BY <2>0, <2>1, <2>2 DEF Steady, Good, Held, Regs
  <2>6. Homes(f, u)
    <3>1. ASSUME NEW s \in Slots, InSReg(s), s # d
          PROVE  f.reg[Home[s]] = e.reg[Home[s]]
      BY <2>0, <1>2, <2>1, <3>1, TableAssumption DEF InSReg, Regs
    <3>2. f.reg[Home[d]] = w
      BY <2>0, <2>1 DEF Regs
    <3>3. QED
      BY <1>2, <2>0, <2>1, <3>1, <3>2 DEF Steady, Good, Homes
  <2>7. OnlyA0Held(f) /\ ("generic" \in Shapes => NoT0(f))
    BY <2>1, <2>3 DEF Steady, OnlyA0Held, NoT0
  <2>8. Found(f, d)
    BY <1>2 DEF Found, Deferred
  <2>9. QED
    BY <2>0, <2>1, <2>4, <2>5, <2>6, <2>7, <2>8 DEF Steady, Good, f, u
<1>3. QED
  BY <1>1, <1>2

LEMMA JoinSteady ==
    ASSUME NEW e, NEW v, Good(e, v)
    PROVE  Steady(Join(e), v) /\ \A r \in WorkRegs : Join(e).reg[r] = Undef
<1> DEFINE f == Join(e)
<1>1. /\ f.cache = {} /\ f.held = [r \in WorkRegs |-> NoReg] /\ f.mem = e.mem
      /\ f.reg = [r \in Regs |-> IF r \in WorkRegs THEN Undef ELSE e.reg[r]]
      /\ f \in Emitter
  BY DEF Join, InvalidateCache, Good, Emitter, Word
<1> HIDE DEF f
<1>2. \A s \in Slots : InSReg(s) => f.reg[Home[s]] = e.reg[Home[s]]
  BY <1>1, RegisterAssumption, TableAssumption DEF InSReg, Regs
<1>3. Rows(f, v) /\ Held(f) /\ Homes(f, v)
  BY <1>1, <1>2 DEF Good, Rows, Held, Homes
<1>4. QED
  BY <1>1, <1>3 DEF Steady, Good, OnlyA0Held, NoT0, f, Regs

\* A register slotInReg names holds the slot; one it names none for is not in the
\* cache, so it is not deferred.
LEMMA SlotInRegValue ==
    ASSUME NEW e, NEW v, Good(e, v), NEW s \in Slots, v[s] # Undef, Found(e, s)
    PROVE  LET at == SlotInReg(e, s) IN
           /\ at # NoReg => at \in Regs /\ e.reg[at] = v[s]
           /\ at # NoReg => (at \in WorkRegs <=> ~InSReg(s))
           /\ at \in WorkRegs => \E row \in e.cache : row.slot = s /\ row.reg = at
           /\ at = NoReg => s \notin Deferred
<1> DEFINE at == SlotInReg(e, s)
<1>0. e.cache \subseteq Row
  BY DEF Good, Emitter
<1>1. CASE InSReg(s)
  <2>1. at = Home[s] /\ Home[s] \in SRegs /\ e.reg[Home[s]] = v[s]
    BY <1>1, TableAssumption DEF SlotInReg, InSReg, Good, Homes
  <2>2. QED
    BY <1>1, <2>1, RegisterAssumption DEF Regs
<1>2. CASE ~InSReg(s) /\ IsCached(e.cache, s)
  <2>1. at = CachedIn(e.cache, s)
    BY <1>2 DEF SlotInReg
  <2>2. \E row \in e.cache : row.slot = s /\ row.reg = at
    BY <1>0, <1>2, <2>1, CachedInRow
  <2> HIDE DEF at
  <2>3. at \in WorkRegs /\ e.reg[at] = v[s]
    BY <1>0, <2>2 DEF Good, Rows, Row
  <2>4. QED
    BY <1>2, <2>2, <2>3, RegisterAssumption DEF at, Regs
<1>3. CASE ~InSReg(s) /\ ~IsCached(e.cache, s)
  <2>1. at = NoReg
    BY <1>3 DEF SlotInReg
  <2>2. QED
    BY <1>3, <2>1, RegisterAssumption DEF Found, InA0, IsCached
<1>4. QED
  BY <1>1, <1>2, <1>3

\* an unannounced write to t0 is harmless while no row names t0
LEMMA WriteT0Steady ==
    ASSUME NEW e, NEW v, Steady(e, v), NoT0(e), NEW w \in Word
    PROVE  /\ Steady(Write(e, "t0", w), v)
           /\ Write(e, "t0", w).reg = [e.reg EXCEPT !["t0"] = w]
           /\ Write(e, "t0", w).cache = e.cache
<1> DEFINE f == Write(e, "t0", w)
<1>1. /\ "t0" \in WorkRegs /\ "a0" \in WorkRegs /\ "t0" \in Regs /\ "a0" \in Regs
      /\ "t0" \notin SRegs
  BY FunctionAssumption, RegisterAssumption DEF Regs
<1>2. /\ f.cache = e.cache /\ f.held = e.held /\ f.mem = e.mem
      /\ f.reg = [e.reg EXCEPT !["t0"] = w] /\ f \in Emitter
  BY <1>1 DEF Write, Steady, Good, Emitter
<1>3. /\ e.cache \subseteq Row /\ e.held \in [WorkRegs -> SRegs \cup {NoReg}]
      /\ e.reg \in [Regs -> Word]
  BY DEF Steady, Good, Emitter
<1> HIDE DEF f
<1>4. Rows(f, v)
  BY <1>2, <1>3 DEF Steady, Good, Rows, NoT0, Row, Regs
<1>5. Held(f)
  <2>1. ASSUME NEW q \in WorkRegs, f.held[q] # NoReg
        PROVE  f.reg[q] = f.reg[f.held[q]]
    <3>1. q = "a0"
      BY <1>2, <2>1 DEF Steady, OnlyA0Held
    <3>2. e.held[q] \in SRegs /\ e.reg[q] = e.reg[e.held[q]]
      BY <1>2, <1>3, <2>1 DEF Steady, Good, Held
    <3>3. QED
      BY <1>1, <1>2, <1>3, <3>1, <3>2 DEF Regs
  <2>2. QED
    BY <2>1 DEF Held
<1>6. Homes(f, v)
  <2>1. \A s \in Slots : InSReg(s) => f.reg[Home[s]] = e.reg[Home[s]]
    BY <1>1, <1>2, <1>3, TableAssumption DEF InSReg, Regs
  <2>2. QED
    BY <1>2, <2>1 DEF Steady, Good, Homes
<1>7. QED
  BY <1>2, <1>4, <1>5, <1>6 DEF Steady, Good, OnlyA0Held, NoT0, f

\* The general case of emitBinary ends with each operand in the register it names.
LEMMA OperandsSteady ==
    ASSUME NEW e, NEW v, Steady(e, v), NoT0(e), NEW b \in BOOLEAN,
           NEW l \in Slots, v[l] # Undef, Found(e, l),
           NEW r \in Slots, v[r] # Undef, Found(e, r)
    PROVE  LET o == Operands(e, l, r, b) IN
           /\ Steady(o.em, v)
           /\ o.em.reg[o.l] = v[l]
           /\ o.em.reg[o.r] = v[r]
<1> DEFINE o == Operands(e, l, r, b)
           atL == SlotInReg(e, l)
           atR == SlotInReg(e, r)
           saveL == atL = "a0" /\ ~b
           saved == IF saveL THEN Mv(e, "t0", "a0") ELSE e
<1>1. /\ "t0" \in Regs /\ "a0" \in Regs /\ "t0" \in WorkRegs /\ "a0" \in WorkRegs
      /\ "t0" \notin SRegs /\ e.reg \in [Regs -> Word] /\ NoReg # "t0" /\ NoReg # "a0"
  BY FunctionAssumption, RegisterAssumption DEF Regs, Steady, Good, Emitter
<1>2. /\ atL # NoReg => atL \in Regs /\ e.reg[atL] = v[l] /\ atL # "t0"
      /\ atL = NoReg => l \notin Deferred
  BY <1>1, SlotInRegValue DEF Steady, NoT0
<1>3. /\ atR # NoReg => atR \in Regs /\ e.reg[atR] = v[r] /\ atR # "t0"
      /\ atR = NoReg => r \notin Deferred
  BY <1>1, SlotInRegValue DEF Steady, NoT0
<1>4. /\ Steady(saved, v)
      /\ saveL => saved.reg["t0"] = v[l]
      /\ \A q \in Regs : q # "t0" => saved.reg[q] = e.reg[q]
  <2>1. e.reg["a0"] \in Word
    BY <1>1
  <2>2. /\ Steady(Mv(e, "t0", "a0"), v)
        /\ Mv(e, "t0", "a0").reg = [e.reg EXCEPT !["t0"] = e.reg["a0"]]
    BY <2>1, WriteT0Steady DEF Mv
  <2> HIDE DEF atL
  <2>3. QED
    BY <1>1, <1>2, <2>2
<1>5. CASE atL # NoReg /\ atR # NoReg
  <2>1. o = [em |-> saved, l |-> IF saveL THEN "t0" ELSE atL, r |-> atR]
    BY <1>5 DEF Operands
  <2> HIDE DEF o, atL, atR, saved, saveL
  <2>2. QED
    BY <1>2, <1>3, <1>4, <1>5, <2>1 DEF o
<1>6. CASE atL # NoReg /\ atR = NoReg /\ (atL # "a0" \/ saveL)
  <2> DEFINE f == LoadSlot(saved, "a0", r)
  <2>1. o = [em |-> f, l |-> IF saveL THEN "t0" ELSE atL, r |-> "a0"]
    BY <1>1, <1>6 DEF Operands
  <2> HIDE DEF o, atL, atR, saved, saveL
  <2>2. Found(saved, r)
    BY <1>3, <1>6 DEF Found
  <2>3. /\ Steady(f, v) /\ f.reg["a0"] = v[r]
        /\ \A q \in Regs : q # "a0" => f.reg[q] = saved.reg[q]
    BY <1>4, <2>2, LoadA0Steady
  <2> HIDE DEF f
  <2>4. QED
    BY <1>1, <1>2, <1>4, <1>6, <2>1, <2>3 DEF o, f, atL, saveL
<1>7. CASE atL = "a0" /\ atR = NoReg /\ ~saveL
  <2> DEFINE f == LoadSlot(e, "t0", r)
  <2>1. o = [em |-> f, l |-> "a0", r |-> "t0"]
    BY <1>1, <1>7 DEF Operands
  <2>2. /\ Steady(f, v) /\ f.reg["t0"] = v[r]
        /\ \A q \in Regs : q # "t0" => f.reg[q] = e.reg[q]
    BY <1>7, LoadT0Steady
  <2> HIDE DEF o, f, atL, atR, saved, saveL
  <2>3. QED
    BY <1>1, <1>2, <1>7, <2>1, <2>2 DEF o
<1>8. CASE atL = NoReg /\ atR # NoReg
  <2> DEFINE f == LoadSlot(e, "t0", l)
  <2>1. o = [em |-> f, l |-> "t0", r |-> atR]
    BY <1>1, <1>3, <1>8 DEF Operands
  <2>2. /\ Steady(f, v) /\ f.reg["t0"] = v[l]
        /\ \A q \in Regs : q # "t0" => f.reg[q] = e.reg[q]
    BY <1>8, LoadT0Steady
  <2> HIDE DEF o, f, atL, atR, saved, saveL
  <2>3. QED
    BY <1>1, <1>3, <1>8, <2>1, <2>2 DEF o
<1>9. CASE atL = NoReg /\ atR = NoReg
  <2> DEFINE f == LoadSlot(e, "t0", l)
             g == LoadSlot(f, "a0", r)
  <2>1. o = [em |-> g, l |-> "t0", r |-> "a0"]
    BY <1>1, <1>9 DEF Operands
  <2>2. Steady(f, v) /\ f.reg["t0"] = v[l]
    BY <1>9, LoadT0Steady
  <2>3. Found(f, r)
    BY <1>3, <1>9 DEF Found
  <2> HIDE DEF f
  <2>4. /\ Steady(g, v) /\ g.reg["a0"] = v[r]
        /\ \A q \in Regs : q # "a0" => g.reg[q] = f.reg[q]
    BY <2>2, <2>3, LoadA0Steady
  <2> HIDE DEF o, g, atL, atR, saved, saveL
  <2>5. QED
    BY <1>1, <2>1, <2>2, <2>4 DEF o, g
<1>10. QED
  BY <1>5, <1>6, <1>7, <1>8, <1>9

-----------------------------------------------------------------------------
(* From one instruction to the next. *)

LEMMA Between ==
    ASSUME IInv, Idle
    PROVE  /\ Steady(em, val)
           /\ em.reg \in [Regs -> Word] /\ val \in [Slots -> Word]
  BY DEF IInv, Steady, Good, Emitter

LEMMA ReadFound ==
    ASSUME IInv, NEW S \in SUBSET Slots, MayRead(S), NEW s \in S
    PROVE  Idle /\ Steady(em, val) /\ val[s] # Undef /\ val[s] \in Val /\ Found(em, s)
<1>1. s \in Slots /\ s # NoSlot
  BY FunctionAssumption
<1>2. val[s] # Undef /\ (s \in Deferred => s = pending)
  BY DEF MayRead
<1>3. pending # NoSlot => InA0(em, pending)
  BY DEF IInv
<1>4. Idle /\ Steady(em, val) /\ val \in [Slots -> Word]
  BY Between DEF MayRead
<1>5. val[s] \in Val
  BY <1>1, <1>2, <1>4 DEF Word
<1>6. QED
  BY <1>1, <1>2, <1>3, <1>4, <1>5 DEF Found

LEMMA Conclude ==
    ASSUME IInv, Idle, call' = call, Steady(em', val'),
           pending' \in Deferred \cup {NoSlot},
           pending' # NoSlot => InA0(em', pending'),
           misread' = {}
    PROVE  IInv'
<1>1. call' = NoCall /\ call' \in Calls
  BY DEF Idle, IInv
<1>2. Good(em', val') /\ OnlyA0Held(em') /\ ("generic" \in Shapes => NoT0(em'))
  BY DEF Steady
<1>3. Good(em, val)'
  BY <1>2 DEF Good, Rows, Held, Homes
<1>4. OnlyA0Held(em)' /\ ("generic" \in Shapes => NoT0(em))'
  BY <1>2 DEF OnlyA0Held, NoT0
<1>5. CallInv'
  BY <1>1 DEF CallInv, Idle
<1>6. QED
  BY <1>1, <1>3, <1>4, <1>5 DEF IInv, InA0

\* The definition of a slot that may be deferred.
LEMMA DefinedSlot ==
    ASSUME IInv, Idle, call' = call, NEW d \in Slots, Steady(em', val'), Found(em', d),
           pending' \in IF d \in Deferred THEN {d, NoSlot} ELSE {NoSlot}, misread' = {}
    PROVE  IInv'
<1>1. pending' \in Deferred \cup {NoSlot} /\ (pending' # NoSlot => InA0(em', pending'))
  BY DEF Found
<1>2. QED
  BY <1>1, Conclude

LEMMA ConsumeOne ==
    ASSUME misread = {}, NEW s, NEW w, Consume({<<s, w>>}), w = val[s]
    PROVE  misread' = {}
  BY DEF Consume

LEMMA ConsumeTwo ==
    ASSUME misread = {}, NEW s, NEW w, NEW t, NEW u, Consume({<<s, w>>, <<t, u>>}),
           w = val[s], u = val[t]
    PROVE  misread' = {}
  BY DEF Consume

-----------------------------------------------------------------------------
(* One lemma per action. *)

LEMMA StutterStep ==
    ASSUME IInv, UNCHANGED vars
    PROVE  IInv'
<1>1. em' = em /\ val' = val /\ pending' = pending /\ call' = call /\ misread' = misread
  BY DEF vars
<1>2. QED
  BY <1>1 DEF IInv, Good, Rows, Held, Homes, Idle, OnlyA0Held, NoT0, InA0, CallInv

\* TargetLabel, Goto and ReturnVoid
LEMMA JumpStep ==
    ASSUME IInv, Idle, pending = NoSlot, em' = Join(em),
           UNCHANGED <<val, pending, call, misread>>
    PROVE  IInv'
<1>1. Steady(em', val')
  BY Between, JoinSteady DEF Steady
<1>2. misread' = {}
  BY DEF IInv
<1>3. QED
  BY <1>1, <1>2, Conclude

LEMMA BranchStep ==
    ASSUME IInv, NEW s \in Slots, Branch(s)
    PROVE  IInv'
<1>1. Idle /\ val[s] # Undef /\ Found(em, s) /\ Steady(em, val)
  BY ReadFound DEF Branch
<1>2. Steady(em', val') /\ em'.reg["a0"] = val[s]
  BY <1>1, LoadA0Steady DEF Branch
<1>3. misread' = {}
  BY <1>2, ConsumeOne DEF Branch, IInv
<1>4. call' = call /\ pending' = NoSlot
  BY DEF Branch
<1>5. QED
  BY <1>1, <1>2, <1>3, <1>4, Conclude

LEMMA ReturnStep ==
    ASSUME IInv, NEW s \in Slots, Return(s)
    PROVE  IInv'
<1> DEFINE e == LoadSlot(em, "a0", s)
<1>1. Idle /\ val[s] # Undef /\ Found(em, s) /\ Steady(em, val)
  BY ReadFound DEF Return
<1>2. Steady(e, val) /\ e.reg["a0"] = val[s]
  BY <1>1, LoadA0Steady
<1>3. em' = Join(e) /\ val' = val /\ call' = call /\ pending' = NoSlot
      /\ Consume({<<s, e.reg["a0"]>>})
  BY DEF Return
<1> HIDE DEF e
<1>4. Steady(em', val')
  BY <1>2, <1>3, JoinSteady DEF Steady
<1>5. misread' = {}
  BY <1>2, <1>3, ConsumeOne DEF IInv
<1>6. QED
  BY <1>1, <1>3, <1>4, <1>5, Conclude

LEMMA StoreGlobalStep ==
    ASSUME IInv, NEW s \in Slots, StoreGlobal(s)
    PROVE  IInv'
<1> DEFINE k == KillReg(em, "t0")
           e == LoadSlot(k, "a0", s)
<1>0. "t0" \in WorkRegs /\ "a0" \in WorkRegs /\ "t0" # "a0" /\ "t0" \in Regs /\ "t0" \notin SRegs
  BY FunctionAssumption, RegisterAssumption DEF Regs
<1>1. Idle /\ val[s] # Undef /\ Found(em, s) /\ Steady(em, val)
  BY ReadFound DEF StoreGlobal
<1>2. em' = Write(e, "t0", Undef) /\ val' = val /\ call' = call /\ pending' = NoSlot
      /\ Consume({<<s, e.reg["a0"]>>})
  BY DEF StoreGlobal
<1>3. Steady(k, val) /\ (\A row \in k.cache : row.reg # "t0") /\ k.held["t0"] = NoReg
  BY <1>0, <1>1, KillSteady DEF Steady, OnlyA0Held
<1>4. Found(k, s)
  BY <1>0, <1>1 DEF Found, InA0, KillReg, DropReg, Steady, Good, Emitter
<1> HIDE DEF k
<1>5. /\ Steady(e, val) /\ e.reg["a0"] = val[s]
      /\ \A row \in e.cache : row.reg # "t0"
  BY <1>0, <1>1, <1>3, <1>4, LoadA0Steady
<1> HIDE DEF e
<1>6. Steady(em', val')
  BY <1>0, <1>2, <1>5, WriteT0Steady DEF NoT0, Word
<1>7. misread' = {}
  BY <1>2, <1>5, ConsumeOne DEF IInv
<1>8. QED
  BY <1>1, <1>2, <1>6, <1>7, Conclude

LEMMA ConstOmittedStep ==
    ASSUME IInv, NEW d \in Slots, ConstOmitted(d)
    PROVE  IInv'
<1> DEFINE u == [val EXCEPT ![d] = ConstOf[d]]
<1>1. /\ Idle /\ IsConst(d) /\ ~InSReg(d) /\ val' = u
      /\ em' = em /\ pending' = pending /\ call' = call /\ misread' = {}
  BY DEF ConstOmitted, Assign, IInv
<1>2. Steady(em, val) /\ val \in [Slots -> Word] /\ ConstOf[d] \in Val
  BY <1>1, Between, TableAssumption DEF IsConst
<1>3. u \in [Slots -> Word] /\ u[d] = ConstOf[d] /\ \A s \in Slots : s # d => u[s] = val[s]
  BY <1>2 DEF Word
<1> HIDE DEF u
<1>4. Rows(em, u)
  BY <1>1, <1>2, <1>3 DEF Steady, Good, Emitter, Rows, Row
<1>5. Homes(em, u)
  BY <1>1, <1>2, <1>3 DEF Steady, Good, Homes
<1>6. Steady(em, u)
  BY <1>2, <1>3, <1>4, <1>5 DEF Steady, Good
<1>7. pending \in Deferred \cup {NoSlot} /\ (pending # NoSlot => InA0(em, pending))
  BY DEF IInv
<1>8. Steady(em', val') /\ pending' \in Deferred \cup {NoSlot}
      /\ (pending' # NoSlot => InA0(em', pending'))
  BY <1>1, <1>6, <1>7
<1>9. QED
  BY <1>1, <1>8, Conclude

LEMMA ConstEmittedStep ==
    ASSUME IInv, NEW d \in Slots, ConstEmitted(d)
    PROVE  IInv'
<1>1. PICK v \in Val : (IsConst(d) => v = ConstOf[d]) /\ em' = OpViaA0(em, v, d)
                       /\ val' = [val EXCEPT ![d] = v]
  BY DEF ConstEmitted, Assign
<1>2. /\ Idle /\ (IsConst(d) => InSReg(d)) /\ call' = call /\ misread' = {}
      /\ pending' \in IF d \in Deferred THEN {d, NoSlot} ELSE {NoSlot}
  BY DEF ConstEmitted, MayRead, MayDefer, IInv
<1>3. Steady(em', val') /\ Found(em', d)
  BY <1>1, <1>2, Between, OpViaA0Steady
<1>4. QED
  BY <1>2, <1>3, DefinedSlot

LEMMA MoveStep ==
    ASSUME IInv, NEW d \in Slots, NEW s \in Slots, Move(d, s)
    PROVE  IInv'
<1> DEFINE e == LoadSlot(em, "a0", s)
<1>1. Idle /\ val[s] # Undef /\ Found(em, s) /\ Steady(em, val) /\ val[s] \in Val
  BY ReadFound DEF Move
<1>2. /\ Consume({<<s, e.reg["a0"]>>}) /\ em' = StoreSlot(e, "a0", d)
      /\ val' = [val EXCEPT ![d] = val[s]] /\ call' = call
      /\ ~IsConst(d) /\ pending' \in IF d \in Deferred THEN {d, NoSlot} ELSE {NoSlot}
  BY DEF Move, Assign, MayDefine
<1>3. Steady(e, val) /\ e.reg["a0"] = val[s]
  BY <1>1, LoadA0Steady
<1> HIDE DEF e
<1>4. Steady(em', val') /\ Found(em', d)
  BY <1>1, <1>2, <1>3, StoreA0Steady
<1>5. misread' = {}
  BY <1>2, <1>3, ConsumeOne DEF IInv
<1>6. QED
  BY <1>1, <1>2, <1>4, <1>5, DefinedSlot

LEMMA LoadGlobalStep ==
    ASSUME IInv, NEW d \in Slots, LoadGlobal(d)
    PROVE  IInv'
<1> DEFINE e == Overwrite(em, "t0", Undef)
<1>1. PICK v \in Val : em' = OpViaA0(e, v, d) /\ val' = [val EXCEPT ![d] = v]
  BY DEF LoadGlobal, Assign
<1>2. /\ Idle /\ ~IsConst(d) /\ call' = call /\ misread' = {}
      /\ pending' \in IF d \in Deferred THEN {d, NoSlot} ELSE {NoSlot}
  BY DEF LoadGlobal, MayDefine, MayRead, IInv
<1>3. Steady(e, val)
  BY <1>2, Between, OverwriteSteady, FunctionAssumption DEF Word
<1> HIDE DEF e
<1>4. Steady(em', val') /\ Found(em', d)
  BY <1>1, <1>2, <1>3, OpViaA0Steady
<1>5. QED
  BY <1>2, <1>4, DefinedSlot

\* What a0 holds survives a killReg of a0.
LEMMA StoreKilledA0 ==
    ASSUME NEW e, NEW v, Steady(e, v), NEW d \in Slots, NEW w \in Val, ~IsConst(d),
           e.reg["a0"] = w
    PROVE  LET f == StoreSlot(KillReg(e, "a0"), "a0", d) IN
           Steady(f, [v EXCEPT ![d] = w]) /\ Found(f, d)
<1> DEFINE k == KillReg(e, "a0")
<1>1. Steady(k, v) /\ k.reg["a0"] = w
  BY KillSteady, FunctionAssumption
<1> HIDE DEF k
<1>2. QED
  BY <1>1, StoreA0Steady DEF k

LEMMA UnaryStep ==
    ASSUME IInv, NEW d \in Slots, NEW s \in Slots, Unary(d, s)
    PROVE  IInv'
<1> DEFINE e == LoadSlot(em, "a0", s)
<1>1. Idle /\ val[s] # Undef /\ Found(em, s) /\ Steady(em, val) /\ val[s] \in Val
  BY ReadFound DEF Unary
<1>2. /\ Consume({<<s, e.reg["a0"]>>}) /\ call' = call
      /\ ~IsConst(d) /\ pending' \in IF d \in Deferred THEN {d, NoSlot} ELSE {NoSlot}
  BY DEF Unary, MayDefer, MayDefine
<1>3. Steady(e, val) /\ e.reg["a0"] = val[s]
  BY <1>1, LoadA0Steady
<1>4. misread' = {}
  BY <1>2, <1>3, ConsumeOne DEF IInv
<1>5. \/ \E v \in Val : em' = OpViaA0(e, v, d) /\ val' = [val EXCEPT ![d] = v]
      \/ em' = StoreSlot(KillReg(e, "a0"), "a0", d) /\ val' = [val EXCEPT ![d] = val[s]]
  BY DEF Unary, Assign
<1> HIDE DEF e
<1>6. CASE \E v \in Val : em' = OpViaA0(e, v, d) /\ val' = [val EXCEPT ![d] = v]
  <2>1. PICK v \in Val : em' = OpViaA0(e, v, d) /\ val' = [val EXCEPT ![d] = v]
    BY <1>6
  <2>2. Steady(em', val') /\ Found(em', d)
    BY <1>2, <1>3, <2>1, OpViaA0Steady
  <2>3. QED
    BY <1>1, <1>2, <1>4, <2>2, DefinedSlot
<1>7. CASE em' = StoreSlot(KillReg(e, "a0"), "a0", d) /\ val' = [val EXCEPT ![d] = val[s]]
  <2>1. Steady(em', val') /\ Found(em', d)
    BY <1>1, <1>2, <1>3, <1>7, StoreKilledA0
  <2>2. QED
    BY <1>1, <1>2, <1>4, <2>1, DefinedSlot
<1>8. QED
  BY <1>5, <1>6, <1>7

-----------------------------------------------------------------------------
(* emitBinary. *)

\* the operand in place, or in t0
LEMMA InPlaceSteady ==
    ASSUME NEW e, NEW v, Steady(e, v), NEW s \in Slots, v[s] # Undef, Found(e, s)
    PROVE  Steady(InPlaceOrT0(e, s), v) /\ InPlaceOrT0(e, s).reg[RegInPlaceOrT0(e, s)] = v[s]
<1>1. CASE SlotInReg(e, s) = NoReg
  BY <1>1, LoadT0Steady DEF InPlaceOrT0, RegInPlaceOrT0
<1>2. CASE SlotInReg(e, s) # NoReg
  BY <1>2, SlotInRegValue DEF InPlaceOrT0, RegInPlaceOrT0, Steady
<1>3. QED
  BY <1>1, <1>2

LEMMA WithConstFacts ==
    ASSUME IInv, NEW shape, NEW d \in Slots, NEW s \in Slots, NEW k \in Slots,
           WithConst(shape, d, s, k)
    PROVE  /\ Idle /\ Steady(em, val) /\ val[s] # Undef /\ val[s] \in Val /\ Found(em, s)
           /\ val[k] = ConstOf[k] /\ misread = {} /\ call' = call /\ ~IsConst(d)
           /\ pending' \in IF d \in Deferred THEN {d, NoSlot} ELSE {NoSlot}
<1>1. MayRead({s, k}) /\ IsConst(k) /\ {s, k} \in SUBSET Slots /\ s \in {s, k} /\ k \in {s, k}
  BY DEF WithConst
<1>2. Idle /\ Steady(em, val) /\ val[s] # Undef /\ val[s] \in Val /\ Found(em, s) /\ val[k] # Undef
  BY <1>1, ReadFound
<1>3. val[k] = ConstOf[k]
  BY <1>1, <1>2 DEF Steady, Good, Homes
<1>4. QED
  BY <1>2, <1>3 DEF WithConst, MayDefer, MayDefine, IInv

LEMMA BinaryImmStep ==
    ASSUME IInv, NEW d \in Slots, NEW s \in Slots, NEW k \in Slots, BinaryImm(d, s, k)
    PROVE  IInv'
<1> DEFINE e == InPlaceOrT0(em, s)
           w == e.reg[RegInPlaceOrT0(em, s)]
<1>1. /\ Idle /\ Steady(em, val) /\ val[s] # Undef /\ Found(em, s)
      /\ val[k] = ConstOf[k] /\ misread = {} /\ call' = call /\ ~IsConst(d)
      /\ pending' \in IF d \in Deferred THEN {d, NoSlot} ELSE {NoSlot}
  BY WithConstFacts DEF BinaryImm
<1>2. Steady(e, val) /\ w = val[s]
  BY <1>1, InPlaceSteady
<1>3. PICK v \in Val : em' = OpToDest(e, v, d) /\ val' = [val EXCEPT ![d] = v]
  BY DEF BinaryImm, Assign
<1>4. Consume({<<s, w>>, <<k, ConstOf[k]>>})
  BY DEF BinaryImm
<1> HIDE DEF e, w
<1>5. misread' = {}
  BY <1>1, <1>2, <1>4, ConsumeTwo
<1>6. Steady(em', val') /\ Found(em', d)
  BY <1>1, <1>2, <1>3, OpToDestSteady
<1>7. QED
  BY <1>1, <1>5, <1>6, DefinedSlot

LEMMA BinaryNegStep ==
    ASSUME IInv, NEW d \in Slots, NEW s \in Slots, NEW k \in Slots, BinaryNeg(d, s, k)
    PROVE  IInv'
<1> DEFINE e == InPlaceOrT0(em, s)
           w == e.reg[RegInPlaceOrT0(em, s)]
<1>1. /\ Idle /\ Steady(em, val) /\ val[s] # Undef /\ Found(em, s)
      /\ val[k] = ConstOf[k] /\ misread = {} /\ call' = call /\ ~IsConst(d)
      /\ pending' \in IF d \in Deferred THEN {d, NoSlot} ELSE {NoSlot}
  BY WithConstFacts DEF BinaryNeg
<1>2. Steady(e, val) /\ w = val[s]
  BY <1>1, InPlaceSteady
<1>3. PICK v \in Val : em' = OpViaA0(e, v, d) /\ val' = [val EXCEPT ![d] = v]
  BY DEF BinaryNeg, Assign
<1>4. Consume({<<s, w>>, <<k, ConstOf[k]>>})
  BY DEF BinaryNeg
<1> HIDE DEF e, w
<1>5. misread' = {}
  BY <1>1, <1>2, <1>4, ConsumeTwo
<1>6. Steady(em', val') /\ Found(em', d)
  BY <1>1, <1>2, <1>3, OpViaA0Steady
<1>7. QED
  BY <1>1, <1>5, <1>6, DefinedSlot

LEMMA BinaryCopyStep ==
    ASSUME IInv, NEW d \in Slots, NEW s \in Slots, NEW k \in Slots, BinaryCopy(d, s, k)
    PROVE  IInv'
<1> DEFINE e == LoadSlot(em, "a0", s)
<1>1. /\ Idle /\ Steady(em, val) /\ val[s] # Undef /\ val[s] \in Val /\ Found(em, s)
      /\ val[k] = ConstOf[k] /\ misread = {} /\ call' = call /\ ~IsConst(d)
      /\ pending' \in IF d \in Deferred THEN {d, NoSlot} ELSE {NoSlot}
  BY WithConstFacts DEF BinaryCopy
<1>2. Steady(e, val) /\ e.reg["a0"] = val[s]
  BY <1>1, LoadA0Steady
<1>3. /\ em' = StoreSlot(KillReg(e, "a0"), "a0", d) /\ val' = [val EXCEPT ![d] = val[s]]
      /\ Consume({<<s, e.reg["a0"]>>, <<k, ConstOf[k]>>})
  BY DEF BinaryCopy, Assign
<1> HIDE DEF e
<1>4. misread' = {}
  BY <1>1, <1>2, <1>3, ConsumeTwo
<1>5. Steady(em', val') /\ Found(em', d)
  BY <1>1, <1>2, <1>3, StoreKilledA0
<1>6. QED
  BY <1>1, <1>4, <1>5, DefinedSlot

LEMMA BinaryZeroStep ==
    ASSUME IInv, NEW d \in Slots, NEW s \in Slots, NEW k \in Slots, BinaryZero(d, s, k)
    PROVE  IInv'
<1>1. /\ Idle /\ Steady(em, val)
      /\ val[k] = ConstOf[k] /\ misread = {} /\ call' = call /\ ~IsConst(d)
      /\ pending' \in IF d \in Deferred THEN {d, NoSlot} ELSE {NoSlot}
  BY WithConstFacts DEF BinaryZero
<1>2. PICK v \in Val : em' = OpViaA0(em, v, d) /\ val' = [val EXCEPT ![d] = v]
  BY DEF BinaryZero, Assign
<1>3. misread' = {}
  BY <1>1, ConsumeOne DEF BinaryZero
<1>4. Steady(em', val') /\ Found(em', d)
  BY <1>1, <1>2, OpViaA0Steady
<1>5. QED
  BY <1>1, <1>3, <1>4, DefinedSlot

\* A dividend that is cached in a0 is loaded to t0 with a row: sound while no
\* general operation overwrites t0 behind the cache's back.
LEMMA BinaryDivConstStep ==
    ASSUME IInv, NEW d \in Slots, NEW s \in Slots, NEW k \in Slots, BinaryDivConst(d, s, k),
           Benign
    PROVE  IInv'
<1> DEFINE at == SlotInReg(em, s)
           from == DividendReg(em, s)
           e == IF from = at THEN em ELSE LoadSlot(em, from, s)
<1>0. "t0" \in WorkRegs /\ "a0" \in WorkRegs /\ NoReg # "a0" /\ "generic" \notin Shapes
  BY FunctionAssumption, RegisterAssumption DEF Benign, BinaryDivConst, WithConst
<1>1. /\ Idle /\ Steady(em, val) /\ val[s] # Undef /\ Found(em, s)
      /\ val[k] = ConstOf[k] /\ misread = {} /\ call' = call /\ ~IsConst(d)
      /\ pending' \in IF d \in Deferred THEN {d, NoSlot} ELSE {NoSlot}
  BY WithConstFacts DEF BinaryDivConst
<1>2. Steady(e, val) /\ e.reg[from] = val[s] /\ from \in Regs /\ from # "a0"
  <2>1. CASE at \in {NoReg, "a0"}
    <3> DEFINE f == LoadSlot(em, "t0", s)
    <3>0. at # "t0" /\ from = "t0"
      <4>1. NoReg # "t0"
        BY <1>0, RegisterAssumption
      <4>2. QED
        BY <2>1, <4>1 DEF DividendReg
    <3>1. ~InSReg(s)
      <4>1. at # NoReg => (at \in WorkRegs <=> ~InSReg(s))
        BY <1>1, SlotInRegValue DEF Steady
      <4>2. InSReg(s) => at # NoReg
        BY DEF SlotInReg, InSReg
      <4> HIDE DEF at
      <4>3. QED
        BY <1>0, <2>1, <4>1, <4>2
    <3>2. /\ Good(f, val) /\ f.reg["t0"] = val[s] /\ f.held["t0"] = NoReg
          /\ \A q \in WorkRegs : q # "t0" => f.held[q] = em.held[q]
      BY <1>0, <1>1, <3>1, LoadSlotGood DEF Steady
    <3>3. e = f
      BY <3>0
    <3> HIDE DEF e, f, from, at
    <3>4. Steady(f, val)
      BY <1>0, <1>1, <3>2 DEF Steady, OnlyA0Held
    <3>5. QED
      BY <1>0, <3>0, <3>2, <3>3, <3>4 DEF Regs
  <2>2. CASE at \notin {NoReg, "a0"}
    <3>1. from = at /\ e = em
      BY <2>2 DEF DividendReg
    <3>2. at \in Regs /\ em.reg[at] = val[s]
      BY <1>1, <2>2, SlotInRegValue DEF Steady
    <3> HIDE DEF e, from, at
    <3>3. QED
      BY <1>1, <2>2, <3>1, <3>2
  <2>3. QED
    BY <2>1, <2>2
<1>3. PICK v \in Val :
        /\ Consume({<<s, e.reg[from]>>, <<s, Overwrite(e, "a0", v).reg[from]>>,
                    <<k, ConstOf[k]>>})
        /\ em' = OpViaA0(e, v, d) /\ val' = [val EXCEPT ![d] = v]
  BY DEF BinaryDivConst, Assign
<1> HIDE DEF e, from, at
<1>4. Overwrite(e, "a0", v).reg[from] = val[s]
  <2>1. Overwrite(e, "a0", v).reg = [e.reg EXCEPT !["a0"] = v] /\ e.reg \in [Regs -> Word]
    <3>1. Good(e, val) /\ v \in Word /\ "a0" \in WorkRegs
      BY <1>0, <1>2 DEF Steady, Word
    <3>2. e.reg \in [Regs -> Word]
      BY <3>1 DEF Good, Emitter
    <3>3. Overwrite(e, "a0", v).reg = [e.reg EXCEPT !["a0"] = v]
      BY <3>1 DEF Overwrite, Write, KillReg, Good, Emitter
    <3>4. QED
      BY <3>2, <3>3
  <2>2. QED
    BY <1>2, <2>1
<1>5. misread' = {}
  BY <1>1, <1>2, <1>3, <1>4 DEF Consume
<1>6. Steady(em', val') /\ Found(em', d)
  BY <1>1, <1>2, <1>3, OpViaA0Steady
<1>7. QED
  BY <1>1, <1>5, <1>6, DefinedSlot

LEMMA BinaryGenericStep ==
    ASSUME IInv, NEW d \in Slots, NEW l \in Slots, NEW r \in Slots, BinaryGeneric(d, l, r)
    PROVE  IInv'
<1> DEFINE b == InSReg(d)
           o == Operands(em, l, r, b)
<1>1. MayRead({l, r}) /\ {l, r} \in SUBSET Slots /\ l \in {l, r} /\ r \in {l, r}
  BY DEF BinaryGeneric
<1>2. /\ Idle /\ Steady(em, val) /\ val[l] # Undef /\ Found(em, l)
      /\ val[r] # Undef /\ Found(em, r)
  BY <1>1, ReadFound
<1>3. /\ NoT0(em) /\ misread = {} /\ call' = call /\ ~IsConst(d)
      /\ pending' \in IF d \in Deferred THEN {d, NoSlot} ELSE {NoSlot}
  BY DEF BinaryGeneric, MayDefer, MayDefine, IInv
<1>4. Steady(o.em, val) /\ o.em.reg[o.l] = val[l] /\ o.em.reg[o.r] = val[r]
  <2>1. b \in BOOLEAN
    BY DEF InSReg
  <2> HIDE DEF b
  <2>2. QED
    BY <1>2, <1>3, <2>1, OperandsSteady
<1>5. Consume({<<l, o.em.reg[o.l]>>, <<r, o.em.reg[o.r]>>})
  BY DEF BinaryGeneric
<1>6. PICK v \in Val : val' = [val EXCEPT ![d] = v]
                       /\ (em' = OpToDest(o.em, v, d) \/ em' = OpViaA0(o.em, v, d))
  BY DEF BinaryGeneric, Assign
<1> HIDE DEF o
<1>7. misread' = {}
  BY <1>3, <1>4, <1>5, ConsumeTwo
<1>8. Steady(em', val') /\ Found(em', d)
  <2>1. CASE em' = OpToDest(o.em, v, d)
    BY <1>3, <1>4, <1>6, <2>1, OpToDestSteady
  <2>2. CASE em' = OpViaA0(o.em, v, d)
    BY <1>3, <1>4, <1>6, <2>2, OpViaA0Steady
  <2>3. QED
    BY <1>6, <2>1, <2>2
<1>9. QED
  BY <1>2, <1>3, <1>7, <1>8, DefinedSlot

-----------------------------------------------------------------------------
(* emitCall. *)

LEMMA CallBeginStep ==
    ASSUME IInv, NEW args \in ArgLists, NEW d \in Slots, CallBegin(args, d)
    PROVE  IInv'
<1>1. args \in Seq(Slots) /\ Len(args) \in Nat
  BY FunctionAssumption DEF ArgLists
<1>2. /\ em' = em /\ val' = val /\ pending' = NoSlot /\ misread' = {}
      /\ ~IsConst(d)
      /\ call' = [args |-> args, left |-> Len(args), dest |-> d, stacked |-> <<>>]
  BY DEF CallBegin, MayDefine, IInv
<1>3. \A i \in 1 .. Len(args) : val[args[i]] # Undef /\ args[i] \notin Deferred
  BY <1>1, FunctionAssumption DEF CallBegin, MayRead
<1>4. call' \in Calls
  BY <1>1, <1>2 DEF Calls
<1>5. Len(ArgReg) \in Nat
  BY FunctionAssumption
<1>6. CallInv'
  <2>1. Overflow(args) \in Nat /\ InRegs(args) = Len(args) - Overflow(args)
    BY <1>1, <1>5 DEF Overflow, InRegs
  <2>2. /\ call'.args = args /\ call'.left = Len(args) /\ call'.dest = d
        /\ call'.stacked = <<>> /\ Len(call'.stacked) = 0
    BY <1>2
  <2>3. 0 = Overflow(args) => Len(args) <= InRegs(args)
    BY <1>1, <2>1
  <2>4. QED
    BY <1>1, <1>2, <1>3, <2>1, <2>2, <2>3 DEF CallInv
<1>7. Good(em, val)' /\ ("generic" \in Shapes => NoT0(em)')
  BY <1>2 DEF IInv, Good, Rows, Held, Homes, NoT0
<1>8. ~Idle'
  BY <1>2, FunctionAssumption DEF Idle, NoCall
<1>9. QED
  BY <1>2, <1>4, <1>6, <1>7, <1>8 DEF IInv

\* The state of a call, in one place.
LEMMA CallFacts ==
    ASSUME IInv, ~Idle
    PROVE  /\ call.args \in Seq(Slots) /\ Len(call.args) \in Nat /\ call.left \in Nat
           /\ call.stacked \in Seq(Word) /\ Len(call.stacked) \in Nat
           /\ Len(ArgReg) \in Nat /\ Overflow(call.args) \in Nat
           /\ \A i \in 1 .. Len(ArgReg) : ArgReg[i] \in WorkRegs /\ ArgReg[i] # "t0"
           /\ \A i \in 1 .. Len(call.args) : call.args[i] \in Slots /\ Found(em, call.args[i])
                                                /\ val[call.args[i]] # Undef
           /\ call = [args |-> call.args, left |-> call.left, dest |-> call.dest,
                      stacked |-> call.stacked]
<1>1. call \in Calls
  BY DEF IInv
<1>2. Len(ArgReg) \in Nat
      /\ \A i \in 1 .. Len(ArgReg) : ArgReg[i] \in WorkRegs /\ ArgReg[i] # "t0"
  BY FunctionAssumption
<1>3. /\ call.args \in Seq(Slots) /\ Len(call.args) \in Nat /\ call.left \in Nat
      /\ call.stacked \in Seq(Word) /\ Len(call.stacked) \in Nat
      /\ call = [args |-> call.args, left |-> call.left, dest |-> call.dest,
                 stacked |-> call.stacked]
  BY <1>1 DEF Calls
<1>4. \A i \in 1 .. Len(call.args) : call.args[i] \in Slots /\ call.args[i] \notin Deferred
                                         /\ val[call.args[i]] # Undef
  BY <1>3 DEF IInv, CallInv
<1>5. Overflow(call.args) \in Nat
  BY <1>2, <1>3 DEF Overflow
<1>6. QED
  BY <1>2, <1>3, <1>4, <1>5 DEF Found

LEMMA CallStackArgStep ==
    ASSUME IInv, CallStackArg
    PROVE  IInv'
<1> DEFINE n == Len(call.stacked)
           p == Len(ArgReg) + n + 1
           f == LoadSlot(em, "a0", call.args[p])
<1>0. ~Idle /\ n < Overflow(call.args) /\ "a0" \in WorkRegs /\ "a0" # "t0"
  BY FunctionAssumption DEF CallStackArg
<1>1. /\ em' = f /\ val' = val /\ pending' = pending /\ misread' = misread
      /\ call' = [call EXCEPT !.stacked = Append(@, f.reg["a0"]), !.left = @ - 1]
  BY DEF CallStackArg
<1>2. p \in 1 .. Len(call.args) /\ Overflow(call.args) = Len(call.args) - Len(ArgReg)
  BY <1>0, CallFacts DEF Overflow
<1>3. /\ Good(f, val) /\ f.reg["a0"] = val[call.args[p]]
      /\ \A row \in f.cache : row.reg = "a0" \/ \E old \in em.cache : old.reg = row.reg
  BY <1>0, <1>2, CallFacts, LoadSlotGood DEF IInv
<1>4. val[call.args[p]] \in Word
  BY <1>0, <1>2, CallFacts DEF IInv, Good
<1>5. call.left = Len(call.args) - n
  BY <1>0 DEF IInv, CallInv
<1> HIDE DEF f
<1>6. /\ call'.args = call.args /\ call'.left = call.left - 1 /\ call'.dest = call.dest
      /\ call'.stacked = Append(call.stacked, val[call.args[p]])
      /\ call' = [args |-> call'.args, left |-> call'.left, dest |-> call'.dest,
                  stacked |-> call'.stacked]
  BY <1>0, <1>1, <1>3, CallFacts
<1>7. /\ Len(call'.stacked) = n + 1 /\ call'.stacked \in Seq(Word)
      /\ \A i \in 1 .. n : call'.stacked[i] = call.stacked[i]
      /\ call'.stacked[n + 1] = val[call.args[p]]
  BY <1>0, <1>4, <1>6, CallFacts
<1>8. call' \in Calls
  <2>1. call'.left \in Nat
    BY <1>0, <1>2, <1>5, <1>6, CallFacts
  <2>2. call'.args \in Seq(Slots) /\ call'.dest \in Slots \cup {NoSlot}
    BY <1>0, <1>6, CallFacts DEF IInv, CallInv
  <2>3. QED
    BY <1>6, <1>7, <2>1, <2>2 DEF Calls
<1>9. CallInv'
  <2>1. /\ pending = NoSlot
        /\ call.dest \in Slots /\ ~IsConst(call.dest)
        /\ \A i \in 1 .. Len(call.args) :
                val[call.args[i]] # Undef /\ call.args[i] \notin Deferred
        /\ \A i \in 1 .. n : call.stacked[i] = val[call.args[Len(ArgReg) + i]]
    BY <1>0 DEF IInv, CallInv
  <2>2. n + 1 <= Overflow(call.args)
        /\ (n + 1 < Overflow(call.args) => call'.left = Len(call.args) - (n + 1))
        /\ (n + 1 = Overflow(call.args) => call'.left <= InRegs(call.args))
        /\ call'.left >= Len(ArgReg)
    BY <1>0, <1>2, <1>5, <1>6, CallFacts DEF InRegs
  <2>3. \A i \in 1 .. n + 1 : call'.stacked[i] = val[call.args[Len(ArgReg) + i]]
    <3>1. n \in Nat /\ p = Len(ArgReg) + (n + 1)
      BY <1>0, CallFacts
    <3>2. ASSUME NEW i \in 1 .. n + 1
          PROVE  i \in 1 .. n \/ i = n + 1
      BY <3>1
    <3> HIDE DEF n, p
    <3>3. QED
      BY <1>7, <2>1, <3>1, <3>2
  <2>4. \A i \in 1 .. Len(call.args) : ~(i > call'.left /\ i <= Len(ArgReg))
    BY <1>0, <1>6, <2>2, CallFacts
  <2>5. /\ call'.args = call.args /\ call'.dest = call.dest /\ Len(call'.stacked) = n + 1
        /\ val' = val /\ pending' = pending
        /\ n + 1 < Overflow(call.args) => call'.left = Len(call.args) - (n + 1)
    BY <1>1, <1>6, <1>7, <2>2
  <2>6. \A i \in 1 .. Len(call.args) :
            i > call'.left /\ i <= Len(ArgReg) => em'.reg[ArgReg[i]] = val[call.args[i]]
    BY <2>4
  <2>7. QED
    BY <2>1, <2>2, <2>3, <2>5, <2>6 DEF CallInv
<1>10. Good(em, val)' /\ ("generic" \in Shapes => NoT0(em)')
  BY <1>0, <1>1, <1>3 DEF IInv, Good, Rows, Held, Homes, NoT0
<1>11. ~Idle'
  BY <1>7 DEF Idle, NoCall
<1>12. pending = NoSlot
  BY <1>0 DEF IInv, CallInv
<1>13. QED
  BY <1>1, <1>8, <1>9, <1>10, <1>11, <1>12 DEF IInv

LEMMA CallRegArgStep ==
    ASSUME IInv, CallRegArg
    PROVE  IInv'
<1> DEFINE n == Len(call.stacked)
           p == call.left
           q == ArgReg[p]
           f == LoadSlot(em, q, call.args[p])
<1>0. ~Idle /\ n = Overflow(call.args) /\ p > 0
  BY DEF CallRegArg
<1>1. /\ em' = f /\ val' = val /\ pending' = pending /\ misread' = misread
      /\ call' = [call EXCEPT !.left = @ - 1]
  BY DEF CallRegArg
<1>2. p \in 1 .. Len(call.args) /\ p \in 1 .. Len(ArgReg) /\ p \in Nat
  <2>1. p <= InRegs(call.args)
    BY <1>0 DEF IInv, CallInv
  <2>2. QED
    BY <1>0, <2>1, CallFacts DEF InRegs, Overflow
<1>3. q \in WorkRegs /\ q # "t0"
  BY <1>0, <1>2, CallFacts
<1>4. /\ Good(f, val) /\ f.reg[q] = val[call.args[p]]
      /\ \A r \in Regs : r # q => f.reg[r] = em.reg[r]
      /\ \A row \in f.cache : row.reg = q \/ \E old \in em.cache : old.reg = row.reg
  BY <1>0, <1>2, <1>3, CallFacts, LoadSlotGood DEF IInv
<1> HIDE DEF f
<1>5. /\ call'.args = call.args /\ call'.left = p - 1 /\ call'.dest = call.dest
      /\ call'.stacked = call.stacked
      /\ call' = [args |-> call'.args, left |-> call'.left, dest |-> call'.dest,
                  stacked |-> call'.stacked]
  BY <1>0, <1>1, CallFacts
<1>6. call' \in Calls
  <2>1. call'.left \in Nat
    BY <1>2, <1>5
  <2>2. call'.args \in Seq(Slots) /\ call'.dest \in Slots \cup {NoSlot}
    BY <1>0, <1>5, CallFacts DEF IInv, CallInv
  <2>3. call'.stacked \in Seq(Word)
    BY <1>0, <1>5, CallFacts
  <2>4. QED
    BY <1>5, <2>1, <2>2, <2>3 DEF Calls
<1>7. CallInv'
  <2>1. /\ pending = NoSlot
        /\ call.dest \in Slots /\ ~IsConst(call.dest)
        /\ \A i \in 1 .. Len(call.args) :
                val[call.args[i]] # Undef /\ call.args[i] \notin Deferred
        /\ \A i \in 1 .. n : call.stacked[i] = val[call.args[Len(ArgReg) + i]]
        /\ \A i \in 1 .. Len(call.args) :
                i > p /\ i <= Len(ArgReg) => em.reg[ArgReg[i]] = val[call.args[i]]
        /\ p <= InRegs(call.args)
    BY <1>0 DEF IInv, CallInv
  <2>2. p - 1 <= InRegs(call.args)
    BY <1>0, <1>2, <2>1, CallFacts DEF InRegs
  <2>3. ASSUME NEW i \in 1 .. Len(call.args), i > p - 1, i <= Len(ArgReg)
        PROVE  f.reg[ArgReg[i]] = val[call.args[i]]
    <3>1. CASE i = p
      BY <1>4, <3>1
    <3>2. CASE i # p
      <4>1. i > p /\ i \in 1 .. Len(ArgReg)
        BY <1>0, <1>2, <2>3, <3>2, CallFacts
      <4>2. ArgReg[i] # q /\ ArgReg[i] \in Regs
        BY <1>0, <1>2, <3>2, <4>1, CallFacts, FunctionAssumption DEF Regs
      <4>3. QED
        BY <1>4, <2>1, <2>3, <4>1, <4>2
    <3>3. QED
      BY <3>1, <3>2
  <2>4. n <= Overflow(call.args) /\ ~(n < Overflow(call.args))
    BY <1>0, CallFacts
  <2>5. \A i \in 1 .. Len(call.args) :
            i > p - 1 /\ i <= Len(ArgReg) => em'.reg[ArgReg[i]] = val'[call.args[i]]
    BY <1>1, <2>3
  <2> HIDE DEF q, n, p
  <2>6. QED
    BY <1>1, <1>5, <2>1, <2>2, <2>4, <2>5 DEF CallInv, n
<1>8. Good(em, val)' /\ ("generic" \in Shapes => NoT0(em)')
  BY <1>1, <1>3, <1>4 DEF IInv, Good, Rows, Held, Homes, NoT0
<1>9. ~Idle'
  BY <1>0, <1>5, FunctionAssumption DEF Idle, NoCall, IInv, CallInv
<1>10. pending = NoSlot
  BY <1>0 DEF IInv, CallInv
<1>11. QED
  BY <1>1, <1>6, <1>7, <1>8, <1>9, <1>10 DEF IInv

LEMMA CallJumpStep ==
    ASSUME IInv, CallJump
    PROVE  IInv'
<1> DEFINE n == Len(call.stacked)
           len == Len(call.args)
           J == Join(em)
           handed(i) == IF i <= Len(ArgReg) THEN em.reg[ArgReg[i]]
                                            ELSE call.stacked[i - Len(ArgReg)]
<1>0. ~Idle /\ call.left = 0 /\ call' = NoCall /\ pending' = pending
      /\ Consume({<<call.args[i], handed(i)>> : i \in 1 .. len})
  BY DEF CallJump
<1>1. PICK v \in Val : em' = StoreSlot(Write(J, "a0", v), "a0", call.dest)
                       /\ val' = [val EXCEPT ![call.dest] = v]
  BY DEF CallJump, Assign
<1>2. /\ pending = NoSlot
      /\ call.dest \in Slots /\ ~IsConst(call.dest)
      /\ n <= Overflow(call.args)
      /\ n < Overflow(call.args) => 0 = len - n
      /\ \A i \in 1 .. n : call.stacked[i] = val[call.args[Len(ArgReg) + i]]
      /\ \A i \in 1 .. len :
              i > 0 /\ i <= Len(ArgReg) => em.reg[ArgReg[i]] = val[call.args[i]]
  BY <1>0 DEF IInv, CallInv
<1>3. n = Overflow(call.args)
  BY <1>0, <1>2, CallFacts DEF Overflow
<1>4. ASSUME NEW i \in 1 .. len
      PROVE  handed(i) = val[call.args[i]]
  <2>1. CASE i <= Len(ArgReg)
    BY <1>0, <1>2, <2>1, CallFacts
  <2>2. CASE i > Len(ArgReg)
    <3> DEFINE j == i - Len(ArgReg)
    <3>1. j \in 1 .. n /\ Len(ArgReg) + j = i /\ handed(i) = call.stacked[j]
      BY <1>0, <1>3, <2>2, CallFacts DEF Overflow
    <3> HIDE DEF j, handed, n
    <3>2. QED
      BY <1>2, <3>1
  <2>3. QED
    BY <1>0, <2>1, <2>2, CallFacts
<1> HIDE DEF handed
<1>5. misread' = {}
  BY <1>0, <1>4 DEF Consume, IInv
<1>6. Steady(J, val)
  BY JoinSteady DEF IInv
<1>7. Steady(Write(J, "a0", v), val) /\ Write(J, "a0", v).reg["a0"] = v
  <2>1. J.cache = {} /\ J.held = [r \in WorkRegs |-> NoReg]
    BY DEF Join, InvalidateCache, IInv, Good, Emitter
  <2>2. J \in Emitter /\ "a0" \in WorkRegs
    BY <1>6, FunctionAssumption DEF Steady, Good
  <2> HIDE DEF J
  <2>3. KillReg(J, "a0") = J
    BY <2>1, <2>2 DEF KillReg, DropReg, Emitter
  <2>4. Write(J, "a0", v) = Overwrite(J, "a0", v)
    BY <2>3 DEF Overwrite
  <2>5. QED
    BY <1>6, <2>2, <2>4, OverwriteSteady DEF Word
<1> HIDE DEF J
<1>8. Steady(em', val')
  BY <1>1, <1>2, <1>7, StoreA0Steady
<1>9. Idle'
  BY <1>0 DEF Idle
<1>10. NoCall \in Calls
  BY DEF NoCall, Calls
<1>11. Good(em, val)' /\ OnlyA0Held(em)' /\ ("generic" \in Shapes => NoT0(em)')
  BY <1>8 DEF Steady, Good, Rows, Held, Homes, OnlyA0Held, NoT0
<1>12. CallInv'
  BY <1>9 DEF CallInv
<1>13. QED
  BY <1>0, <1>2, <1>5, <1>9, <1>10, <1>11, <1>12 DEF IInv

-----------------------------------------------------------------------------
(* The invariant holds at the start and every step keeps it. *)

LEMMA InitInvariant ==
    ASSUME Benign, Init
    PROVE  IInv
<1>1. PICK arg \in [Params -> Val] :
        /\ val = [s \in Slots |-> IF s \in Params THEN arg[s] ELSE Undef]
        /\ em = [cache |-> {},
                 held |-> [r \in WorkRegs |-> NoReg],
                 reg |-> [r \in Regs |->
                            IF \E p \in Params : InSReg(p) /\ Home[p] = r
                            THEN arg[CHOOSE p \in Params : Home[p] = r] ELSE Undef],
                 mem |-> [s \in Slots |-> IF s \in Params /\ ~InSReg(s) THEN arg[s] ELSE Undef]]
  BY DEF Init, Prologue, Arguments
<1>2. pending = NoSlot /\ call = NoCall /\ misread = {}
  BY DEF Init
<1>3. Params \subseteq Slots /\ Params \cap Skip = {} /\ \A p \in Params : ~IsConst(p)
  BY FunctionAssumption DEF Benign
<1>4. em \in Emitter /\ val \in [Slots -> Word]
  <2>1. \A r \in Regs : (\E p \in Params : InSReg(p) /\ Home[p] = r)
                            => (CHOOSE p \in Params : Home[p] = r) \in Params
    OBVIOUS
  <2>2. QED
    BY <1>1, <1>3, <2>1 DEF Emitter, Word
<1>5. ASSUME NEW p \in Params, InSReg(p)
      PROVE  em.reg[Home[p]] = arg[p]
  <2>1. Home[p] \in Regs /\ Home[p] # NoReg
    BY <1>3, <1>5, TableAssumption DEF InSReg, Regs
  <2>2. (CHOOSE o \in Params : Home[o] = Home[p]) = p
    BY <1>3, <2>1, TableAssumption
  <2>3. QED
    BY <1>1, <1>5, <2>1, <2>2
<1>6. Homes(em, val)
  BY <1>1, <1>3, <1>5 DEF Homes
<1>7. Rows(em, val) /\ Held(em) /\ OnlyA0Held(em) /\ NoT0(em)
  BY <1>1 DEF Rows, Held, OnlyA0Held, NoT0
<1>8. call \in Calls /\ CallInv
  BY <1>2 DEF NoCall, Calls, CallInv, Idle
<1>9. QED
  BY <1>2, <1>4, <1>6, <1>7, <1>8 DEF IInv, Good

LEMMA NextInvariant ==
    ASSUME Benign, IInv, [Next]_vars
    PROVE  IInv'
<1>1. CASE UNCHANGED vars
  BY <1>1, StutterStep
<1>2. CASE FallthroughLabel
  BY <1>2, StutterStep DEF FallthroughLabel
<1>3. CASE TargetLabel
  BY <1>3, JumpStep DEF TargetLabel, Benign
<1>4. CASE Goto
  BY <1>4, JumpStep DEF Goto
<1>5. CASE ReturnVoid
  BY <1>5, JumpStep DEF ReturnVoid, MayRead
<1>6. CASE \E s \in Slots : Branch(s) \/ Return(s) \/ StoreGlobal(s)
  BY <1>6, BranchStep, ReturnStep, StoreGlobalStep
<1>7. CASE \E d \in Slots : ConstOmitted(d) \/ ConstEmitted(d) \/ LoadGlobal(d)
  BY <1>7, ConstOmittedStep, ConstEmittedStep, LoadGlobalStep
<1>8. CASE \E d, s \in Slots : Move(d, s) \/ Unary(d, s)
  BY <1>8, MoveStep, UnaryStep
<1>9. CASE \E d, s, t \in Slots : Binary(d, s, t)
  BY <1>9, BinaryImmStep, BinaryNegStep, BinaryCopyStep, BinaryZeroStep,
     BinaryDivConstStep, BinaryGenericStep DEF Binary
<1>10. CASE \E args \in ArgLists, d \in Slots : CallBegin(args, d)
  BY <1>10, CallBeginStep
<1>11. CASE CallStackArg
  BY <1>11, CallStackArgStep
<1>12. CASE CallRegArg
  BY <1>12, CallRegArgStep
<1>13. CASE CallJump
  BY <1>13, CallJumpStep
<1>14. QED
  BY <1>1, <1>2, <1>3, <1>4, <1>5, <1>6, <1>7, <1>8, <1>9, <1>10, <1>11, <1>12, <1>13 DEF Next

\* The strengthened invariant holds throughout every behaviour.
THEOREM InvariantHolds ==
    ASSUME Benign
    PROVE  Spec => []IInv
<1>1. Init => IInv
  BY InitInvariant
<1>2. IInv /\ [Next]_vars => IInv'
  BY NextInvariant
<1>3. QED
  BY <1>1, <1>2, PTL DEF Spec

-----------------------------------------------------------------------------
(* The theorems. *)

LEMMA InvariantImplies ==
    ASSUME IInv
    PROVE  TypeOK /\ OperandsCorrect /\ CacheTruthful /\ HeldTruthful /\ NoLostValue
<1>1. Deferred \subseteq Slots
  BY TableAssumption DEF Deferred
<1>2. TypeOK
  BY <1>1 DEF IInv, Good, TypeOK
<1>3. OperandsCorrect
  BY DEF IInv, OperandsCorrect
<1>4. CacheTruthful
  BY DEF IInv, Good, Rows, CacheTruthful
<1>5. HeldTruthful
  BY DEF IInv, Good, Held, HeldTruthful
<1>6. NoLostValue
  <2>1. Homes(em, val) /\ (pending # NoSlot => InA0(em, pending))
    BY DEF IInv, Good
  <2>2. ASSUME NEW s \in Slots, s = pending
        PROVE  IsCached(em.cache, s)
    BY <2>1, <2>2, FunctionAssumption DEF InA0, IsCached
  <2>3. QED
    BY <2>1, <2>2 DEF Homes, NoLostValue
<1>7. QED
  BY <1>2, <1>3, <1>4, <1>5, <1>6

\* The tables, the machine and the IR values keep their types, whatever the
\* instructions emitInst is given.
THEOREM TypeCorrect ==
    ASSUME Benign
    PROVE  Spec => []TypeOK
<1>1. IInv => TypeOK
  BY InvariantImplies
<1>2. QED
  BY <1>1, InvariantHolds, PTL

\* In every function that is Benign, whatever its slots, its register assignment,
\* the cache capacity and the path taken, every instruction emitInst writes reads
\* in its registers the values the IR gives its operands.
THEOREM EmittedOperandsCorrect ==
    ASSUME Benign
    PROVE  Spec => []OperandsCorrect
<1>1. IInv => OperandsCorrect
  BY InvariantImplies
<1>2. QED
  BY <1>1, InvariantHolds, PTL

\* Every row of cache_ names a register that holds the latest value of its slot,
\* and no slot has two rows.
THEOREM CacheAlwaysTruthful ==
    ASSUME Benign
    PROVE  Spec => []CacheTruthful
<1>1. IInv => CacheTruthful
  BY InvariantImplies
<1>2. QED
  BY <1>1, InvariantHolds, PTL

\* A work register sRegHeld_ lists still equals the s-register it was copied from,
\* although storeSlot never consults that map.
THEOREM HeldAlwaysTruthful ==
    ASSUME Benign
    PROVE  Spec => []HeldTruthful
<1>1. IInv => HeldTruthful
  BY InvariantImplies
<1>2. QED
  BY <1>1, InvariantHolds, PTL

\* No value a later instruction may read is ever without a place to read it from,
\* although the sw of every deferred slot is left out.
THEOREM ValuesNeverLost ==
    ASSUME Benign
    PROVE  Spec => []NoLostValue
<1>1. IInv => NoLostValue
  BY InvariantImplies
<1>2. QED
  BY <1>1, InvariantHolds, PTL

=============================================================================
