--------------------------- MODULE CallGraph_proofs ---------------------------
(***************************************************************************)
(* Proofs about CallGraph: for any number of functions, the search of      *)
(* findRecursive finds the components that are cycles and nothing else.    *)
(***************************************************************************)
EXTENDS CallGraph, FiniteSetTheorems, SequenceTheorems, TLAPS

Reach == Search!Reach

\* The nodes on the work list that were visited, by their place; only the last may
\* not have been.
Gray == {n \in DOMAIN work : idx[work[n].node] # -1}

\* The callees of u that were looked at.
Seen(u) == {w \in calls[u] : \A n \in DOMAIN work : work[n].node = u => w \notin work[n].left}

\* The nodes whose component has been popped.
Closed == {u \in Nodes : idx[u] # -1 /\ ~onStack[u]}

\* y can be reached from x, or is x.
Joins(x, y) == x = y \/ y \in Reach[x]

-----------------------------------------------------------------------------
(* The inductive invariant. *)

TypeOK ==
    /\ calls \in [Nodes -> SUBSET Nodes]
    /\ idx \in [Nodes -> Int] /\ low \in [Nodes -> Int]
    /\ onStack \in [Nodes -> BOOLEAN]
    /\ stack \in Seq(Nodes)
    /\ index \in Nat /\ start \in 0 .. FunctionCount
    /\ work \in Seq([node : Nodes, left : SUBSET Nodes])
    /\ inCycle \in SUBSET Nodes

\* Indices are given in turn, to a node once.
IndicesInTurn ==
    /\ \A u \in Nodes : idx[u] = -1 \/ (0 =< idx[u] /\ idx[u] < index)
    /\ \A u, v \in Nodes : (idx[u] = idx[v] /\ idx[u] # -1) => u = v

\* The stack holds its nodes in the order of their indices.
StackInOrder ==
    /\ \A u \in Nodes : onStack[u] <=> \E n \in DOMAIN stack : stack[n] = u
    /\ \A u \in Nodes : onStack[u] => idx[u] # -1
    /\ \A m, n \in DOMAIN stack : m < n => idx[stack[m]] < idx[stack[n]]

\* The work list is a path of the graph through nodes of open components, and only
\* its last node may be new.
WorkIsPath ==
    /\ \A n \in DOMAIN work : n < Len(work) => idx[work[n].node] # -1
    /\ \A n \in Gray : onStack[work[n].node]
    /\ \A n \in DOMAIN work : work[n].left \subseteq calls[work[n].node]
    /\ \A n \in DOMAIN work : n \notin Gray => work[n].left = calls[work[n].node]
    /\ \A m, n \in DOMAIN work : m < n => work[n].node \in Reach[work[m].node]
    /\ \A m, n \in Gray : m < n => idx[work[m].node] < idx[work[n].node]

\* Nodes before start have been visited, or are about to be.
StartPassed ==
    \A u \in Nodes : u < start => idx[u] # -1 \/ (work # <<>> /\ u = Top.node)

\* A callee that was looked at has been visited, or is about to be.
SeenVisited ==
    \A u \in Nodes : idx[u] # -1 =>
        \A w \in Seen(u) : idx[w] # -1 \/ (work # <<>> /\ w = Top.node)

\* A closed component calls closed components only.
ClosedStays == \A u \in Closed : calls[u] \subseteq Closed

\* An open node reaches an older node of the work list ...
OpenReaches ==
    \A u \in Nodes : onStack[u] =>
        \E n \in Gray : idx[work[n].node] =< idx[u] /\ Joins(u, work[n].node)

\* ... and each node of the work list reaches the younger open nodes.
GrayReaches ==
    \A n \in Gray : \A u \in Nodes :
        (onStack[u] /\ idx[work[n].node] =< idx[u]) => Joins(work[n].node, u)

\* low is the index of an open node that is reached, at most the node's own ...
LowReached ==
    \A n \in Gray :
        /\ low[work[n].node] =< idx[work[n].node]
        /\ \E u \in Nodes : onStack[u] /\ idx[u] = low[work[n].node] /\ Joins(work[n].node, u)

\* ... and no callee seen from the nodes n answers for, which are those visited since
\* n and before the next node of the work list, is older than low.
LowLeast ==
    \A n \in Gray : \A u \in Nodes :
        (/\ onStack[u] /\ idx[work[n].node] =< idx[u]
         /\ n + 1 \in Gray => idx[u] < idx[work[n + 1].node])
        => \A w \in Seen(u) : onStack[w] => low[work[n].node] =< idx[w]

\* The answer so far: the closed nodes that are on a cycle.
AnswerSoFar == inCycle = {u \in Closed : u \in Reach[u]}

IInv ==
    /\ TypeOK /\ IndicesInTurn /\ StackInOrder /\ WorkIsPath /\ StartPassed
    /\ SeenVisited /\ ClosedStays /\ OpenReaches /\ GrayReaches
    /\ LowReached /\ LowLeast /\ AnswerSoFar

-----------------------------------------------------------------------------
(* Reachability. *)

\* Reach holds nodes, and those a function calls among them.
LEMMA ReachEdge ==
    ASSUME TypeOK
    PROVE  /\ \A u \in Nodes : Reach[u] \subseteq Nodes
           /\ \A u \in Nodes : \A v \in calls[u] : v \in Reach[u]
BY DEF TypeOK, Reach, Search!Reach

\* Whoever is in a set that calls cannot leave reaches nodes of that set only.
LEMMA ReachStays ==
    ASSUME TypeOK, NEW S \in SUBSET Nodes, \A w \in S : calls[w] \subseteq S,
           NEW u \in S, NEW v \in Nodes, v \in Reach[u]
    PROVE  v \in S
BY DEF TypeOK, Reach, Search!Reach, Search!Closed

\* What a reachable node reaches is reachable.
LEMMA ReachTransitive ==
    ASSUME TypeOK, NEW u \in Nodes, NEW v \in Nodes, NEW w \in Nodes,
           v \in Reach[u], w \in Reach[v]
    PROVE  w \in Reach[u]
<1>1. ASSUME NEW S \in SUBSET Nodes, calls[u] \subseteq S, Search!Closed(S)
      PROVE  w \in S
  <2>1. v \in S
    BY <1>1 DEF Reach, Search!Reach
  <2>2. calls[v] \subseteq S
    BY <1>1, <2>1 DEF Search!Closed
  <2>3. QED
    BY <1>1, <2>2 DEF Reach, Search!Reach
<1>2. QED
  BY <1>1 DEF Reach, Search!Reach

\* Joins, which allows for no step at all, is transitive too.
LEMMA JoinsTransitive ==
    ASSUME TypeOK, NEW u \in Nodes, NEW v \in Nodes, NEW w \in Nodes,
           Joins(u, v), Joins(v, w)
    PROVE  Joins(u, w)
BY ReachTransitive DEF Joins

\* What can be reached can be reached through one of the callees.
LEMMA ReachFirst ==
    ASSUME TypeOK, NEW u \in Nodes, NEW v \in Nodes, v \in Reach[u]
    PROVE  \E w \in calls[u] : Joins(w, v)
<1> DEFINE S == {x \in Nodes : \E w \in calls[u] : Joins(w, x)}
<1>1. calls[u] \subseteq S
  BY DEF TypeOK, Joins
<1>2. ASSUME NEW x \in S, NEW y \in calls[x] PROVE y \in S
  <2>1. PICK w \in calls[u] : Joins(w, x)
    OBVIOUS
  <2>2. w \in Nodes /\ x \in Nodes /\ y \in Nodes
    BY <2>1 DEF TypeOK
  <2>3. Joins(x, y)
    BY <2>2, ReachEdge DEF Joins
  <2>4. Joins(w, y)
    BY <2>1, <2>2, <2>3, JoinsTransitive
  <2>5. QED
    BY <2>1, <2>2, <2>4
<1>3. Search!Closed(S)
  BY <1>2 DEF Search!Closed
<1>4. v \in S
  BY <1>1, <1>3 DEF Reach, Search!Reach
<1>5. QED
  BY <1>4

\* No step changes the graph, so none changes what is reached.
LEMMA ReachSame == (calls' = calls) => Reach' = Reach
BY DEF Reach, Search!Reach, Search!Closed

-----------------------------------------------------------------------------
(* The invariant is inductive. *)

\* A sequence over S has its entries in S; one entry makes a sequence, and one more
\* makes a longer one.
LEMMA SequenceOver ==
    ASSUME NEW S
    PROVE  /\ \A s \in Seq(S) : /\ Len(s) \in Nat /\ DOMAIN s = 1 .. Len(s)
                                /\ \A n \in DOMAIN s : s[n] \in S
           /\ \A e \in S : <<e>> \in Seq(S)
           /\ \A s \in Seq(S), e \in S :
                  /\ Append(s, e) \in Seq(S) /\ Len(Append(s, e)) = Len(s) + 1
                  /\ Append(s, e)[Len(s) + 1] = e
                  /\ \A n \in DOMAIN s : Append(s, e)[n] = s[n]
           /\ \A s \in Seq(S) : \A k \in 0 .. Len(s) :
                  /\ SubSeq(s, 1, k) \in Seq(S) /\ Len(SubSeq(s, 1, k)) = k
                  /\ \A n \in 1 .. k : SubSeq(s, 1, k)[n] = s[n]
OBVIOUS

\* What the types say of each entry.
LEMMA Entries ==
    ASSUME TypeOK
    PROVE  /\ \A u \in Nodes : /\ idx[u] \in Int /\ low[u] \in Int
                               /\ onStack[u] \in BOOLEAN /\ calls[u] \subseteq Nodes
           /\ Len(work) \in Nat /\ DOMAIN work = 1 .. Len(work)
           /\ \A n \in DOMAIN work : work[n].node \in Nodes /\ work[n].left \subseteq Nodes
           /\ Len(stack) \in Nat /\ DOMAIN stack = 1 .. Len(stack)
           /\ \A n \in DOMAIN stack : stack[n] \in Nodes
           /\ index \in Nat
<1>1. \A u \in Nodes : /\ idx[u] \in Int /\ low[u] \in Int
                       /\ onStack[u] \in BOOLEAN /\ calls[u] \subseteq Nodes
  BY DEF TypeOK
<1>2. Len(work) \in Nat /\ DOMAIN work = 1 .. Len(work)
  BY DEF TypeOK
<1>3. \A n \in DOMAIN work : work[n] \in [node : Nodes, left : SUBSET Nodes]
  BY SequenceOver DEF TypeOK
<1>4. Len(stack) \in Nat /\ DOMAIN stack = 1 .. Len(stack)
  BY DEF TypeOK
<1>5. \A n \in DOMAIN stack : stack[n] \in Nodes
  BY DEF TypeOK
<1>6. QED
  BY <1>1, <1>2, <1>3, <1>4, <1>5 DEF TypeOK

\* It holds before the first step: nothing was visited yet.
LEMMA InitKeeps == Init => IInv
<1> SUFFICES ASSUME Init PROVE IInv
  OBVIOUS
<1>1. TypeOK
  BY FunctionCountAssumption DEF Init, TypeOK, Nodes
<1>2. Gray = {} /\ Closed = {}
  BY DEF Init, Gray, Closed
<1>3. IndicesInTurn /\ StackInOrder /\ StartPassed
  BY FunctionCountAssumption DEF Init, IndicesInTurn, StackInOrder, StartPassed, Nodes
<1>4. WorkIsPath
  BY DEF Init, WorkIsPath, Gray
<1>5. SeenVisited /\ OpenReaches
  BY DEF Init, SeenVisited, OpenReaches
<1>6. ClosedStays /\ GrayReaches /\ LowReached /\ LowLeast /\ AnswerSoFar
  BY <1>2 DEF Init, ClosedStays, GrayReaches, LowReached, LowLeast, AnswerSoFar
<1>7. QED
  BY <1>1, <1>3, <1>4, <1>5, <1>6 DEF IInv

\* Between two searches no component is open.
LEMMA NothingOpen ==
    ASSUME IInv, work = <<>>
    PROVE  Gray = {} /\ \A u \in Nodes : ~onStack[u]
<1>1. Gray = {}
  BY DEF Gray
<1>2. QED
  BY <1>1 DEF IInv, OpenReaches

\* A search may begin.
LEMMA BeginKeeps == IInv /\ Begin => IInv'
<1> SUFFICES ASSUME IInv, Begin PROVE IInv'
  OBVIOUS
<1> USE FunctionCountAssumption DEF IInv, Begin
<1>1. Reach' = Reach
  BY ReachSame
<1>2. start \in Nodes /\ start' \in 0 .. FunctionCount
  BY DEF TypeOK, Nodes
<1>3. \A u \in Nodes : ~onStack[u]
  BY NothingOpen
<1>4. /\ work' \in Seq([node : Nodes, left : SUBSET Nodes])
      /\ Gray' = {} /\ Closed' = Closed
      /\ \A n \in DOMAIN work' : n = 1 /\ Len(work') = 1 /\ work'[n] = Visit(start)
  <2>1. Visit(start) \in [node : Nodes, left : SUBSET Nodes]
    BY <1>2 DEF TypeOK, Visit
  <2>2. work' \in Seq([node : Nodes, left : SUBSET Nodes])
    BY <2>1, SequenceOver DEF TypeOK
  <2>3. \A n \in DOMAIN work' : n = 1 /\ Len(work') = 1 /\ work'[n] = Visit(start)
    OBVIOUS
  <2>4. \A n \in DOMAIN work' : idx[start] = -1 /\ work'[n].node = start
    BY <2>3 DEF Visit
  <2>5. QED
    BY <2>2, <2>3, <2>4 DEF Gray, Closed
<1>5. TypeOK'
  BY <1>2, <1>4 DEF TypeOK
<1>6. IndicesInTurn' /\ StackInOrder'
  BY DEF IndicesInTurn, StackInOrder
<1>7. WorkIsPath'
  BY <1>4 DEF WorkIsPath, Visit
<1>8. StartPassed'
  BY <1>2, <1>4, SMTT(30) DEF StartPassed, Top, Visit, TypeOK, Nodes
<1>9. SeenVisited'
  <2>1. SUFFICES ASSUME NEW u \in Nodes, idx[u] # -1, NEW w \in calls[u] PROVE idx[w] # -1
    BY DEF SeenVisited, Seen
  <2>2. u \in Closed
    BY <1>3, <2>1 DEF Closed
  <2>3. QED
    BY <2>2 DEF ClosedStays, Closed
<1>10. ClosedStays' /\ AnswerSoFar'
  BY <1>1, <1>4 DEF ClosedStays, AnswerSoFar
<1>11. OpenReaches'
  BY <1>3 DEF OpenReaches
<1>12. GrayReaches' /\ LowReached' /\ LowLeast'
  BY <1>4 DEF GrayReaches, LowReached, LowLeast
<1>13. QED
  BY <1>5, <1>6, <1>7, <1>8, <1>9, <1>10, <1>11, <1>12

\* The last node of the work list, when it is new.
LEMMA TopNew ==
    ASSUME IInv, work # <<>>, idx[Top.node] = -1
    PROVE  /\ Len(work) \in DOMAIN work
           /\ Top.node \in Nodes /\ ~onStack[Top.node] /\ Top.left = calls[Top.node]
           /\ Seen(Top.node) = {}
           /\ Gray = DOMAIN work \ {Len(work)}
<1> USE DEF IInv
<1>1. Len(work) \in DOMAIN work /\ work[Len(work)] = Top
  <2>1. Len(work) # 0
    BY DEF TypeOK
  <2>2. QED
    BY <2>1, Entries DEF Top
<1>2. Gray = DOMAIN work \ {Len(work)}
  BY <1>1, Entries DEF Gray, WorkIsPath
<1>3. Top.node \in Nodes /\ ~onStack[Top.node] /\ Top.left = calls[Top.node]
  BY <1>1, <1>2, Entries DEF StackInOrder, WorkIsPath
<1>4. Seen(Top.node) = {}
  BY <1>1, <1>3 DEF Seen
<1>5. QED
  BY <1>1, <1>2, <1>3, <1>4

\* The node on top of the work list may be visited for the first time.
LEMMA DiscoverKeeps == IInv /\ Discover => IInv'
<1> SUFFICES ASSUME IInv, Discover PROVE IInv'
  OBVIOUS
<1> DEFINE v == Top.node
           k == Len(work)
<1>0. v = Top.node
  OBVIOUS
<1> USE DEF IInv
<1>1. Reach' = Reach /\ calls' = calls /\ work' = work /\ start' = start /\ inCycle' = inCycle
  BY ReachSame DEF Discover
<1>2. /\ k \in DOMAIN work /\ v \in Nodes /\ work[k].node = v /\ idx[v] = -1
      /\ ~onStack[v] /\ Seen(v) = {} /\ Gray = DOMAIN work \ {k}
  BY TopNew DEF Discover, Top
<1> HIDE DEF v
<1>3. /\ \A u \in Nodes : u # v => idx'[u] = idx[u] /\ low'[u] = low[u] /\ onStack'[u] = onStack[u]
      /\ idx'[v] = index /\ low'[v] = index /\ onStack'[v] = TRUE
      /\ index' = index + 1
  BY <1>0, <1>2 DEF Discover, TypeOK
<1>4. /\ \A u \in Nodes : Seen(u)' = Seen(u)
      /\ \A n \in DOMAIN work : work[n].node \in Nodes
      /\ \A n \in Gray : work[n].node # v
  BY <1>1, <1>2, Entries DEF Seen, Gray
<1>5. Gray' = DOMAIN work
  BY <1>1, <1>2, <1>3, <1>4, Entries DEF Gray
<1>6. Closed' = Closed
  BY <1>2, <1>3, Entries DEF Closed
<1>7. TypeOK'
  BY <1>0, <1>1, <1>2 DEF Discover, TypeOK
<1>8. IndicesInTurn'
  BY <1>2, <1>3, Entries, SMTT(30) DEF IndicesInTurn
<1>9. StackInOrder'
  <2>1. /\ DOMAIN stack' = 1 .. Len(stack) + 1 /\ DOMAIN stack = 1 .. Len(stack)
        /\ \A n \in DOMAIN stack : stack'[n] = stack[n] /\ stack[n] \in Nodes
        /\ stack'[Len(stack) + 1] = v /\ Len(stack) \in Nat
    BY <1>0, <1>2, SequenceOver, SMTT(30) DEF Discover, TypeOK
  <2>2. \A n \in DOMAIN stack : onStack[stack[n]] /\ stack[n] # v /\ idx[stack[n]] < index
    BY <1>2, <2>1 DEF StackInOrder, IndicesInTurn
  <2>3. \A u \in Nodes : onStack'[u] <=> \E n \in DOMAIN stack' : stack'[n] = u
    BY <1>2, <1>3, <2>1 DEF StackInOrder
  <2>4. \A m, n \in DOMAIN stack' : m < n => idx'[stack'[m]] < idx'[stack'[n]]
    BY <1>3, <2>1, <2>2 DEF StackInOrder
  <2>5. \A u \in Nodes : onStack'[u] => idx'[u] # -1
    BY <1>2, <1>3, Entries DEF StackInOrder
  <2>6. QED
    BY <2>3, <2>4, <2>5 DEF StackInOrder
<1>10. \A n \in Gray : idx[work[n].node] < index /\ idx[work[n].node] # -1 /\ onStack[work[n].node]
  BY <1>4 DEF IndicesInTurn, WorkIsPath, Gray
<1>11. WorkIsPath'
  <2>1. \A n \in DOMAIN work : onStack'[work[n].node] /\ idx'[work[n].node] # -1
    BY <1>2, <1>3, <1>4, <1>10, Entries
  <2>2. \A m, n \in DOMAIN work : m < n => idx'[work[m].node] < idx'[work[n].node]
    BY <1>2, <1>3, <1>4, <1>10, Entries DEF WorkIsPath
  <2>3. QED
    BY <1>1, <1>5, <2>1, <2>2 DEF WorkIsPath
<1>12. StartPassed'
  BY <1>0, <1>1, <1>2, <1>3, Entries DEF StartPassed, Top
<1>13. SeenVisited'
  BY <1>0, <1>1, <1>2, <1>3, <1>4, Entries, SMTT(30) DEF SeenVisited, Top, Seen
<1>14. ClosedStays' /\ AnswerSoFar'
  BY <1>1, <1>6 DEF ClosedStays, AnswerSoFar
<1>15. OpenReaches'
  <2>1. SUFFICES ASSUME NEW u \in Nodes, onStack'[u]
                 PROVE  \E n \in DOMAIN work : /\ idx'[work[n].node] =< idx'[u]
                                               /\ Joins(u, work[n].node)
    BY <1>1, <1>5 DEF OpenReaches, Joins
  <2>2. CASE u = v
    BY <1>2, <1>3, <2>2, Entries DEF Joins
  <2>3. CASE u # v
    BY <1>3, <1>4, <2>1, <2>3 DEF OpenReaches, Gray
  <2>4. QED
    BY <2>2, <2>3
<1>16. GrayReaches'
  <2>1. SUFFICES ASSUME NEW n \in DOMAIN work, NEW u \in Nodes, onStack'[u],
                        idx'[work[n].node] =< idx'[u]
                 PROVE  Joins(work[n].node, u)
    BY <1>1, <1>5 DEF GrayReaches, Joins
  <2>2. CASE n = k
    <3>1. idx'[u] =< index
      BY <1>3, Entries DEF IndicesInTurn
    <3>2. u = v
      BY <1>2, <1>3, <2>1, <2>2, <3>1, Entries DEF IndicesInTurn
    <3>3. QED
      BY <1>2, <2>2, <3>2 DEF Joins
  <2>3. CASE n # k /\ u = v
    BY <1>2, <2>3, Entries DEF WorkIsPath, Joins
  <2>4. CASE n # k /\ u # v
    BY <1>2, <1>3, <1>4, <2>1, <2>4 DEF GrayReaches
  <2>5. QED
    BY <2>2, <2>3, <2>4
<1>17. LowReached'
  <2>1. SUFFICES ASSUME NEW n \in DOMAIN work
                 PROVE  /\ low'[work[n].node] =< idx'[work[n].node]
                        /\ \E u \in Nodes : /\ onStack'[u] /\ idx'[u] = low'[work[n].node]
                                            /\ Joins(work[n].node, u)
    BY <1>1, <1>5 DEF LowReached, Joins
  <2>2. CASE n = k
    BY <1>2, <1>3, <2>2, Entries DEF Joins
  <2>3. CASE n # k
    BY <1>2, <1>3, <1>4, <2>3 DEF LowReached
  <2>4. QED
    BY <2>2, <2>3
<1>18. LowLeast'
  <2>1. SUFFICES ASSUME NEW n \in DOMAIN work, NEW u \in Nodes, onStack'[u],
                        idx'[work[n].node] =< idx'[u],
                        n + 1 \in DOMAIN work => idx'[u] < idx'[work[n + 1].node],
                        NEW w \in Seen(u), onStack'[w]
                 PROVE  low'[work[n].node] =< idx'[w]
    BY <1>1, <1>4, <1>5 DEF LowLeast
  <2>2. u # v
    BY <1>2
  <2>3. n # k
    BY <1>2, <1>3, <2>1, <2>2, Entries DEF IndicesInTurn
  <2>4. n \in Gray /\ work[n].node # v
    BY <1>2, <1>4, <2>3
  <2>5. CASE w = v
    BY <1>3, <1>4, <1>10, <2>4, <2>5, Entries, SMTT(30) DEF LowReached
  <2>6. CASE w # v
    <3>1. w \in Nodes
      BY Entries DEF Seen
    <3>2. n + 1 \in Gray => idx[u] < idx[work[n + 1].node]
      BY <1>2, <1>3, <1>4, <2>1, <2>2
    <3>3. QED
      BY <1>3, <1>4, <2>1, <2>2, <2>4, <2>6, <3>1, <3>2 DEF LowLeast
  <2>7. QED
    BY <2>5, <2>6
<1>19. QED
  BY <1>7, <1>8, <1>9, <1>11, <1>12, <1>13, <1>14, <1>15, <1>16, <1>17, <1>18

\* The last node of the work list, when it was visited.
LEMMA TopOld ==
    ASSUME IInv, work # <<>>, idx[Top.node] # -1
    PROVE  /\ Len(work) \in DOMAIN work /\ work[Len(work)] = Top
           /\ Top.node \in Nodes /\ onStack[Top.node]
           /\ Top.left \subseteq calls[Top.node]
           /\ Gray = DOMAIN work
           /\ \A n \in DOMAIN work : /\ n # Len(work) => work[n].node # Top.node
                                     /\ idx[work[n].node] =< idx[Top.node]
<1> USE DEF IInv
<1>1. Len(work) \in DOMAIN work /\ work[Len(work)] = Top
  <2>1. Len(work) # 0
    BY DEF TypeOK
  <2>2. QED
    BY <2>1, Entries DEF Top
<1>2. Gray = DOMAIN work
  BY <1>1, Entries DEF Gray, WorkIsPath
<1>3. Top.node \in Nodes /\ onStack[Top.node] /\ Top.left \subseteq calls[Top.node]
  BY <1>1, <1>2, Entries DEF WorkIsPath
<1>4. \A n \in DOMAIN work : n # Len(work) => idx[work[n].node] < idx[Top.node]
  BY <1>1, <1>2, Entries DEF WorkIsPath
<1>5. QED
  BY <1>1, <1>2, <1>3, <1>4, Entries

\* The top node may look at a neighbour w: an entry of the work list after the step.
LEMMA LookedEntries ==
    ASSUME IInv, work # <<>>, NEW w \in Top.left
    PROVE  /\ Looked(w) \in Seq([node : Nodes, left : SUBSET Nodes])
           /\ Len(Looked(w)) = Len(work) /\ DOMAIN Looked(w) = DOMAIN work
           /\ \A n \in DOMAIN work :
                 /\ Looked(w)[n].node = work[n].node
                 /\ Looked(w)[n].left = IF n = Len(work) THEN work[n].left \ {w} ELSE work[n].left
<1> DEFINE E == [node : Nodes, left : SUBSET Nodes]
<1>1. work \in Seq(E) /\ Len(work) \in DOMAIN work
  BY DEF IInv, TypeOK
<1>2. \A n \in DOMAIN work : work[n] \in E
  BY <1>1, SequenceOver
<1>3. \A n \in DOMAIN work :
          Looked(w)[n] = IF n = Len(work) THEN [work[n] EXCEPT !.left = @ \ {w}] ELSE work[n]
  BY <1>1 DEF Looked
<1>4. \A n \in DOMAIN work :
          /\ Looked(w)[n] \in E /\ Looked(w)[n].node = work[n].node
          /\ Looked(w)[n].left = IF n = Len(work) THEN work[n].left \ {w} ELSE work[n].left
  <2>1. \A e \in E : LET f == [e EXCEPT !.left = @ \ {w}]
                     IN  f \in E /\ f.node = e.node /\ f.left = e.left \ {w}
    OBVIOUS
  <2>2. TAKE n \in DOMAIN work
  <2>3. CASE n = Len(work)
    <3>1. Looked(w)[n] = [work[n] EXCEPT !.left = @ \ {w}] /\ work[n] \in E
      BY <1>2, <1>3, <2>3
    <3>2. QED
      BY <2>1, <2>3, <3>1
  <2>4. CASE n # Len(work)
    BY <1>2, <1>3, <2>4
  <2>5. QED
    BY <2>3, <2>4
<1>5. DOMAIN Looked(w) = DOMAIN work
  BY <1>1 DEF Looked
<1>6. Looked(w) \in Seq(E) /\ Len(Looked(w)) = Len(work)
  <2>1. DOMAIN work = 1 .. Len(work) /\ Len(work) \in Nat
    BY <1>1, SequenceOver
  <2>2. Looked(w) = [work EXCEPT ![Len(work)] = Looked(w)[Len(work)]]
    BY <1>1 DEF Looked
  <2>3. Looked(w)[Len(work)] \in E /\ Len(work) \in 1 .. Len(work)
    BY <1>1, <1>4, <2>1
  <2> DEFINE e == Looked(w)[Len(work)]
  <2>4. [work EXCEPT ![Len(work)] = e] \in Seq(E) /\ Len([work EXCEPT ![Len(work)] = e]) = Len(work)
    <3> HIDE DEF e, E
    <3>1. QED
      BY <1>1, <2>3, ExceptSeq DEF e
  <2>5. QED
    BY <2>2, <2>4
<1>7. QED
  BY <1>4, <1>5, <1>6

\* What a look leaves: the places of the nodes, the callees seen, and low.
LEMMA LookEffect ==
    ASSUME IInv, work # <<>>, idx[Top.node] # -1, Look
    PROVE  \E w \in Top.left :
             /\ work' = IF idx[w] = -1 THEN Append(Looked(w), Visit(w)) ELSE Looked(w)
             /\ work' \in Seq([node : Nodes, left : SUBSET Nodes])
             /\ Len(work') = IF idx[w] = -1 THEN Len(work) + 1 ELSE Len(work)
             /\ \A n \in DOMAIN work :
                   /\ n \in DOMAIN work' /\ work'[n].node = work[n].node
                   /\ work'[n].left =
                         IF n = Len(work) THEN work[n].left \ {w} ELSE work[n].left
             /\ \A n \in DOMAIN work' \ DOMAIN work : n = Len(work) + 1 /\ work'[n] = Visit(w)
             /\ low' \in [Nodes -> Int]
             /\ \A u \in Nodes : u # Top.node => low'[u] = low[u]
             /\ low'[Top.node] =< low[Top.node]
             /\ low'[Top.node] = low[Top.node] \/ (onStack[w] /\ low'[Top.node] = idx[w])
             /\ onStack[w] => low'[Top.node] =< idx[w]
<1> USE DEF IInv
<1>1. PICK w \in Top.left :
        /\ work' = IF idx[w] = -1 THEN Append(Looked(w), Visit(w)) ELSE Looked(w)
        /\ low' = IF idx[w] = -1 THEN low ELSE LowAfter(Top.node, w)
  BY DEF Look
<1>2. Top.node \in Nodes /\ w \in Nodes
  BY TopOld, Entries
<1>3. Visit(w) \in [node : Nodes, left : SUBSET Nodes]
  BY <1>2, Entries DEF Visit
<1>4. /\ Looked(w) \in Seq([node : Nodes, left : SUBSET Nodes])
      /\ Len(Looked(w)) = Len(work) /\ DOMAIN Looked(w) = DOMAIN work
      /\ \A n \in DOMAIN work :
            /\ Looked(w)[n].node = work[n].node
            /\ Looked(w)[n].left = IF n = Len(work) THEN work[n].left \ {w} ELSE work[n].left
  BY LookedEntries
<1>5. /\ work' \in Seq([node : Nodes, left : SUBSET Nodes])
      /\ Len(work') = IF idx[w] = -1 THEN Len(work) + 1 ELSE Len(work)
      /\ \A n \in DOMAIN work : n \in DOMAIN work' /\ work'[n] = Looked(w)[n]
      /\ \A n \in DOMAIN work' \ DOMAIN work : n = Len(work) + 1 /\ work'[n] = Visit(w)
  <2>1. CASE idx[w] = -1
    <3>1. work' = Append(Looked(w), Visit(w))
      BY <1>1, <2>1
    <3>2. /\ work' \in Seq([node : Nodes, left : SUBSET Nodes])
          /\ Len(work') = Len(work) + 1 /\ work'[Len(work) + 1] = Visit(w)
          /\ \A n \in DOMAIN work : work'[n] = Looked(w)[n]
      BY <3>1, <1>3, <1>4, SequenceOver
    <3>3. DOMAIN work' = 1 .. Len(work) + 1 /\ DOMAIN work = 1 .. Len(work) /\ Len(work) \in Nat
      BY <3>2, SequenceOver, Entries
    <3>4. QED
      BY <2>1, <3>2, <3>3
  <2>2. CASE idx[w] # -1
    BY <1>1, <1>4, <2>2
  <2>3. QED
    BY <2>1, <2>2
<1>6. /\ low' \in [Nodes -> Int]
      /\ \A u \in Nodes : u # Top.node => low'[u] = low[u]
      /\ low'[Top.node] =< low[Top.node]
      /\ low'[Top.node] = low[Top.node] \/ (onStack[w] /\ low'[Top.node] = idx[w])
      /\ onStack[w] => low'[Top.node] =< idx[w]
  <2>1. low \in [Nodes -> Int] /\ idx[w] \in Int /\ low[Top.node] \in Int
    BY <1>2, Entries DEF TypeOK
  <2>2. idx[w] = -1 => ~onStack[w]
    BY <1>2 DEF StackInOrder
  <2>3. CASE low' = low
    BY <1>1, <2>1, <2>2, <2>3, <1>2 DEF LowAfter, Least
  <2>4. CASE low' # low
    BY <1>1, <2>1, <2>4, <1>2 DEF LowAfter, Least
  <2>5. QED
    BY <2>3, <2>4
<1>7. \A n \in DOMAIN work :
          /\ n \in DOMAIN work' /\ work'[n].node = work[n].node
          /\ work'[n].left = IF n = Len(work) THEN work[n].left \ {w} ELSE work[n].left
  BY <1>4, <1>5
<1>8. QED
  BY <1>1, <1>5, <1>6, <1>7

\* The node on top of the work list may look at its next neighbour.
LEMMA LookKeeps == IInv /\ Look => IInv'
<1> SUFFICES ASSUME IInv, Look PROVE IInv'
  OBVIOUS
<1> DEFINE v == Top.node
           k == Len(work)
<1> USE DEF IInv
<1>1. work # <<>> /\ idx[v] # -1
  BY DEF Look
<1>2. /\ Reach' = Reach /\ calls' = calls /\ idx' = idx /\ onStack' = onStack
      /\ stack' = stack /\ index' = index /\ start' = start /\ inCycle' = inCycle
  BY ReachSame DEF Look
<1>3. PICK w \in Top.left :
        /\ work' = IF idx[w] = -1 THEN Append(Looked(w), Visit(w)) ELSE Looked(w)
        /\ work' \in Seq([node : Nodes, left : SUBSET Nodes])
        /\ Len(work') = IF idx[w] = -1 THEN k + 1 ELSE k
        /\ \A n \in DOMAIN work :
              /\ n \in DOMAIN work' /\ work'[n].node = work[n].node
              /\ work'[n].left = IF n = k THEN work[n].left \ {w} ELSE work[n].left
        /\ \A n \in DOMAIN work' \ DOMAIN work : n = k + 1 /\ work'[n] = Visit(w)
        /\ low' \in [Nodes -> Int]
        /\ \A u \in Nodes : u # v => low'[u] = low[u]
        /\ low'[v] =< low[v]
        /\ low'[v] = low[v] \/ (onStack[w] /\ low'[v] = idx[w])
        /\ onStack[w] => low'[v] =< idx[w]
  BY <1>1, LookEffect
<1>31. \A y \in Nodes : low'[y] =< low[y]
  <2>1. low \in [Nodes -> Int] /\ (\A y \in Nodes : y # v => low'[y] = low[y]) /\ low'[v] =< low[v]
    BY <1>3 DEF TypeOK
  <2> HIDE DEF v
  <2>2. QED
    BY <2>1
<1>4. /\ k \in DOMAIN work /\ work[k] = Top /\ v \in Nodes /\ onStack[v]
      /\ Top.left \subseteq calls[v] /\ Gray = DOMAIN work
      /\ \A n \in DOMAIN work : /\ n # k => work[n].node # v
                                /\ idx[work[n].node] =< idx[v]
  BY <1>1, TopOld
<1>5. w \in calls[v] /\ w \in Nodes /\ w \in Reach[v] /\ (idx[w] = -1 => ~onStack[w])
  BY <1>4, Entries, ReachEdge DEF StackInOrder
<1>6. DOMAIN work' = IF idx[w] = -1 THEN 1 .. k + 1 ELSE 1 .. k
  BY <1>3, SequenceOver, Entries
<1>61. /\ \A n \in DOMAIN work : n \in DOMAIN work' /\ work'[n].node = work[n].node
       /\ \A n \in DOMAIN work : n # k => work'[n].left = work[n].left
       /\ work'[k].left = Top.left \ {w} /\ work'[k].node = v
  BY <1>3, <1>4
<1>62. \A n \in DOMAIN work' : n \notin DOMAIN work =>
          /\ n = k + 1 /\ idx[w] = -1 /\ work'[n].node = w /\ work'[n].left = calls[w]
  BY <1>3, <1>6, Entries DEF Visit
<1>63. \A n \in DOMAIN work : work[n].node \in Nodes /\ idx[work[n].node] # -1
  BY <1>4, Entries DEF Gray
<1>7. Gray' = DOMAIN work
  BY <1>2, <1>61, <1>62, <1>63 DEF Gray
<1>8. \A u \in Nodes : (idx[u] # -1 \/ u = v) =>
          Seen(u)' = IF u = v THEN Seen(u) \cup {w} ELSE Seen(u)
  <2>1. SUFFICES ASSUME NEW u \in Nodes, idx[u] # -1, NEW x
                 PROVE  x \in Seen(u)' <=> (x \in Seen(u) \/ (u = v /\ x = w))
    BY <1>1
  <2>2. \A n \in DOMAIN work' : n \notin DOMAIN work => work'[n].node # u
    BY <1>62, <2>1
  <2>3. CASE u = v
    <3>1. x \in Seen(u) <=> (x \in calls[v] /\ x \notin Top.left)
      BY <1>4, <2>3 DEF Seen
    <3>2. x \in Seen(u)' <=> (x \in calls[v] /\ x \notin Top.left \ {w})
      BY <1>2, <1>4, <1>61, <2>2, <2>3 DEF Seen
    <3>3. QED
      BY <3>1, <3>2, <2>3, <1>5
  <2>4. CASE u # v
    BY <1>2, <1>4, <1>61, <2>2, <2>4 DEF Seen
  <2>5. QED
    BY <2>3, <2>4
<1>9. Closed' = Closed
  BY <1>2 DEF Closed
<1>10. TypeOK'
  BY <1>2, <1>3 DEF TypeOK
<1>11. IndicesInTurn' /\ StackInOrder'
  BY <1>2 DEF IndicesInTurn, StackInOrder
<1>12. WorkIsPath'
  <2>1. \A n \in DOMAIN work' : n < Len(work') => idx[work'[n].node] # -1
    <3>1. Len(work') =< k + 1 /\ k \in Nat /\ DOMAIN work = 1 .. k /\ DOMAIN work' \subseteq Nat \ {0}
      BY <1>3, <1>6, Entries
    <3>2. \A n \in DOMAIN work' : n < Len(work') => n \in DOMAIN work
      <4>1. Len(work') \in Int
        BY <1>3, <3>1
      <4>2. QED
        BY <3>1, <4>1
    <3>3. QED
      BY <1>61, <1>63, <3>2
  <2>2. \A n \in DOMAIN work : onStack[work'[n].node]
    BY <1>3, <1>4 DEF WorkIsPath
  <2>3. \A n \in DOMAIN work' : work'[n].left \subseteq calls[work'[n].node]
    BY <1>4, <1>61, <1>62 DEF WorkIsPath
  <2>4. \A n \in DOMAIN work' : n \notin DOMAIN work => work'[n].left = calls[work'[n].node]
    BY <1>62
  <2>5. ASSUME NEW m \in DOMAIN work', NEW n \in DOMAIN work', m < n
        PROVE  work'[n].node \in Reach[work'[m].node]
    <3>1. m \in DOMAIN work
      BY <1>3, <1>6, <2>5, Entries
    <3>2. CASE n \in DOMAIN work
      BY <1>3, <2>5, <3>1, <3>2 DEF WorkIsPath
    <3>3. CASE n \notin DOMAIN work
      <4>1. work'[n].node = w /\ work'[m].node = work[m].node
        BY <1>61, <1>62, <3>1, <3>3
      <4>2. m = k \/ v \in Reach[work[m].node]
        BY <1>4, <3>1, Entries DEF WorkIsPath
      <4>3. work[m].node \in Nodes
        BY <3>1, Entries
      <4>4. QED
        BY <4>1, <4>2, <4>3, <1>4, <1>5, ReachTransitive
    <3>4. QED
      BY <3>2, <3>3
  <2>6. \A m, n \in DOMAIN work : m < n => idx[work'[m].node] < idx[work'[n].node]
    BY <1>3, <1>4 DEF WorkIsPath
  <2>7. QED
    BY <1>2, <1>7, <2>1, <2>2, <2>3, <2>4, <2>5, <2>6 DEF WorkIsPath
<1>13. \A u \in Nodes : u < start => idx[u] # -1
  BY <1>1 DEF StartPassed
<1>14. StartPassed'
  BY <1>2, <1>13 DEF StartPassed
<1>15. idx[w] # -1 \/ (work' # <<>> /\ Top'.node = w)
  BY <1>3, <1>4, <1>6, Entries DEF Top, Visit
<1>16. SeenVisited'
  <2>1. SUFFICES ASSUME NEW u \in Nodes, idx[u] # -1, NEW x \in Seen(u)'
                 PROVE  idx[x] # -1 \/ (work' # <<>> /\ x = Top'.node)
    BY <1>2 DEF SeenVisited
  <2>2. x \in Seen(u) \/ x = w
    BY <1>8, <2>1
  <2>3. QED
    BY <1>1, <1>15, <2>1, <2>2 DEF SeenVisited
<1>17. ClosedStays' /\ AnswerSoFar'
  BY <1>2, <1>9 DEF ClosedStays, AnswerSoFar
<1>18. OpenReaches'
  BY <1>2, <1>4, <1>61, <1>7 DEF OpenReaches, Joins
<1>19. GrayReaches'
  BY <1>2, <1>4, <1>61, <1>7 DEF GrayReaches, Joins
<1>20. LowReached'
  <2>1. SUFFICES ASSUME NEW n \in DOMAIN work
                 PROVE  /\ low'[work[n].node] =< idx[work[n].node]
                        /\ \E u \in Nodes : /\ onStack[u] /\ idx[u] = low'[work[n].node]
                                            /\ Joins(work[n].node, u)
    BY <1>2, <1>61, <1>7 DEF LowReached, Joins
  <2>2. work[n].node \in Nodes
    BY Entries
  <2>3. CASE low'[work[n].node] = low[work[n].node]
    BY <1>4, <2>3 DEF LowReached
  <2>4. CASE low'[work[n].node] # low[work[n].node]
    <3>1. work[n].node = v /\ onStack[w] /\ low'[v] = idx[w] /\ low'[v] =< low[v]
      BY <1>3, <2>2, <2>4
    <3>2. low[v] =< idx[v]
      BY <1>4 DEF LowReached
    <3>3. idx[w] \in Int /\ low[v] \in Int /\ idx[v] \in Int
      BY <1>4, <1>5, Entries
    <3>4. QED
      BY <1>5, <3>1, <3>2, <3>3 DEF Joins
  <2>5. QED
    BY <2>3, <2>4
<1>21. LowLeast'
  <2>1. SUFFICES ASSUME NEW n \in DOMAIN work, NEW u \in Nodes, onStack[u],
                        idx[work[n].node] =< idx[u],
                        n + 1 \in DOMAIN work => idx[u] < idx[work[n + 1].node],
                        NEW x \in Seen(u)', onStack[x]
                 PROVE  low'[work[n].node] =< idx[x]
    BY <1>2, <1>4, <1>61, <1>7 DEF LowLeast
  <2>2. work[n].node \in Nodes /\ idx[u] # -1 /\ x \in Nodes
    <3>1. x \in calls[u]
      BY <1>2 DEF Seen
    <3>2. QED
      BY <2>1, <3>1, Entries DEF StackInOrder
  <2>3. CASE x \in Seen(u)
    <3>1. low[work[n].node] =< idx[x]
      BY <1>4, <2>1, <2>3 DEF LowLeast
    <3>2. low'[work[n].node] =< low[work[n].node]
      <4>1. \A y \in Nodes : low'[y] =< low[y]
        BY <1>31
      <4>2. QED
        BY <2>2, <4>1
    <3>3. low'[work[n].node] \in Int /\ low[work[n].node] \in Int /\ idx[x] \in Int
      BY <1>3, <2>2, Entries
    <3>4. QED
      BY <3>1, <3>2, <3>3
  <2>4. CASE x \notin Seen(u)
    <3>1. u = v /\ x = w
      BY <1>8, <2>1, <2>2, <2>4
    <3>2. n = k
      <4>1. n + 1 \in DOMAIN work => idx[work[n + 1].node] =< idx[v]
        BY <1>4
      <4>2. n + 1 \notin DOMAIN work
        <5>1. n + 1 \in DOMAIN work => idx[work[n + 1].node] \in Int
          BY Entries
        <5>2. QED
          BY <2>1, <3>1, <4>1, <5>1, <1>4, Entries
      <4>3. QED
        BY <1>4, <4>2, Entries
    <3>3. QED
      BY <1>3, <1>4, <2>1, <3>1, <3>2
  <2>5. QED
    BY <2>3, <2>4
<1>22. QED
  BY <1>10, <1>11, <1>12, <1>14, <1>16, <1>17, <1>18, <1>19, <1>20, <1>21

\* The open nodes that are not older than v: what a root takes off the stack.
Young(v) == {u \in Nodes : onStack[u] /\ idx[v] =< idx[u]}

\* On the stack they are the nodes from v on.
LEMMA YoungOnTop ==
    ASSUME IInv, NEW v \in Nodes, onStack[v]
    PROVE  /\ IndexOf(v) \in DOMAIN stack /\ stack[IndexOf(v)] = v
           /\ Young(v) = {stack[n] : n \in IndexOf(v) .. Len(stack)}
           /\ \A n \in DOMAIN stack : n < IndexOf(v) <=> idx[stack[n]] < idx[v]
<1> USE DEF IInv
<1> DEFINE i == IndexOf(v)
<1>1. i \in DOMAIN stack /\ stack[i] = v
  BY DEF IndexOf, StackInOrder
<1> HIDE DEF i
<1>2. DOMAIN stack = 1 .. Len(stack) /\ Len(stack) \in Nat /\ idx[v] \in Int
  BY Entries
<1>3. \A n \in DOMAIN stack : stack[n] \in Nodes /\ idx[stack[n]] \in Int
  BY Entries
<1>4. \A m, n \in DOMAIN stack : m < n => idx[stack[m]] < idx[stack[n]]
  BY DEF StackInOrder
<1>5. \A n \in DOMAIN stack : n < i <=> idx[stack[n]] < idx[v]
  BY <1>1, <1>2, <1>3, <1>4
<1>6. ASSUME NEW u \in Young(v) PROVE u \in {stack[n] : n \in i .. Len(stack)}
  <2>1. PICK n \in DOMAIN stack : stack[n] = u
    BY DEF Young, StackInOrder
  <2>2. idx[v] =< idx[u] /\ idx[u] \in Int
    BY <1>3, <2>1 DEF Young
  <2>3. ~(n < i)
    BY <1>2, <1>5, <2>1, <2>2
  <2>4. n \in i .. Len(stack)
    BY <1>1, <1>2, <2>1, <2>3
  <2>5. QED
    BY <2>1, <2>4
<1>7. ASSUME NEW n \in i .. Len(stack) PROVE stack[n] \in Young(v)
  <2>1. n \in DOMAIN stack /\ ~(n < i)
    BY <1>1, <1>2
  <2>2. onStack[stack[n]]
    BY <1>3, <2>1 DEF StackInOrder
  <2>3. QED
    BY <1>2, <1>3, <1>5, <2>1, <2>2 DEF Young
<1>8. QED
  BY <1>1, <1>5, <1>6, <1>7 DEF i

\* Every open node reaches the node at work, when that one was visited.
LEMMA OpenReachesTop ==
    ASSUME IInv, work # <<>>, idx[Top.node] # -1, NEW u \in Nodes, onStack[u]
    PROVE  Joins(u, Top.node)
<1> USE DEF IInv
<1>1. PICK n \in Gray : Joins(u, work[n].node)
  BY DEF OpenReaches
<1>2. /\ Len(work) \in DOMAIN work /\ work[Len(work)] = Top /\ Top.node \in Nodes
      /\ n \in DOMAIN work /\ work[n].node \in Nodes
  BY TopOld, Entries
<1>3. Joins(work[n].node, Top.node)
  <2>1. CASE n = Len(work)
    BY <1>2, <2>1 DEF Joins
  <2>2. CASE n # Len(work)
    <3>1. n < Len(work)
      BY <1>2, <2>2, Entries
    <3>2. QED
      BY <1>2, <3>1 DEF WorkIsPath, Joins
  <2>3. QED
    BY <2>1, <2>2
<1>4. QED
  BY <1>1, <1>2, <1>3, JoinsTransitive

\* When nothing is left to look at, all callees of the node at work were visited.
LEMMA NothingLeft ==
    ASSUME IInv, work # <<>>, idx[Top.node] # -1, Top.left = {}
    PROVE  /\ Seen(Top.node) = calls[Top.node]
           /\ \A u \in Nodes : idx[u] # -1 => \A w \in Seen(u) : idx[w] # -1
           /\ \A u \in Nodes : u < start => idx[u] # -1
<1> USE DEF IInv
<1>1. \A n \in DOMAIN work : work[n].node = Top.node => work[n].left = {}
  BY TopOld
<1>2. QED
  BY <1>1 DEF Seen, SeenVisited, StartPassed

\* The nodes younger than a root, and the closed ones, call none but each other.
LEMMA RootStays ==
    ASSUME IInv, work # <<>>, idx[Top.node] # -1, Top.left = {},
           low[Top.node] = idx[Top.node]
    PROVE  \A u \in Young(Top.node) \cup Closed : calls[u] \subseteq Young(Top.node) \cup Closed
<1> DEFINE v == Top.node
           k == Len(work)
<1> USE DEF IInv
<1>1. k \in DOMAIN work /\ work[k] = Top /\ v \in Nodes /\ Gray = DOMAIN work
  BY TopOld
<1>2. k + 1 \notin DOMAIN work
  BY <1>1, Entries
<1>3. ASSUME NEW u \in Young(v), NEW w \in calls[u] PROVE w \in Young(v) \cup Closed
  <2>1. u \in Nodes /\ onStack[u] /\ idx[v] =< idx[u] /\ idx[u] # -1
    BY DEF Young, StackInOrder
  <2>2. w \in Nodes
    BY <2>1, Entries
  <2>3. w \in Seen(u)
    <3>1. CASE u = v
      BY <3>1, NothingLeft
    <3>2. CASE u # v
      <4>1. \A n \in DOMAIN work : work[n].node # u
        <5>1. SUFFICES ASSUME NEW n \in DOMAIN work, work[n].node = u PROVE FALSE
          OBVIOUS
        <5>2. idx[u] =< idx[v]
          BY <5>1, TopOld
        <5>3. idx[u] = idx[v]
          BY <5>2, <2>1, <1>1, Entries
        <5>4. QED
          BY <5>3, <2>1, <1>1, <3>2 DEF IndicesInTurn
      <4>2. QED
        BY <4>1 DEF Seen
    <3>3. QED
      BY <3>1, <3>2
  <2>4. idx[w] # -1
    BY <2>1, <2>3, NothingLeft
  <2>5. onStack[w] => low[v] =< idx[w]
    BY <1>1, <1>2, <2>1, <2>3 DEF LowLeast
  <2>6. QED
    BY <2>2, <2>4, <2>5 DEF Young, Closed
<1>4. QED
  BY <1>3 DEF ClosedStays

\* The nodes younger than a root are its component.
LEMMA RootComponent ==
    ASSUME IInv, work # <<>>, idx[Top.node] # -1, Top.left = {},
           low[Top.node] = idx[Top.node]
    PROVE  /\ \A u \in Young(Top.node) : Joins(u, Top.node) /\ Joins(Top.node, u)
           /\ \A u \in Nodes : (u \in Reach[Top.node] /\ Top.node \in Reach[u])
                               => u \in Young(Top.node)
<1> DEFINE v == Top.node
<1> USE DEF IInv
<1>1. /\ Len(work) \in Gray /\ work[Len(work)].node = v /\ v \in Nodes /\ onStack[v]
      /\ idx[v] \in Int
  BY TopOld, Entries
<1>2. ASSUME NEW u \in Young(v) PROVE Joins(u, v) /\ Joins(v, u)
  <2>1. u \in Nodes /\ onStack[u] /\ idx[v] =< idx[u]
    BY DEF Young
  <2>2. QED
    BY <1>1, <2>1, OpenReachesTop DEF GrayReaches
<1>3. ASSUME NEW u \in Nodes, u \in Reach[v], v \in Reach[u] PROVE u \in Young(v)
  <2>1. v \in Young(v)
    BY <1>1 DEF Young
  <2>2. Young(v) \cup Closed \in SUBSET Nodes /\ Closed \in SUBSET Nodes
    BY DEF Young, Closed
  <2>3. u \in Young(v) \cup Closed
    <3> DEFINE S == Young(v) \cup Closed
    <3>1. S \in SUBSET Nodes /\ v \in S /\ \A w \in S : calls[w] \subseteq S
      BY <2>1, <2>2, RootStays
    <3>2. QED
      BY <1>3, <3>1, ReachStays
  <2>4. u \notin Closed
    <3>1. SUFFICES ASSUME u \in Closed PROVE v \in Closed
      BY <1>1 DEF Closed
    <3>2. QED
      BY <1>1, <1>3, <2>2, <3>1, ReachStays DEF ClosedStays
  <2>5. QED
    BY <2>3, <2>4
<1>4. QED
  BY <1>2, <1>3

\* Its size and the call of itself tell whether a component is a cycle.
LEMMA RootCyclic ==
    ASSUME IInv, work # <<>>, idx[Top.node] # -1, Top.left = {},
           low[Top.node] = idx[Top.node]
    PROVE  \A u \in Young(Top.node) : u \in Reach[u] <=> Cyclic(Young(Top.node), Top.node)
<1> DEFINE v == Top.node
           C == Young(v)
<1> USE DEF IInv
<1>1. v \in Nodes /\ v \in C /\ C \subseteq Nodes /\ calls[v] \subseteq Nodes
  <2>1. v \in Nodes /\ onStack[v]
    BY TopOld
  <2>2. QED
    BY <2>1, Entries DEF Young
<1>2. IsFiniteSet(C) /\ Cardinality(C) \in Nat /\ Cardinality(C) # 0
  <2>1. IsFiniteSet(Nodes)
    BY FunctionCountAssumption, FS_Interval DEF Nodes
  <2>2. IsFiniteSet(C)
    BY <1>1, <2>1, FS_Subset
  <2>3. QED
    BY <1>1, <2>2, FS_CardinalityType, FS_EmptySet
<1>3. \A u \in C : Joins(u, v) /\ Joins(v, u)
  BY RootComponent
<1>4. CASE C = {v}
  <2>1. Cardinality(C) = 1
    BY <1>4, FS_Singleton
  <2>2. v \in Reach[v] => v \in calls[v]
    <3>1. SUFFICES ASSUME v \in Reach[v] PROVE v \in calls[v]
      OBVIOUS
    <3>2. PICK w \in calls[v] : Joins(w, v)
      BY <1>1, <3>1, ReachFirst
    <3>3. w \in Reach[v] /\ w \in Nodes
      BY <1>1, ReachEdge
    <3>4. w = v \/ w \in C
      BY <3>2, <3>3, RootComponent DEF Joins
    <3>5. QED
      BY <1>4, <3>2, <3>4
  <2>3. v \in calls[v] => v \in Reach[v]
    BY <1>1, ReachEdge
  <2>4. QED
    BY <1>4, <2>1, <2>2, <2>3 DEF Cyclic
<1>5. CASE C # {v}
  <2>1. Cardinality(C) > 1
    <3>1. Cardinality(C) # 1
      BY <1>1, <1>2, <1>5, FS_Singleton
    <3>2. QED
      BY <1>2, <3>1
  <2>2. PICK x \in C : x # v
    BY <1>1, <1>5
  <2>3. x \in Reach[v] /\ v \in Reach[x] /\ x \in Nodes
    BY <1>1, <1>3, <2>2 DEF Joins
  <2>4. v \in Reach[v]
    BY <1>1, <2>3, ReachTransitive
  <2>5. ASSUME NEW u \in C PROVE u \in Reach[u]
    <3>1. CASE u = v
      BY <2>4, <3>1
    <3>2. CASE u # v
      BY <1>1, <1>3, <3>2, ReachTransitive DEF Joins
    <3>3. QED
      BY <3>1, <3>2
  <2>6. QED
    BY <2>1, <2>5 DEF Cyclic
<1>6. QED
  BY <1>4, <1>5

\* The places but the last.
LEMMA Places ==
    \A k \in Nat : /\ \A n \in 1 .. k - 1 : n \in 1 .. k /\ n # k /\ (n + 1 = k <=> n = k - 1)
                   /\ \A n \in 1 .. k : n = k \/ n \in 1 .. k - 1
OBVIOUS

\* The node at work may leave: what the step makes of the work list and of low.
LEMMA CloseEffect ==
    ASSUME IInv, Close
    PROVE  /\ work # <<>> /\ idx[Top.node] # -1 /\ Top.left = {}
           /\ work' \in Seq([node : Nodes, left : SUBSET Nodes])
           /\ Len(work') = Len(work) - 1
           /\ \A n \in DOMAIN work' : n \in DOMAIN work /\ n # Len(work) /\ work'[n] = work[n]
           /\ \A n \in DOMAIN work : n = Len(work) \/ n \in DOMAIN work'
           /\ low' \in [Nodes -> Int]
           /\ \A n \in DOMAIN work' : n + 1 # Len(work) => low'[work[n].node] = low[work[n].node]
           /\ \A n \in DOMAIN work' : n + 1 = Len(work) =>
                 low'[work[n].node] = Least(low[work[n].node], low[Top.node])
<1> DEFINE k == Len(work)
<1>0. TypeOK /\ WorkIsPath
  BY DEF IInv
<1>1. work # <<>> /\ idx[Top.node] # -1 /\ Top.left = {} /\ WorkDone(Top.node)
  BY DEF Close
<1>2. /\ k \in DOMAIN work /\ work[k] = Top /\ Top.node \in Nodes
      /\ \A n \in DOMAIN work : n # k => work[n].node # Top.node
  BY <1>1, TopOld
<1>3. k \in Nat /\ k # 0 /\ DOMAIN work = 1 .. k /\ k - 1 \in 0 .. k /\ k = Len(work)
  BY <1>0, <1>2, Entries
<1> HIDE DEF k
<1>4. /\ work' \in Seq([node : Nodes, left : SUBSET Nodes]) /\ Len(work') = k - 1
      /\ \A n \in 1 .. k - 1 : work'[n] = work[n]
  <2>1. work' = SubSeq(work, 1, k - 1) /\ work \in Seq([node : Nodes, left : SUBSET Nodes])
    BY <1>0, <1>1, <1>3 DEF WorkDone, TypeOK
  <2>2. k - 1 \in 0 .. Len(work)
    BY <1>3
  <2> DEFINE E == [node : Nodes, left : SUBSET Nodes]
  <2>3. \A s \in Seq(E) : \A j \in 0 .. Len(s) :
            /\ SubSeq(s, 1, j) \in Seq(E) /\ Len(SubSeq(s, 1, j)) = j
            /\ \A n \in 1 .. j : SubSeq(s, 1, j)[n] = s[n]
    BY SequenceOver
  <2>4. work \in Seq(E)
    BY <2>1
  <2> HIDE DEF E
  <2>5. /\ SubSeq(work, 1, k - 1) \in Seq(E) /\ Len(SubSeq(work, 1, k - 1)) = k - 1
        /\ \A n \in 1 .. k - 1 : SubSeq(work, 1, k - 1)[n] = work[n]
    BY <2>2, <2>3, <2>4
  <2>6. QED
    BY <2>1, <2>5 DEF E
<1>5. DOMAIN work' = 1 .. k - 1
  BY <1>4, SequenceOver
<1>6. \A m, n \in DOMAIN work : (m # n) => work[m].node # work[n].node
  <2>1. SUFFICES ASSUME NEW m \in DOMAIN work, NEW n \in DOMAIN work, m < n
                 PROVE  work[m].node # work[n].node
    BY <1>3
  <2>2. m \in Gray /\ n \in Gray
    BY <1>1, <2>1, TopOld
  <2>3. QED
    BY <1>0, <2>1, <2>2, Entries DEF WorkIsPath
<1>7. /\ low' \in [Nodes -> Int]
      /\ \A n \in 1 .. k - 1 : n + 1 # k => low'[work[n].node] = low[work[n].node]
      /\ \A n \in 1 .. k - 1 : n + 1 = k =>
            low'[work[n].node] = Least(low[work[n].node], low[Top.node])
  <2>1. CASE k = 1
    BY <1>0, <1>1, <1>3, <2>1 DEF WorkDone, TypeOK
  <2>2. CASE k # 1
    <3> DEFINE p == work[k - 1].node
    <3>0. k - 1 \in DOMAIN work
      BY <1>3, <2>2
    <3>1. k - 1 \in DOMAIN work /\ p \in Nodes /\ low[p] \in Int /\ low[Top.node] \in Int
      BY <1>2, <1>0, <3>0, Entries
    <3>2. low' = [low EXCEPT ![p] = Least(low[p], low[Top.node])]
      BY <1>1, <1>3, <2>2 DEF WorkDone
    <3>3. \A n \in 1 .. k - 1 : n + 1 # k => work[n].node # p
      <4>1. \A n \in 1 .. k - 1 : n + 1 # k => (n \in 1 .. k /\ n # k - 1)
        BY <1>3, Places
      <4>2. QED
        BY <1>3, <1>6, <3>0, <4>1
    <3>4. \A n \in 1 .. k - 1 : work[n].node \in Nodes
      BY <1>0, <1>3, Entries
    <3>5. Least(low[p], low[Top.node]) \in Int
      BY <3>1 DEF Least
    <3>6. \A n \in 1 .. k - 1 : n + 1 = k => n = k - 1
      BY <1>3, Places
    <3> HIDE DEF p
    <3>7. low' \in [Nodes -> Int] /\ low'[p] = Least(low[p], low[Top.node])
      BY <3>1, <3>2, <3>5, <1>0 DEF TypeOK
    <3>8. \A n \in 1 .. k - 1 : n + 1 # k => low'[work[n].node] = low[work[n].node]
      BY <3>2, <3>3, <3>4, <1>0 DEF TypeOK
    <3>9. QED
      BY <3>6, <3>7, <3>8 DEF p
  <2>3. QED
    BY <2>1, <2>2
<1>8. /\ \A n \in DOMAIN work' : n \in DOMAIN work /\ n # Len(work) /\ work'[n] = work[n]
      /\ \A n \in DOMAIN work : n = Len(work) \/ n \in DOMAIN work'
  <2>1. \A n \in 1 .. k - 1 : n \in 1 .. k /\ n # k
    BY <1>3, Places
  <2>2. \A n \in 1 .. k : n = k \/ n \in 1 .. k - 1
    BY <1>3, Places
  <2>3. QED
    BY <1>3, <1>4, <1>5, <2>1, <2>2
<1>9. QED
  BY <1>1, <1>3, <1>4, <1>5, <1>7, <1>8

\* ... and of the stack, which a root leaves with all that is younger.
LEMMA CloseStack ==
    ASSUME IInv, Close
    PROVE  /\ stack' \in Seq(Nodes) /\ onStack' \in [Nodes -> BOOLEAN]
           /\ inCycle' \in SUBSET Nodes
           /\ StackInOrder'
           /\ low[Top.node] # idx[Top.node] =>
                 onStack' = onStack /\ inCycle' = inCycle
           /\ low[Top.node] = idx[Top.node] =>
                 /\ \A u \in Nodes : onStack'[u] <=> (onStack[u] /\ idx[u] < idx[Top.node])
                 /\ inCycle' = IF Cyclic(Young(Top.node), Top.node)
                               THEN inCycle \cup Young(Top.node) ELSE inCycle
<1> DEFINE v == Top.node
           i == IndexOf(v)
<1> USE DEF IInv
<1>1. work # <<>> /\ idx[v] # -1 /\ idx' = idx
  BY DEF Close
<1>2. v \in Nodes /\ onStack[v]
  BY <1>1, TopOld
<1>3. CASE low[v] # idx[v]
  <2>1. stack' = stack /\ onStack' = onStack /\ inCycle' = inCycle
    BY <1>3 DEF Close
  <2>2. QED
    BY <1>1, <1>3, <2>1 DEF TypeOK, StackInOrder
<1>4. CASE low[v] = idx[v]
  <2>1. /\ i \in DOMAIN stack /\ stack[i] = v
        /\ Young(v) = {stack[n] : n \in i .. Len(stack)}
        /\ \A n \in DOMAIN stack : n < i <=> idx[stack[n]] < idx[v]
    BY <1>2, YoungOnTop
  <2>2. /\ stack' = SubSeq(stack, 1, i - 1)
        /\ onStack' = [u \in Nodes |-> onStack[u] /\ u \notin Young(v)]
        /\ inCycle' = IF Cyclic(Young(v), v) THEN inCycle \cup Young(v) ELSE inCycle
    BY <1>4, <2>1 DEF Close
  <2> HIDE DEF i
  <2>3. DOMAIN stack = 1 .. Len(stack) /\ Len(stack) \in Nat /\ i - 1 \in 0 .. Len(stack)
    BY <2>1, Entries
  <2>4. /\ stack' \in Seq(Nodes) /\ Len(stack') = i - 1
        /\ \A n \in 1 .. i - 1 : stack'[n] = stack[n]
    BY <2>2, <2>3, SequenceOver DEF TypeOK
  <2>5. DOMAIN stack' = 1 .. i - 1 /\ DOMAIN stack' \subseteq DOMAIN stack
    BY <2>3, <2>4, SequenceOver
  <2>6. \A u \in Nodes : onStack'[u] <=> (onStack[u] /\ idx[u] < idx[v])
    <3>1. \A u \in Nodes : u \notin Young(v) <=> (onStack[u] => idx[u] < idx[v])
      BY <1>2, Entries DEF Young
    <3>2. \A u \in Nodes : onStack'[u] = (onStack[u] /\ u \notin Young(v))
      BY <2>2
    <3>3. QED
      BY <3>1, <3>2
  <2>7. \A u \in Nodes : onStack'[u] <=> \E n \in DOMAIN stack' : stack'[n] = u
    <3>1. ASSUME NEW u \in Nodes, onStack'[u] PROVE \E n \in DOMAIN stack' : stack'[n] = u
      <4>1. PICK n \in DOMAIN stack : stack[n] = u
        BY <2>6, <3>1 DEF StackInOrder
      <4>2. n \in 1 .. i - 1
        BY <2>1, <2>3, <2>6, <3>1, <4>1
      <4>3. QED
        BY <2>4, <2>5, <4>1, <4>2
    <3>2. ASSUME NEW n \in DOMAIN stack' PROVE stack'[n] \in Nodes /\ onStack'[stack'[n]]
      <4>1. n \in DOMAIN stack /\ n < i /\ stack'[n] = stack[n]
        BY <2>3, <2>4, <2>5, <2>1
      <4>2. stack[n] \in Nodes /\ onStack[stack[n]]
        BY <4>1, Entries DEF StackInOrder
      <4>3. QED
        BY <2>1, <2>6, <4>1, <4>2
    <3>3. QED
      BY <3>1, <3>2
  <2>8. \A m, n \in DOMAIN stack' : m < n => idx'[stack'[m]] < idx'[stack'[n]]
    BY <1>1, <2>4, <2>5 DEF StackInOrder
  <2>9. StackInOrder'
    BY <1>1, <2>6, <2>7, <2>8 DEF StackInOrder
  <2>10. Young(v) \subseteq Nodes
    BY DEF Young
  <2>11. QED
    BY <1>4, <2>2, <2>4, <2>6, <2>9, <2>10 DEF TypeOK
<1>5. QED
  BY <1>3, <1>4

\* The node on top of the work list may be done with.
LEMMA CloseKeeps == IInv /\ Close => IInv'
<1> SUFFICES ASSUME IInv, Close PROVE IInv'
  OBVIOUS
<1> DEFINE v == Top.node
           k == Len(work)
           Root == low[v] = idx[v]
<1> USE DEF IInv
<1>1. /\ Reach' = Reach /\ calls' = calls /\ idx' = idx /\ index' = index /\ start' = start
  BY ReachSame DEF Close
<1>2. /\ work # <<>> /\ idx[v] # -1 /\ Top.left = {}
      /\ work' \in Seq([node : Nodes, left : SUBSET Nodes]) /\ Len(work') = k - 1
      /\ \A n \in DOMAIN work' : n \in DOMAIN work /\ n # k /\ work'[n] = work[n]
      /\ \A n \in DOMAIN work : n = k \/ n \in DOMAIN work'
      /\ low' \in [Nodes -> Int]
      /\ \A n \in DOMAIN work' : n + 1 # k => low'[work[n].node] = low[work[n].node]
      /\ \A n \in DOMAIN work' : n + 1 = k =>
            low'[work[n].node] = Least(low[work[n].node], low[v])
  BY CloseEffect
<1>3. /\ stack' \in Seq(Nodes) /\ onStack' \in [Nodes -> BOOLEAN]
      /\ inCycle' \in SUBSET Nodes /\ StackInOrder'
      /\ ~Root => onStack' = onStack /\ inCycle' = inCycle
      /\ Root => /\ \A u \in Nodes : onStack'[u] <=> (onStack[u] /\ idx[u] < idx[v])
                 /\ inCycle' = IF Cyclic(Young(v), v) THEN inCycle \cup Young(v) ELSE inCycle
  BY CloseStack
<1>4. /\ k \in DOMAIN work /\ work[k] = Top /\ v \in Nodes /\ onStack[v]
      /\ Gray = DOMAIN work
      /\ idx[v] \in Int /\ low[v] \in Int
  BY <1>2, TopOld, Entries
<1>5. \A n \in DOMAIN work' : /\ work[n].node \in Nodes /\ work[n].node # v
                              /\ idx[work[n].node] \in Int /\ low[work[n].node] \in Int
                              /\ idx[work[n].node] < idx[v] /\ onStack[work[n].node]
                              /\ idx[work[n].node] # -1
                              /\ v \in Reach[work[n].node]
                              /\ n < k
  <2>1. SUFFICES ASSUME NEW n \in DOMAIN work'
                 PROVE  /\ work[n].node # v /\ idx[work[n].node] < idx[v]
                        /\ onStack[work[n].node] /\ idx[work[n].node] # -1
                        /\ v \in Reach[work[n].node] /\ n < k
    BY <1>2, Entries
  <2>2. n < k /\ n \in DOMAIN work
    BY <1>2, <1>4, Entries
  <2>3. idx[work[n].node] < idx[v] /\ v \in Reach[work[n].node] /\ onStack[work[n].node]
    BY <1>4, <2>2 DEF WorkIsPath
  <2>4. QED
    BY <1>2, <1>4, <2>2, <2>3, TopOld DEF Gray
<1>51. \A n \in DOMAIN work' : work'[n].node = work[n].node
  BY <1>2
<1>6. Gray' = DOMAIN work'
  BY <1>1, <1>5, <1>51 DEF Gray
<1>7. \A u \in Nodes : onStack'[u] => onStack[u]
  BY <1>3
<1>8. \A u \in Nodes : Seen(u)' = Seen(u)
  <2>1. SUFFICES ASSUME NEW u \in Nodes, NEW x \in calls[u]
                 PROVE  (\A n \in DOMAIN work' : work'[n].node = u => x \notin work'[n].left)
                        <=> (\A n \in DOMAIN work : work[n].node = u => x \notin work[n].left)
    BY <1>1 DEF Seen
  <2>2. work[k].left = {}
    BY <1>2, <1>4
  <2>3. QED
    BY <1>2, <2>2
<1>9. TypeOK'
  BY <1>1, <1>2, <1>3 DEF TypeOK
<1>10. IndicesInTurn'
  BY <1>1 DEF IndicesInTurn
<1>11. WorkIsPath'
  <2>1. \A n \in DOMAIN work' : idx[work'[n].node] # -1 /\ onStack'[work'[n].node]
    BY <1>2, <1>3, <1>5
  <2>2. \A n \in DOMAIN work' : work'[n].left \subseteq calls[work'[n].node]
    BY <1>2 DEF WorkIsPath
  <2>3. \A m, n \in DOMAIN work' : m < n => /\ work'[n].node \in Reach[work'[m].node]
                                            /\ idx[work'[m].node] < idx[work'[n].node]
    BY <1>2, <1>4 DEF WorkIsPath
  <2>4. QED
    BY <1>1, <1>6, <2>1, <2>2, <2>3 DEF WorkIsPath
<1>12. StartPassed' /\ SeenVisited'
  BY <1>1, <1>2, <1>8, NothingLeft DEF StartPassed, SeenVisited
<1>13. Closed' = IF Root THEN Closed \cup Young(v) ELSE Closed
  <2>1. CASE ~Root
    BY <1>1, <1>3, <2>1 DEF Closed
  <2>2. CASE Root
    <3>1. \A u \in Nodes : idx[u] \in Int /\ (onStack[u] => idx[u] # -1)
      BY Entries DEF StackInOrder
    <3>2. \A u \in Nodes : ~onStack'[u] <=> (~onStack[u] \/ idx[v] =< idx[u])
      BY <1>3, <1>4, <2>2, <3>1
    <3>3. QED
      BY <1>1, <2>2, <3>1, <3>2 DEF Closed, Young
  <2>3. QED
    BY <2>1, <2>2
<1>14. ClosedStays'
  <2>1. CASE ~Root
    BY <1>1, <1>13, <2>1 DEF ClosedStays
  <2>2. CASE Root
    BY <1>1, <1>2, <1>13, <2>2, RootStays DEF ClosedStays
  <2>3. QED
    BY <2>1, <2>2
<1>15. AnswerSoFar'
  <2>1. CASE ~Root
    BY <1>1, <1>3, <1>13, <2>1 DEF AnswerSoFar
  <2>2. CASE Root
    <3>1. \A u \in Young(v) : u \in Reach[u] <=> Cyclic(Young(v), v)
      BY <1>2, <2>2, RootCyclic
    <3>2. inCycle' = inCycle \cup {u \in Young(v) : u \in Reach[u]}
      BY <1>3, <2>2, <3>1
    <3>3. QED
      BY <1>1, <1>13, <2>2, <3>2 DEF AnswerSoFar
  <2>3. QED
    BY <2>1, <2>2
<1>16. ~Root => \E u \in Nodes : /\ onStack[u] /\ idx[u] = low[v] /\ idx[u] < idx[v]
                                 /\ Joins(v, u)
  BY <1>4 DEF LowReached
<1>17. OpenReaches'
  <2>1. SUFFICES ASSUME NEW u \in Nodes, onStack'[u]
                 PROVE  \E n \in DOMAIN work' : /\ idx[work[n].node] =< idx[u]
                                                /\ Joins(u, work[n].node)
    BY <1>1, <1>51, <1>6 DEF OpenReaches, Joins
  <2>2. PICK n \in DOMAIN work : idx[work[n].node] =< idx[u] /\ Joins(u, work[n].node)
    BY <1>4, <1>7, <2>1 DEF OpenReaches
  <2>3. CASE n # k
    BY <1>2, <2>2, <2>3
  <2>4. CASE n = k
    <3>1. idx[v] =< idx[u] /\ Joins(u, v) /\ idx[u] \in Int
      BY <1>4, <2>2, <2>4, Entries
    <3>2. ~Root
      BY <1>3, <1>4, <2>1, <3>1
    <3>3. PICK y \in Nodes : onStack[y] /\ idx[y] < idx[v] /\ Joins(v, y)
      BY <1>16, <3>2
    <3>4. PICK m \in DOMAIN work : idx[work[m].node] =< idx[y] /\ Joins(y, work[m].node)
      BY <1>4, <3>3 DEF OpenReaches
    <3>5. /\ work[m].node \in Nodes /\ idx[work[m].node] \in Int /\ idx[y] \in Int
      BY Entries
    <3>6. m # k /\ idx[work[m].node] =< idx[u]
      BY <1>4, <3>1, <3>3, <3>4, <3>5
    <3>7. Joins(u, work[m].node)
      BY <1>4, <3>1, <3>3, <3>4, <3>5, JoinsTransitive
    <3>8. QED
      BY <1>2, <3>6, <3>7
  <2>5. QED
    BY <2>3, <2>4
<1>18. GrayReaches'
  BY <1>1, <1>2, <1>4, <1>6, <1>7 DEF GrayReaches, Joins
<1>19. \A n \in DOMAIN work' : low[work[n].node] =< idx[work[n].node] /\ low[v] =< idx[v]
  BY <1>2, <1>4 DEF LowReached
<1>20. \A n \in DOMAIN work' :
          /\ low'[work[n].node] =< low[work[n].node]
          /\ n + 1 = k => low'[work[n].node] =< low[v]
          /\ low'[work[n].node] = low[work[n].node] \/ (low'[work[n].node] = low[v] /\ ~Root)
  <2>1. SUFFICES ASSUME NEW n \in DOMAIN work'
                 PROVE  /\ low'[work[n].node] =< low[work[n].node]
                        /\ n + 1 = k => low'[work[n].node] =< low[v]
                        /\ \/ low'[work[n].node] = low[work[n].node]
                           \/ low'[work[n].node] = low[v] /\ ~Root
    OBVIOUS
  <2>2. CASE n + 1 # k
    BY <1>2, <1>5, <2>2
  <2>3. CASE n + 1 = k
    <3>1. low'[work[n].node] = Least(low[work[n].node], low[v])
      BY <1>2, <2>3
    <3>2. /\ low[work[n].node] \in Int /\ idx[work[n].node] \in Int
          /\ idx[work[n].node] < idx[v] /\ low[work[n].node] =< idx[work[n].node]
      BY <1>5, <1>19
    <3>3. Root => Least(low[work[n].node], low[v]) = low[work[n].node]
      BY <1>4, <3>2 DEF Least
    <3>4. QED
      BY <1>4, <3>1, <3>2, <3>3 DEF Least
  <2>4. QED
    BY <2>2, <2>3
<1>21. LowReached'
  <2>1. SUFFICES ASSUME NEW n \in DOMAIN work'
                 PROVE  /\ low'[work[n].node] =< idx[work[n].node]
                        /\ \E u \in Nodes : /\ onStack'[u] /\ idx[u] = low'[work[n].node]
                                            /\ Joins(work[n].node, u)
    BY <1>1, <1>51, <1>6 DEF LowReached, Joins
  <2>2. /\ low'[work[n].node] \in Int /\ low[work[n].node] \in Int
        /\ low'[work[n].node] =< low[work[n].node]
        /\ low[work[n].node] =< idx[work[n].node]
        /\ idx[work[n].node] \in Int /\ idx[work[n].node] < idx[v]
    BY <1>2, <1>5, <1>19, <1>20
  <2>3. low'[work[n].node] =< idx[work[n].node]
    BY <2>2
  <2>4. CASE low'[work[n].node] = low[work[n].node]
    <3>1. PICK u \in Nodes : onStack[u] /\ idx[u] = low[work[n].node] /\ Joins(work[n].node, u)
      BY <1>2, <1>4 DEF LowReached
    <3>2. idx[u] < idx[v]
      BY <1>4, <2>2, <3>1
    <3>3. onStack'[u]
      BY <1>3, <3>1, <3>2
    <3>4. QED
      BY <2>3, <2>4, <3>1, <3>3
  <2>5. CASE low'[work[n].node] = low[v] /\ ~Root
    <3>1. PICK u \in Nodes : onStack[u] /\ idx[u] = low[v] /\ Joins(v, u)
      BY <1>16, <2>5
    <3>2. Joins(work[n].node, u)
      BY <1>4, <1>5, <3>1, JoinsTransitive DEF Joins
    <3>3. QED
      BY <1>3, <2>3, <2>5, <3>1, <3>2
  <2>6. QED
    BY <1>20, <2>4, <2>5
<1>22. LowLeast'
  <2>1. SUFFICES ASSUME NEW n \in DOMAIN work', NEW u \in Nodes, onStack'[u],
                        idx[work[n].node] =< idx[u],
                        n + 1 \in DOMAIN work' => idx[u] < idx[work[n + 1].node],
                        NEW w \in Seen(u), onStack'[w]
                 PROVE  low'[work[n].node] =< idx[w]
    BY <1>1, <1>51, <1>6, <1>8 DEF LowLeast
  <2>2. /\ w \in Nodes /\ idx[w] \in Int /\ idx[u] \in Int /\ onStack[u] /\ onStack[w]
        /\ low'[work[n].node] \in Int /\ low[work[n].node] \in Int
    <3>1. w \in Nodes
      BY Entries DEF Seen
    <3>2. QED
      BY <1>2, <1>5, <1>7, <2>1, <3>1, Entries
  <2>3. n \in DOMAIN work
    BY <1>2
  <2>4. CASE n + 1 \in DOMAIN work => idx[u] < idx[work[n + 1].node]
    <3>1. low[work[n].node] =< idx[w]
      BY <1>4, <2>1, <2>2, <2>3, <2>4 DEF LowLeast
    <3>2. QED
      BY <1>20, <2>2, <3>1
  <2>5. CASE n + 1 \in DOMAIN work /\ ~(idx[u] < idx[work[n + 1].node])
    <3>1. n + 1 = k
      BY <1>2, <2>1, <2>5
    <3>2. idx[v] =< idx[u]
      BY <1>4, <2>2, <2>5, <3>1
    <3>3. k + 1 \notin DOMAIN work
      BY Entries
    <3>4. low[v] =< idx[w]
      BY <1>4, <2>1, <2>2, <3>2, <3>3 DEF LowLeast
    <3>5. QED
      BY <1>4, <1>20, <2>2, <3>1, <3>4
  <2>6. QED
    BY <2>4, <2>5
<1>23. QED
  BY <1>3, <1>9, <1>10, <1>11, <1>12, <1>14, <1>15, <1>17, <1>18, <1>21, <1>22

\* Every step keeps the invariant.
LEMMA NextKeeps == IInv /\ [Next]_vars => IInv'
<1> SUFFICES ASSUME IInv, [Next]_vars PROVE IInv'
  OBVIOUS
<1>1. CASE Begin
  BY <1>1, BeginKeeps
<1>2. CASE Discover
  BY <1>2, DiscoverKeeps
<1>3. CASE Look
  BY <1>3, LookKeeps
<1>4. CASE Close
  BY <1>4, CloseKeeps
<1>5. CASE UNCHANGED vars
  <2> USE <1>5 DEF vars
  <2>1. Reach' = Reach /\ Gray' = Gray /\ Closed' = Closed
    BY ReachSame DEF Gray, Closed
  <2>2. TypeOK' /\ IndicesInTurn' /\ StackInOrder'
    BY DEF IInv, TypeOK, IndicesInTurn, StackInOrder
  <2>3. WorkIsPath' /\ StartPassed' /\ SeenVisited' /\ ClosedStays'
    BY <2>1 DEF IInv, WorkIsPath, StartPassed, SeenVisited, Seen, Top, ClosedStays
  <2>4. OpenReaches' /\ GrayReaches'
    BY <2>1 DEF IInv, OpenReaches, GrayReaches, Joins
  <2>5. LowReached'
    BY <2>1 DEF IInv, LowReached, Joins
  <2>6. LowLeast'
    BY <2>1 DEF IInv, LowLeast, Seen
  <2>7. AnswerSoFar'
    BY <2>1 DEF IInv, AnswerSoFar
  <2>8. QED
    BY <2>2, <2>3, <2>4, <2>5, <2>6, <2>7 DEF IInv
<1>6. QED
  BY <1>1, <1>2, <1>3, <1>4, <1>5 DEF Next, Returned

\* The invariant holds in every state of the search, for any number of functions.
THEOREM Invariant == Spec => []IInv
<1>1. Init => IInv
  BY InitKeeps
<1>2. IInv /\ [Next]_vars => IInv'
  BY NextKeeps
<1>3. QED
  BY <1>1, <1>2, PTL DEF Spec

-----------------------------------------------------------------------------
(* The results. *)

\* Between two steps the stack is the open nodes, oldest first, and all of them reach
\* the node at work.
THEOREM StackStaysOpen == Spec => []StackOpen
<1>1. IInv => StackOpen
  <2> SUFFICES ASSUME IInv PROVE StackOpen
    OBVIOUS
  <2>1. ASSUME work # <<>>, idx[Top.node] # -1, NEW n \in DOMAIN stack
        PROVE  stack[n] = Top.node \/ Top.node \in Search!Reach[stack[n]]
    <3>1. stack[n] \in Nodes /\ onStack[stack[n]]
      BY Entries DEF IInv, StackInOrder
    <3>2. QED
      BY <2>1, <3>1, OpenReachesTop DEF Joins, Reach
  <2>2. QED
    BY <2>1 DEF IInv, StackInOrder, StackOpen
<1>2. QED
  BY <1>1, Invariant, PTL

\* When the search is over, all nodes are closed: the answer is complete.
LEMMA DoneComplete == IInv /\ Done => inCycle = Search!Recursive
<1> SUFFICES ASSUME IInv, Done PROVE inCycle = Search!Recursive
  OBVIOUS
<1> USE DEF IInv, Done
<1>1. \A u \in Nodes : u < start
  BY FunctionCountAssumption DEF Nodes
<1>2. Closed = Nodes
  BY <1>1, NothingOpen DEF StartPassed, Closed
<1>3. QED
  BY <1>2 DEF AnswerSoFar, Search!Recursive, Reach

\* So it is when the next step ends the search.
LEMMA DoneCompleteNext == (IInv /\ Done => inCycle = Search!Recursive)'
BY DoneComplete, PTL

\* A step finds one component, or none.
LEMMA StepFinds ==
    ASSUME IInv, IInv', [Next]_vars
    PROVE  [Search!Next]_(Search!vars)
<1> USE DEF IInv
<1>1. CASE UNCHANGED vars
  BY <1>1 DEF vars, Search!vars, Done
<1>2. ASSUME Next, inCycle' = inCycle, calls' = calls
      PROVE  [Search!Next]_(Search!vars)
  <2>1. CASE ~Done'
    <3>1. ASSUME Done PROVE FALSE
      <4>1. CASE Returned
        BY <2>1, <3>1, <4>1 DEF Returned, vars, Done
      <4>2. CASE Begin
        BY FunctionCountAssumption, <3>1, <4>2 DEF Begin, Done
      <4>3. CASE Discover \/ Look \/ Close
        BY <3>1, <4>3 DEF Discover, Look, Close, Done
      <4>4. QED
        BY <1>2, <4>1, <4>2, <4>3 DEF Next
    <3>2. Done = FALSE /\ Done' = FALSE
      BY <2>1, <3>1 DEF Done
    <3>3. QED
      BY <1>2, <3>2 DEF Search!vars
  <2>2. CASE Done'
    <3>1. inCycle' = Search!Recursive'
      BY <2>2, DoneCompleteNext
    <3>2. Search!Recursive' = Search!Recursive
      BY <1>2, ReachSame DEF Search!Recursive, Reach
    <3>3. Search!Answer
      BY <1>2, <2>2, <3>1, <3>2 DEF Search!Answer
    <3>4. QED
      BY <3>3 DEF Search!Next
  <2>3. QED
    BY <2>1, <2>2
<1>3. CASE Begin \/ Discover \/ Look
  BY <1>2, <1>3 DEF Begin, Discover, Look, Next
<1>4. CASE Close
  <2>1. CASE inCycle' = inCycle
    BY <1>2, <1>4, <2>1 DEF Close, Next
  <2>2. CASE inCycle' # inCycle
    <3> DEFINE v == Top.node
    <3>1. /\ work # <<>> /\ idx[v] # -1 /\ Top.left = {} /\ calls' = calls
          /\ low[v] = idx[v] /\ inCycle' = inCycle \cup Young(v) /\ Cyclic(Young(v), v)
      BY <1>4, <2>2, CloseEffect, CloseStack DEF Close
    <3>2. v \in Nodes /\ onStack[v] /\ v \in Young(v)
      BY <3>1, TopOld, Entries DEF Young
    <3>3. v \in Reach[v]
      BY <3>1, <3>2, RootCyclic
    <3>4. Young(v) = Search!Component(v)
      <4>1. ASSUME NEW u \in Young(v) PROVE u \in Nodes /\ u \in Reach[v] /\ v \in Reach[u]
        BY <3>1, <3>3, RootComponent DEF Joins, Young
      <4>2. ASSUME NEW u \in Nodes, u \in Reach[v], v \in Reach[u] PROVE u \in Young(v)
        BY <3>1, <4>2, RootComponent
      <4>3. QED
        BY <4>1, <4>2 DEF Search!Component, Reach
    <3>5. v \in Search!Recursive \ inCycle
      BY <3>2, <3>3 DEF Search!Recursive, Reach, AnswerSoFar, Closed
    <3>6. ~Done
      BY <3>1 DEF Done
    <3>7. Done' => inCycle' = Search!Recursive
      <4>1. Search!Recursive' = Search!Recursive
        BY <3>1, ReachSame DEF Search!Recursive, Reach
      <4>2. QED
        BY <4>1, DoneCompleteNext
    <3>8. Search!Find(v)
      BY <3>1, <3>4, <3>6, <3>7 DEF Search!Find, Done
    <3>9. QED
      BY <3>5, <3>8 DEF Search!Next
  <2>3. QED
    BY <2>1, <2>2
<1>5. QED
  BY <1>1, <1>3, <1>4 DEF Next, Returned

\* findRecursive answers what CycleSearch promises: it finds whole components that are
\* cycles, one at a time, and says it is done when it has all of them.
THEOREM SearchFindsCycles == Spec => FindsCycles
<1>1. Init => Search!Init
  BY FunctionCountAssumption DEF Init, Search!Init, Done
<1>2. IInv /\ IInv' /\ [Next]_vars => [Search!Next]_(Search!vars)
  BY StepFinds
<1>3. QED
  BY <1>1, <1>2, Invariant, PTL DEF Spec, FindsCycles, Search!Spec

=============================================================================
