------------------------------ MODULE CallGraph ------------------------------
(***************************************************************************)
(* findRecursive of src/ir/optim.cpp: Tarjan's search for strongly         *)
(* connected components, with its recursion unrolled into a work list.     *)
(* One step is one turn of the inner loop.                                 *)
(*                                                                         *)
(* The function takes any call graph, and so does this module; the         *)
(* programs semantic analysis accepts today call earlier functions and     *)
(* themselves only.                                                        *)
(***************************************************************************)
EXTENDS Integers, Sequences, FiniteSets

CONSTANT FunctionCount

ASSUME FunctionCountAssumption == FunctionCount \in Nat \ {0}

Nodes == 0 .. FunctionCount - 1

VARIABLES
    calls,      \* adj
    idx, low,   \* -1 is unvisited
    onStack, stack,
    index,
    work,       \* [node, left]: left is the part of adj[node] not looked at yet
    start,      \* the outer loop's s
    inCycle

vars == <<calls, idx, low, onStack, stack, index, work, start, inCycle>>

Least(a, b) == IF a < b THEN a ELSE b
Top == work[Len(work)]
Visit(u) == [node |-> u, left |-> calls[u]]
IndexOf(u) == CHOOSE n \in DOMAIN stack : stack[n] = u

Init ==
    /\ calls \in [Nodes -> SUBSET Nodes]
    /\ idx = [u \in Nodes |-> -1] /\ low = [u \in Nodes |-> 0]
    /\ onStack = [u \in Nodes |-> FALSE] /\ stack = <<>> /\ index = 0
    /\ work = <<>> /\ start = 0 /\ inCycle = {}

\* the next node of the outer loop, if it was not visited from another
Begin ==
    /\ work = <<>> /\ start < FunctionCount
    /\ start' = start + 1
    /\ work' = IF idx[start] = -1 THEN <<Visit(start)>> ELSE <<>>
    /\ UNCHANGED <<calls, idx, low, onStack, stack, index, inCycle>>

\* the first time a node is on top of the work list
Discover ==
    /\ work # <<>> /\ idx[Top.node] = -1
    /\ idx' = [idx EXCEPT ![Top.node] = index]
    /\ low' = [low EXCEPT ![Top.node] = index]
    /\ index' = index + 1
    /\ stack' = Append(stack, Top.node)
    /\ onStack' = [onStack EXCEPT ![Top.node] = TRUE]
    /\ UNCHANGED <<calls, work, start, inCycle>>

\* mutant: an index counts though its component has been closed
LowOfClosed(v, w) == [low EXCEPT ![v] = Least(@, idx[w])]

\* low[v] after a look at the visited neighbour w
LowAfter(v, w) == IF onStack[w] THEN [low EXCEPT ![v] = Least(@, idx[w])] ELSE low

\* mutant: the place in the list of neighbours is kept
LookedKeeps(w) == work

\* the neighbour w of the top node is taken
Looked(w) == [work EXCEPT ![Len(work)].left = @ \ {w}]

\* one neighbour, in whatever order the set of callees was listed
Look ==
    /\ work # <<>> /\ idx[Top.node] # -1
    /\ \E w \in Top.left :
        /\ work' = IF idx[w] = -1 THEN Append(Looked(w), Visit(w)) ELSE Looked(w)
        /\ low' = IF idx[w] = -1 THEN low ELSE LowAfter(Top.node, w)
    /\ UNCHANGED <<calls, idx, onStack, stack, index, start, inCycle>>

\* a component is a cycle if it has two functions or one that calls itself
Cyclic(comp, v) == Cardinality(comp) > 1 \/ v \in calls[v]

\* mutant: the caller does not learn what its callee reached
WorkDoneForgets(v) ==
    /\ work' = SubSeq(work, 1, Len(work) - 1)
    /\ low' = low

\* the node leaves the work list and its caller inherits its low
WorkDone(v) ==
    /\ work' = SubSeq(work, 1, Len(work) - 1)
    /\ low' = IF Len(work) = 1 THEN low
              ELSE [low EXCEPT ![work[Len(work) - 1].node] = Least(@, low[v])]

\* no neighbour is left; a root pops its component off the stack
Close ==
    /\ work # <<>> /\ idx[Top.node] # -1 /\ Top.left = {}
    /\ LET v    == Top.node
           comp == {stack[n] : n \in IndexOf(v) .. Len(stack)}
       IN  /\ IF low[v] = idx[v]
              THEN /\ stack' = SubSeq(stack, 1, IndexOf(v) - 1)
                   /\ onStack' = [u \in Nodes |-> onStack[u] /\ u \notin comp]
                   /\ inCycle' = IF Cyclic(comp, v) THEN inCycle \cup comp ELSE inCycle
              ELSE UNCHANGED <<stack, onStack, inCycle>>
           /\ WorkDone(v)
    /\ UNCHANGED <<calls, idx, index, start>>

Done == work = <<>> /\ start = FunctionCount
Returned == Done /\ UNCHANGED vars

Next == Begin \/ Discover \/ Look \/ Close \/ Returned
Spec == Init /\ [][Next]_vars
FairSpec == Spec /\ WF_vars(Next)

-----------------------------------------------------------------------------
(* Properties. *)

Search == INSTANCE CycleSearch WITH done <- Done

\* Between two steps the stack holds exactly the visited nodes whose component is
\* open, oldest first, and every one of them still reaches the node at work: that is
\* why low may look at the stack only.
StackOpen ==
    /\ \A u \in Nodes : onStack[u] <=> \E n \in DOMAIN stack : stack[n] = u
    /\ \A m, n \in DOMAIN stack : m < n => idx[stack[m]] < idx[stack[n]]
    /\ (work # <<>> /\ idx[Top.node] # -1) =>
          \A n \in DOMAIN stack :
              stack[n] = Top.node \/ Top.node \in Search!Reach[stack[n]]

\* findRecursive answers what CycleSearch promises, component by component.
FindsCycles == Search!Spec

\* It does answer: as long as something is missing, one more component is found.
Answers == Search!Fairness

=============================================================================
