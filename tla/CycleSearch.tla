----------------------------- MODULE CycleSearch -----------------------------
(***************************************************************************)
(* What findRecursive (src/ir/optim.cpp) promises the inliner: the         *)
(* functions that can call themselves, found a strongly connected          *)
(* component at a time, in any order, and nothing else.                    *)
(***************************************************************************)
EXTENDS Integers, FiniteSets

CONSTANT Nodes

VARIABLES
    calls,      \* the functions each function calls (never changes)
    inCycle,    \* found so far
    done        \* the answer is given

vars == <<calls, inCycle, done>>

Closed(S) == \A w \in S : calls[w] \subseteq S

\* what u calls, directly or not: it is in every set that holds the callees of u and
\* that calls cannot leave
Reach ==
    [u \in Nodes |->
        {v \in Nodes :
            \A S \in SUBSET Nodes : (calls[u] \subseteq S /\ Closed(S)) => v \in S}]

Recursive == {u \in Nodes : u \in Reach[u]}
Component(u) == {v \in Nodes : v \in Reach[u] /\ u \in Reach[v]}

Init ==
    /\ calls \in [Nodes -> SUBSET Nodes]
    /\ inCycle = {}
    /\ done = FALSE

\* the answer may (but need not) come with the last component
Find(u) ==
    /\ ~done
    /\ inCycle' = inCycle \cup Component(u)
    /\ done' \in {FALSE, inCycle' = Recursive}
    /\ UNCHANGED calls

Answer ==
    /\ inCycle = Recursive
    /\ done' = TRUE
    /\ UNCHANGED <<calls, inCycle>>

Next == Answer \/ \E u \in Recursive \ inCycle : Find(u)
Spec == Init /\ [][Next]_vars
Fairness == WF_vars(Next)

=============================================================================
