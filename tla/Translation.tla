----------------------------- MODULE Translation -----------------------------
(***************************************************************************)
(* What the middle of the compiler promises: it works on a program for a   *)
(* while and delivers one in the end, and on the way whatever the program  *)
(* returns for some input stays returned.  Only where it returned nothing  *)
(* defined may a step give it a result, and handing it over changes nothing. *)
(***************************************************************************)
CONSTANT Nothing    \* no defined result

VARIABLES
    does,           \* what the program returns for each input
    delivered       \* the program has been given to code generation

vars == <<does, delivered>>

Keeps == \A g \in DOMAIN does : does[g] # Nothing => does'[g] = does[g]

Init == delivered = FALSE

Improve == ~delivered /\ Keeps /\ UNCHANGED delivered

Deliver == ~delivered /\ delivered' = TRUE /\ UNCHANGED does

Next == Improve \/ Deliver
Spec == Init /\ [][Next]_vars /\ WF_vars(Deliver)

=============================================================================
