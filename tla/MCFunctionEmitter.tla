------------------------- MODULE MCFunctionEmitter -------------------------
(***************************************************************************)
(* Small functions: "h" is a parameter in an s-register, "k" a constant,   *)
(* "d" a slot whose store is left out, "x" a parameter on the stack, "y"   *)
(* a local on the stack.                                                   *)
(***************************************************************************)
EXTENDS FunctionEmitter

MCSlots == {"h", "k", "d", "x", "y"}
MCSlotsNoLocal == MCSlots \ {"y"}
MCHome == [s \in Slots |-> IF s = "h" THEN "s2" ELSE NoReg]
MCConstOf == [s \in Slots |-> IF s = "k" THEN 1 ELSE Undef]
MCArgReg == <<"a0", "a1">>
MCUndef == 0
MCVal == {1, 2}
=============================================================================
