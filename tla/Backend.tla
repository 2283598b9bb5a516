------------------------------ MODULE Backend ------------------------------
(***************************************************************************)
(* The compiler from source programs to assembly: buildIr, then all that   *)
(* CodeGen does.                                                           *)
(***************************************************************************)
EXTENDS Optimizer, CodeGen

EmitInit == Init /\ Idle

EmitSpec == EmitInit /\ [][EmitNext]_<<vars, tables, pc, emission>>

=============================================================================
