-------------------------- MODULE MCFunctionState --------------------------
(***************************************************************************)
(* Instances of RuztaFunctionState for TLC: three states are a call that   *)
(* awaits a call that awaits again.                                        *)
(***************************************************************************)
EXTENDS RuztaFunctionState
=============================================================================
