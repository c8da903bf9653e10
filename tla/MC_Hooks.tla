------------------------------ MODULE MC_Hooks ------------------------------
(***************************************************************************)
(* Two hooks in each chain of each procedure.                              *)
(***************************************************************************)
EXTENDS Hooks
=============================================================================
