---------------------------- MODULE MC_ToolGuards ----------------------------
(***************************************************************************)
(* Three calls of a tool of each kind, with and without retryreflect, that *)
(* is told to stop after one failure, and three calls of SetConfirmed.     *)
(***************************************************************************)
EXTENDS ToolGuards, TLC

Symmetric == Permutations(Calls)
=============================================================================
