------------------------------ MODULE MCConsole ------------------------------
(***************************************************************************)
(* One plan whose cycles have two interchangeable goals.                   *)
(***************************************************************************)
EXTENDS Console, TLC

Interchangeable == Permutations(Goal)
=============================================================================
