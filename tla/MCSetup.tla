------------------------------- MODULE MCSetup -------------------------------
(***************************************************************************)
(* Two browser tabs over a catalog of two providers and two models.        *)
(***************************************************************************)
EXTENDS Setup, TLC

Interchangeable ==
    Permutations(Client) \cup Permutations(Provider) \cup Permutations(Model)
=============================================================================
