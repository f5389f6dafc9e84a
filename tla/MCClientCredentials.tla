------------------------- MODULE MCClientCredentials -------------------------
(***************************************************************************)
(* Small instances of ClientCredentials for TLC: calls are interchangeable.*)
(***************************************************************************)
EXTENDS ClientCredentials, TLC

Symmetry == Permutations(Calls)
=============================================================================
