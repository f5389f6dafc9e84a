----------------------------- MODULE MCTwoFactor -----------------------------
(***************************************************************************)
(* Small instances of TwoFactor for TLC: the calls are interchangeable.    *)
(***************************************************************************)
EXTENDS TwoFactor, TLC

Symmetry == Permutations(Calls)
=============================================================================
