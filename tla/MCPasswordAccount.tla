-------------------------- MODULE MCPasswordAccount --------------------------
(***************************************************************************)
(* Small instances of PasswordAccount for TLC: calls are interchangeable,  *)
(* and so are passwords.                                                   *)
(***************************************************************************)
EXTENDS PasswordAccount, TLC

Symmetry == Permutations(Calls) \cup Permutations(Passwords)
=============================================================================
