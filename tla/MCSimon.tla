------------------------------- MODULE MCSimon -------------------------------
(***************************************************************************)
(* Small instances of Simon for TLC.                                       *)
(***************************************************************************)
EXTENDS Simon, TLC

UserSymmetry == Permutations(User)
=============================================================================
