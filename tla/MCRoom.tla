------------------------------- MODULE MCRoom -------------------------------
(***************************************************************************)
(* Small instances of Room for TLC.                                        *)
(***************************************************************************)
EXTENDS Room, TLC

\* Users are interchangeable: the order in which they joined is part of the
\* state, not of their names.
UserSymmetry == Permutations(User)
=============================================================================
