------------------------------ MODULE MCServer ------------------------------
(***************************************************************************)
(* Small instances of Server for TLC.                                      *)
(***************************************************************************)
EXTENDS Server, TLC

\* Users are interchangeable, and so are room objects (room codes are random).
Symmetry == Permutations(User) \cup Permutations(RoomObject)
=============================================================================
