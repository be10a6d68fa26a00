------------------------------- MODULE MCHub -------------------------------
(***************************************************************************)
(* Hub on small sets.  Users, and connections, are interchangeable; the    *)
(* liveness run does without the symmetry.                                 *)
(***************************************************************************)
EXTENDS Hub, TLC

Symmetry == Permutations(Conns) \cup Permutations(Users)

=============================================================================
