------------------------------ MODULE MCGroups ------------------------------
(***************************************************************************)
(* Groups with one group, and interchangeable users and requests.          *)
(***************************************************************************)
EXTENDS Groups, TLC

MCGroupOf == [l \in Links |-> CHOOSE g \in Groups : TRUE]

Symmetry == Permutations(Users) \cup Permutations(Requests)

=============================================================================
