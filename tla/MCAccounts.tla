----------------------------- MODULE MCAccounts -----------------------------
(***************************************************************************)
(* Accounts with two users, and names of which two differ only in case.  A *)
(* behaviour has one of a few workloads, each of operations that act on    *)
(* the same state.                                                         *)
(***************************************************************************)
EXTENDS Accounts, TLC

CONSTANTS u1, u2, bob, Bob, eve

MCNames == {bob, Bob, eve}
MCLower == [n \in MCNames |-> IF n = Bob THEN bob ELSE n]

Load(serves, users, names, atOnce) ==
  [serves |-> {"register"} \cup serves, users |-> users, names |-> names,
   atOnce |-> atOnce]

MCWorkloads ==
  {Load({"create", "profile"}, {u1}, {bob, eve}, 2),
   Load({"create", "profile"}, Users, {bob, Bob}, 2),
   Load({"profile"}, Users, {bob, eve}, 2),
   Load({"session"}, {u1}, {bob}, 2),
   Load({"profile", "avatar"}, {u1}, {bob}, 2),
   Load({"profile", "presence"}, {u1}, {bob}, 3)}

\* Requests are interchangeable.
AccountsSymmetry == Permutations(Requests)

=============================================================================
