------------------------------ MODULE Registry ------------------------------
(***************************************************************************)
(* What the hub's registry of connections promises to the rest of the      *)
(* server, without saying which goroutine does what.                       *)
(*                                                                         *)
(* A user has at most one registered connection.  A connection enters the  *)
(* registry once, when it opens, and the step that takes it out (a later   *)
(* connection of the same user, or an Unregister) takes out nothing else;  *)
(* a connection that has left never comes back.                            *)
(***************************************************************************)
CONSTANTS Users, Conns, NoConn

VARIABLES clients,   \* the registered connection of each user
          opened     \* the connections that have been registered so far

rvars == <<clients, opened>>

Init == /\ clients = [u \in Users |-> NoConn]
        /\ opened  = {}

\* A new connection takes the user's place in the registry.
Open(u, c) ==
  /\ c \notin opened
  /\ opened'  = opened \cup {c}
  /\ clients' = [clients EXCEPT ![u] = c]

\* The user's entry goes away; every other user keeps theirs.
Drop(u) ==
  /\ clients[u] # NoConn
  /\ clients' = [clients EXCEPT ![u] = NoConn]
  /\ UNCHANGED opened

Next == \E u \in Users : Drop(u) \/ \E c \in Conns : Open(u, c)

Spec == Init /\ [][Next]_rvars

=============================================================================
