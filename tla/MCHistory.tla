----------------------------- MODULE MCHistory -----------------------------
(***************************************************************************)
(* History with two users and up to two requests at once.  A behaviour has *)
(* one of a few workloads, so that the combinations of operations that act *)
(* on the same state are explored together and the others are not          *)
(* multiplied with them.                                                   *)
(***************************************************************************)
EXTENDS History, TLC

CONSTANTS a, b

MCUsers == {a, b}

Direct(serves, messages, atOnce) ==
  [group |-> FALSE, serves |-> serves, messages |-> messages, atOnce |-> atOnce]
Group(serves, messages, atOnce) ==
  [Direct(serves, messages, atOnce) EXCEPT !.group = TRUE]

MCWorkloads ==
  {Direct({"chat", "rest", "get"}, 2, 2),
   Direct({"chat", "get"}, 3, 2),
   Direct({"chat", "get", "delivered"}, 2, 2),
   Direct({"chat", "get", "read"}, 1, 2),
   Direct({"chat", "rest", "lists"}, 2, 2),
   Direct({"chat", "rest", "lists", "read"}, 1, 2),
   Direct({"chat", "lists", "delivered", "read"}, 1, 1),
   Direct({"chat", "read"}, 2, 2),
   Direct({"chat", "delivered", "read"}, 2, 1),
   Direct({"chat", "rest", "sync"}, 4, 2),
   Group({"chat", "rest", "get"}, 2, 2),
   Group({"chat", "rest", "lists"}, 2, 2),
   Group({"chat", "lists", "read"}, 1, 2),
   Group({"chat", "lists", "marks"}, 2, 2)}

MCReceipts == {Direct({"chat", "delivered", "read"}, 1, 1)}

MCLimits == {-1, 2, 3}

\* Requests are interchangeable, and so are the two users.
RequestSymmetry == Permutations(Requests) \cup Permutations(MCUsers)

=============================================================================
