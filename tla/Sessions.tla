------------------------------ MODULE Sessions ------------------------------
(***************************************************************************)
(* What the refresh tokens promise whoever signs in, seen from the table   *)
(* of tokens alone: a token starts a session or continues the session of   *)
(* the one it replaces, for the same user.  The life of a token goes one   *)
(* way: it is valid, it may expire, and it is revoked for good.            *)
(***************************************************************************)
CONSTANTS Users, Tokens, None

VARIABLES
  tokens,   \* the tokens, None before they are issued
  shared    \* those that two have used at once before anything replaced them

vars == <<tokens, shared>>

Init ==
  /\ tokens = [t \in Tokens |-> None]
  /\ shared = {}

Issued == {t \in Tokens : tokens[t] # None}
Heirs(t) == {h \in Issued : tokens[h].from = t}

Issue(t, u, f) ==
  /\ t \notin Issued
  /\ tokens' = [tokens EXCEPT ![t] = [user |-> u, from |-> f, state |-> "valid"]]

\* Somebody signs in.
Start(t, u) ==
  /\ UNCHANGED shared
  /\ Issue(t, u, None)

\* A token that has been revoked in order to be replaced gets one successor;
\* only if it was shared it may get more, or some after its session has ended.
Replace(f, t) ==
  /\ UNCHANGED shared
  /\ tokens[f].state \in {"rotated", "out"}
  /\ f \in shared \/ (tokens[f].state = "rotated" /\ Heirs(f) = {})
  /\ Issue(t, tokens[f].user, f)

Become(t, state) ==
  tokens' = [tokens EXCEPT ![t] = [user |-> tokens[t].user, from |-> tokens[t].from,
                                   state |-> state]]

Expire(t) ==
  /\ UNCHANGED shared
  /\ tokens[t].state = "valid"
  /\ Become(t, "expired")

\* A request that has used a token revokes it, or a session ends.
Revoke(t, how) ==
  /\ shared' \in {shared, shared \cup {t}}
  /\ tokens[t].state \in {"valid", "expired"}
  /\ Become(t, how)

\* A token is used, which may show that another one is using it; not when it
\* has been replaced already.
Use(t) ==
  /\ UNCHANGED tokens
  /\ \/ UNCHANGED shared
     \/ shared' = shared \cup {t} /\ Heirs(t) = {}

Next ==
  \/ \E t \in Issued : Use(t)
  \/ \E t \in Issued : \/ Expire(t)
                       \/ \E how \in {"rotated", "out"} : Revoke(t, how)
  \/ \E t \in Tokens : \/ \E u \in Users : Start(t, u)
                       \/ \E f \in Issued : Replace(f, t)

Spec == Init /\ [][Next]_vars

=============================================================================
