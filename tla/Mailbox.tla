------------------------------ MODULE Mailbox ------------------------------
(***************************************************************************)
(* What sending a message promises, seen from outside the server.          *)
(*                                                                         *)
(* Once the server has accepted a message it holds a copy for every        *)
(* recipient, and lets go of a copy only when the recipient has got it or  *)
(* it has been lost on the way.  A message is accepted once; a copy may be *)
(* delivered more than once while it is held, and a copy thought lost may  *)
(* still turn up, but one that was got and let go is not held again.       *)
(***************************************************************************)
CONSTANTS Users, Msgs, RecipientsOf

VARIABLES accepted,   \* the messages the server has accepted
          held,       \* the copies <<m, u>> the server still has to deliver
          got,        \* the copies that have reached their recipient
          lost        \* the copies the server gave up without knowing better

mvars == <<accepted, held, got, lost>>

Copies(m) == {m} \X RecipientsOf[m]

Init == accepted = {} /\ held = {} /\ got = {} /\ lost = {}

\* A message is taken in; some copies may be lost in the same step.
Accept(m) ==
  /\ m \notin accepted
  /\ accepted' = accepted \cup {m}
  /\ \E kept \in SUBSET Copies(m) :
       /\ held' = held \cup kept
       /\ lost' = lost \cup (Copies(m) \ kept)
  /\ UNCHANGED got

\* Copies are delivered, lost and let go, several at a time.
Settle ==
  /\ UNCHANGED accepted
  /\ held' \subseteq held
  /\ held \ held' \subseteq got' \cup lost'
  /\ got \subseteq got'   /\ got' \ got \subseteq held \cup lost
  /\ lost \subseteq lost' /\ lost' \ lost \subseteq held

Next == Settle \/ \E m \in Msgs : Accept(m)

Spec == Init /\ [][Next]_mvars

=============================================================================
