---------------------------- MODULE Conversation ----------------------------
(***************************************************************************)
(* What a conversation is to its members, with no cache and no requests.   *)
(*                                                                         *)
(* Messages appear, each once and with no receipt; receipts are only       *)
(* added, and nothing ever disappears or changes hands.  A first page may  *)
(* be out of date, but shows nothing that was never sent.  The pages after *)
(* it continue without a gap, and so do the batches of a client that       *)
(* synchronises; no answer is larger than the cap.                         *)
(***************************************************************************)
EXTENDS Naturals, FiniteSets

CONSTANTS Users, Ids, PageCap

VARIABLES log,     \* the messages that have appeared, by id
          paged,   \* what a client that follows next_cursor has been given
          synced   \* what a client that synchronises has been given

cvars == <<log, paged, synced>>

Present == DOMAIN log

Init ==
  /\ Present = {}
  /\ paged  = [got |-> {}, cursor |-> 0, top |-> 0]
  /\ synced = [got |-> {}, last |-> 0]

\* A message appears: not always in the order of the ids.
Appear(i, u) ==
  /\ UNCHANGED <<paged, synced>>
  /\ i \notin Present
  /\ log' = [j \in Present \cup {i} |->
               IF j = i THEN [from |-> u, delivered |-> FALSE, read |-> FALSE]
               ELSE log[j]]

\* More messages have been delivered, or read, than before.
Receipts ==
  /\ UNCHANGED <<paged, synced>>
  /\ DOMAIN log' = Present
  /\ \A i \in Present : \E delivered, read \in BOOLEAN :
       log'[i] = [from      |-> log[i].from,
                  delivered |-> log[i].delivered \/ delivered,
                  read      |-> log[i].read \/ read]

Fits(ids) == Cardinality(ids) <= PageCap

FirstPage(ids) ==
  /\ UNCHANGED <<log, synced>>
  /\ Fits(ids)
  /\ \E low, high \in ids :
       /\ \A i \in ids : low <= i /\ i <= high
       /\ paged' = [got |-> ids, cursor |-> low, top |-> high]

\* All there is from the new cursor up to the old one.
OlderPage(low) ==
  /\ UNCHANGED <<log, synced>>
  /\ low < paged.cursor
  /\ LET ids == {i \in Present : low <= i /\ i < paged.cursor}
     IN  /\ Fits(ids)
         /\ paged' = [got |-> paged.got \cup ids, cursor |-> low, top |-> paged.top]

\* All there is after the last message up to the new last one.
Synchronise(last) ==
  /\ UNCHANGED <<log, paged>>
  /\ last > synced.last
  /\ LET ids == {i \in Present : synced.last < i /\ i <= last}
     IN  /\ Fits(ids)
         /\ synced' = [got |-> synced.got \cup ids, last |-> last]

Next ==
  \/ Receipts
  \/ \E i \in Ids, u \in Users : Appear(i, u)
  \/ \E ids \in SUBSET Present : FirstPage(ids)
  \/ \E i \in Present : OlderPage(i) \/ Synchronise(i)

Spec == Init /\ [][Next]_cvars

=============================================================================
