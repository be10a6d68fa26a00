----------------------------- MODULE MCDelivery -----------------------------
(***************************************************************************)
(* Delivery with a sender a and recipients b and d; the configurations say *)
(* how many connections each of them opens and whether the messages are    *)
(* direct messages to b or messages to the group of the three.             *)
(***************************************************************************)
EXTENDS Delivery

CONSTANTS a, b, d, aConns, bConns, dConns, Group

MCUsers == IF Group THEN {a, b, d} ELSE {a, b}
MCConns == aConns \cup bConns \cup dConns
MCOwnerOf == [c \in MCConns |-> IF c \in aConns THEN a
                                ELSE IF c \in bConns THEN b ELSE d]
MCSenderOf == [m \in Msgs |-> a]
MCRecipientsOf == [m \in Msgs |-> MCUsers \ {a}]
MCGroupMsgs == IF Group THEN Msgs ELSE {}
Sender == {a}
Nobody == {}

=============================================================================
