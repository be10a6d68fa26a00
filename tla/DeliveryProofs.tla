--------------------------- MODULE DeliveryProofs ---------------------------
(***************************************************************************)
(* Proofs about Delivery, for every set of users, messages and             *)
(* connections, every batch size and number of crashes, and with or        *)
(* without failing databases and vanishing peers.                          *)
(***************************************************************************)
EXTENDS Delivery, TLAPS

\* What the fields of a task and of a flush are in each phase.
LEMMA TaskFields ==
  ASSUME NEW t \in Tasks
  PROVE  /\ t.pc \in {"idle", "dedup", "save", "ack", "respond", "forward", "write",
                     "evict", "queue", "insert"}
         /\ t.pc = "idle" => t = IdleTask
         /\ t.pc # "idle" => t.msg \in Msgs
         /\ t.pc \in {"forward", "write", "evict", "queue", "insert"} => t.todo \in SUBSET Users
         /\ t.pc \in {"write", "evict", "queue", "insert"} => t.user \in Users
         /\ t.pc = "write" => t.conn \in Conns
         /\ t.pc = "insert" => t.id \in Nat
  BY DEF Tasks, IdleTask

LEMMA FlushFields ==
  ASSUME NEW f \in Flushes
  PROVE  /\ f.pc \in {"done", "start", "fetch", "send", "delete"}
         /\ f.pc = "done" => f = IdleFlush
         /\ f.pc \in {"fetch", "send"} => f.conn \in Conns
         /\ f.pc \in {"send", "delete"} => f.batch \in SUBSET Rows
  BY DEF Flushes, IdleFlush

\* Each phase a step can move to is a phase.
LEMMA TaskMaking ==
  /\ IdleTask \in Tasks
  /\ \A m \in Msgs : /\ [pc |-> "dedup", msg |-> m] \in Tasks
                     /\ [pc |-> "save", msg |-> m] \in Tasks
                     /\ [pc |-> "ack", msg |-> m] \in Tasks
                     /\ [pc |-> "respond", msg |-> m] \in Tasks
  /\ \A m \in Msgs, s \in SUBSET Users :
       [pc |-> "forward", msg |-> m, todo |-> s] \in Tasks
  /\ \A m \in Msgs, s \in SUBSET Users, u \in Users :
       /\ [pc |-> "evict", msg |-> m, todo |-> s, user |-> u] \in Tasks
       /\ [pc |-> "queue", msg |-> m, todo |-> s, user |-> u] \in Tasks
       /\ \A k \in Conns :
            [pc |-> "write", msg |-> m, todo |-> s, user |-> u, conn |-> k] \in Tasks
       /\ \A i \in Nat :
            [pc |-> "insert", msg |-> m, todo |-> s, user |-> u, id |-> i] \in Tasks
  BY DEF Tasks, IdleTask

LEMMA FlushMaking ==
  /\ IdleFlush \in Flushes
  /\ [pc |-> "start"] \in Flushes
  /\ \A k \in Conns : [pc |-> "fetch", conn |-> k] \in Flushes
  /\ \A k \in Conns, b \in SUBSET Rows :
       /\ [pc |-> "send", conn |-> k, batch |-> b] \in Flushes
       /\ [pc |-> "delete", batch |-> b] \in Flushes
  BY DEF Flushes, IdleFlush

\* The copies of rows, of a message and of a task are pairs.
LEMMA CopiesTyped ==
  /\ \A rows \in SUBSET Rows : CopiesOf(rows) \in SUBSET Pairs
  /\ \A m \in Msgs : Copies(m) \in SUBSET Pairs
  /\ \A t \in Tasks : Owed(t) \in SUBSET Pairs
<1>1. \A rows \in SUBSET Rows : CopiesOf(rows) \in SUBSET Pairs
  BY DEF CopiesOf, Pairs, Rows
<1>2. \A m \in Msgs : Copies(m) \in SUBSET Pairs
  BY DeliveryAssumption DEF Copies, Pairs
<1>3. ASSUME NEW t \in Tasks PROVE Owed(t) \in SUBSET Pairs
  <2>1. CASE t.pc = "ack"
    BY <2>1, <1>2, TaskFields DEF Owed
  <2>2. CASE t.pc \in {"forward", "write", "evict", "queue", "insert"}
    BY <2>2, TaskFields DEF Owed, Pairs
  <2>3. QED
    BY <2>1, <2>2 DEF Owed
<1>4. QED
  BY <1>1, <1>2, <1>3

\* The phases after the insert, and after a recipient has been handed the
\* message.
LEMMA SavedTyped ==
  ASSUME NEW h \in Handlers, task[h] \in Tasks, task[h].pc = "save"
  PROVE  Saved(h) \in Tasks
<1>1. task[h].msg \in Msgs /\ RecipientsOf[task[h].msg] \in SUBSET Users
  BY TaskFields, DeliveryAssumption
<1>2. QED
  BY <1>1, TaskMaking DEF Saved

LEMMA DoneTyped == \A h \in Handlers, m \in Msgs : Done(h, m) \in Tasks
  BY TaskMaking DEF Done

LEMMA HandedTyped ==
  ASSUME NEW h \in Handlers, task[h] \in Tasks, task[h].pc \in {"write", "insert"}
  PROVE  Handed(h) \in Tasks
<1>1. /\ task[h].msg \in Msgs
      /\ task[h].todo \ {task[h].user} \in SUBSET Users
  BY TaskFields
<1>2. QED
  BY <1>1, TaskMaking, DoneTyped DEF Handed

LEMMA MoreTyped == \A batch : More(batch) \in Flushes
  BY FlushMaking DEF More

-----------------------------------------------------------------------------
(***************************************************************************)
(* Type correctness.                                                       *)
(***************************************************************************)

LEMMA InitTyped == Init => TypeOK
<1> SUFFICES ASSUME Init PROVE TypeOK
  OBVIOUS
<1>1. 0 \in 0 .. MaxCrashes /\ 1 \in Nat
  BY DeliveryAssumption
<1>2. QED
  BY <1>1, TaskMaking, FlushMaking DEF Init, TypeOK

LEMMA ConnectionTyped ==
  ASSUME TypeOK, NEW c \in Conns, Connect(c) \/ Disconnect(c) \/ PeerLost(c)
  PROVE  TypeOK'
<1> USE DeliveryAssumption DEF TypeOK, dbVars, historyVars
<1>1. CASE Connect(c)
  BY <1>1, FlushMaking DEF Connect
<1>2. CASE Disconnect(c)
  BY <1>2 DEF Disconnect, Unregister
<1>3. CASE PeerLost(c)
  BY <1>3 DEF PeerLost
<1>4. QED
  BY <1>1, <1>2, <1>3

LEMMA ForwardTyped ==
  ASSUME TypeOK, NEW h \in Handlers, ForwardStep(h)
  PROVE  TypeOK'
<1> USE DeliveryAssumption DEF TypeOK, dbVars, historyVars, Goto
<1>0. /\ task[h] \in Tasks
      /\ Owed(task[h]) \in SUBSET Pairs
      /\ task[h].pc # "idle" => task[h].msg \in Msgs
      /\ task[h].pc \in {"forward", "write", "evict", "queue", "insert"}
           => task[h].todo \in SUBSET Users
      /\ task[h].pc \in {"write", "evict", "queue", "insert"} => task[h].user \in Users
      /\ task[h].pc = "write" => task[h].conn \in Conns
      /\ task[h].pc = "save" => Saved(h) \in Tasks
      /\ task[h].pc \in {"write", "insert"} => Handed(h) \in Tasks
  BY TaskFields, CopiesTyped, HandedTyped, SavedTyped
<1>1. CASE New(h)
  BY <1>1, <1>0, TaskMaking DEF New
<1>2. CASE Save(h)
  BY <1>2, <1>0 DEF Save
<1>3. CASE SaveFails(h)
  BY <1>3, <1>0, TaskMaking DEF SaveFails
<1>4. CASE ReloadFails(h)
  BY <1>4, <1>0, TaskMaking, CopiesTyped DEF ReloadFails
<1>5. CASE MembersFail(h)
  BY <1>5, <1>0, DoneTyped DEF MembersFail
<1>6. ASSUME NEW u \in Users, Lookup(h, u) PROVE TypeOK'
  <2>1. CASE clients[u] = NoConn
    <3>1. [pc |-> "queue", msg |-> task[h].msg, todo |-> task[h].todo,
           user |-> u] \in Tasks
      BY <1>6, <1>0, TaskMaking DEF Lookup
    <3>2. QED
      BY <3>1, <2>1, <1>6 DEF Lookup
  <2>2. CASE clients[u] # NoConn
    <3>1. clients[u] \in Conns
      BY <2>2
    <3>2. [pc |-> "write", msg |-> task[h].msg, todo |-> task[h].todo,
           user |-> u, conn |-> clients[u]] \in Tasks
      BY <3>1, <1>6, <1>0, TaskMaking DEF Lookup
    <3>3. QED
      BY <3>2, <2>2, <1>6 DEF Lookup
  <2>3. QED
    BY <2>1, <2>2
<1>7. CASE Write(h)
  <2>1. <<task[h].msg, task[h].user>> \in Pairs
    BY <1>0, <1>7 DEF Write, Pairs
  <2>2. QED
    BY <1>7, <1>0, <2>1 DEF Write
<1>8. CASE WriteFails(h)
  <2>1. [pc |-> "evict", msg |-> task[h].msg, todo |-> task[h].todo,
         user |-> task[h].user] \in Tasks
    BY <1>8, <1>0, TaskMaking DEF WriteFails
  <2>2. QED
    BY <1>8, <2>1 DEF WriteFails
<1>9. CASE EvictRecipient(h)
  <2>1. [task[h] EXCEPT !.pc = "queue"] \in Tasks
    <3>1. task[h] \in [pc : {"evict", "queue"}, msg : Msgs, todo : SUBSET Users, user : Users]
      BY <1>9, <1>0 DEF EvictRecipient, Tasks, IdleTask
    <3>2. QED
      BY <3>1 DEF Tasks
  <2>2. QED
    BY <1>9, <2>1 DEF EvictRecipient, Unregister
<1>10. CASE Queue(h)
  <2>1. [pc |-> "insert", msg |-> task[h].msg, todo |-> task[h].todo,
         user |-> task[h].user, id |-> nextID] \in Tasks
    BY <1>10, <1>0, TaskMaking DEF Queue
  <2>2. QED
    BY <1>10, <2>1 DEF Queue
<1>11. CASE Insert(h)
  <2>1. task[h].id \in Nat
    BY <1>11, TaskFields DEF Insert
  <2>2. NewRow(h) \in Rows
    BY <1>11, <1>0, <2>1 DEF Insert, NewRow, Rows
  <2>3. QED
    BY <1>11, <1>0, <2>2 DEF Insert
<1>12. CASE InsertFails(h)
  <2>1. <<task[h].msg, task[h].user>> \in Pairs
    BY <1>0, <1>12 DEF InsertFails, Pairs
  <2>2. QED
    BY <1>12, <1>0, <2>1 DEF InsertFails
<1>13. QED
  BY <1>1, <1>2, <1>3, <1>4, <1>5, <1>6, <1>7, <1>8, <1>9, <1>10, <1>11, <1>12
     DEF ForwardStep

LEMMA HandlerTyped ==
  ASSUME TypeOK, NEW c \in Conns, HandlerStep(c) \/ \E m \in Msgs : Receive(c, m)
  PROVE  TypeOK'
<1> USE DeliveryAssumption DEF TypeOK, dbVars, historyVars, Goto, Handlers
<1>0. /\ task[c] \in Tasks
      /\ Owed(task[c]) \in SUBSET Pairs
      /\ task[c].pc # "idle" => task[c].msg \in Msgs
      /\ task[c].pc = "ack" => RecipientsOf[task[c].msg] \in SUBSET Users
  BY TaskFields, CopiesTyped
<1>1. ASSUME NEW m \in Msgs, Receive(c, m) PROVE TypeOK'
  BY <1>1, TaskMaking DEF Receive
<1>2. CASE Duplicate(c)
  BY <1>2, <1>0, TaskMaking DEF Duplicate
<1>3. CASE Ack(c)
  BY <1>3, <1>0, TaskMaking DEF Ack
<1>4. CASE AckFails(c)
  BY <1>4, <1>0, TaskMaking DEF AckFails
<1>5. CASE ForwardStep(c)
  BY <1>5, ForwardTyped
<1>6. QED
  BY <1>1, <1>2, <1>3, <1>4, <1>5 DEF HandlerStep

LEMMA RequestTyped ==
  ASSUME TypeOK, NEW q \in Requests, RequestStep(q) \/ \E m \in Msgs : Request(q, m)
  PROVE  TypeOK'
<1> USE DeliveryAssumption DEF TypeOK, dbVars, historyVars, Goto, Handlers
<1>0. /\ task[q] \in Tasks
      /\ task[q].pc # "idle" => task[q].msg \in Msgs
  BY TaskFields
<1>1. ASSUME NEW m \in Msgs, Request(q, m) PROVE TypeOK'
  BY <1>1, TaskMaking DEF Request
<1>2. CASE DuplicateRequest(q)
  BY <1>2, <1>0, TaskMaking DEF DuplicateRequest
<1>3. CASE RequestFails(q)
  BY <1>3, TaskMaking DEF RequestFails
<1>4. CASE Respond(q)
  BY <1>4, <1>0, TaskMaking DEF Respond
<1>5. CASE ForwardStep(q)
  BY <1>5, ForwardTyped
<1>6. QED
  BY <1>1, <1>2, <1>3, <1>4, <1>5 DEF RequestStep

LEMMA FlushTyped ==
  ASSUME TypeOK, NEW c \in Conns, FlushStep(c)
  PROVE  TypeOK'
<1> USE DeliveryAssumption DEF TypeOK, dbVars, historyVars, FlushGoto
<1>0. /\ flush[c] \in Flushes
      /\ flush[c].pc \in {"fetch", "send"} => flush[c].conn \in Conns
      /\ flush[c].pc \in {"send", "delete"} =>
           /\ flush[c].batch \in SUBSET Rows
           /\ CopiesOf(flush[c].batch) \in SUBSET Pairs
           /\ [pc |-> "delete", batch |-> flush[c].batch] \in Flushes
           /\ More(flush[c].batch) \in Flushes
  BY FlushFields, FlushMaking, MoreTyped, CopiesTyped
<1>1. CASE FlushLookup(c)
  BY <1>1, FlushMaking DEF FlushLookup
<1>2. CASE FlushFetch(c)
  <2>1. Oldest(OwnerOf[c]) \in SUBSET Rows
    BY DEF Oldest, RowsOf
  <2>2. QED
    BY <1>2, <1>0, <2>1, FlushMaking DEF FlushFetch
<1>3. CASE FlushFetchFails(c)
  BY <1>3, FlushMaking DEF FlushFetchFails
<1>4. CASE FlushSend(c)
  BY <1>4, <1>0 DEF FlushSend
<1>5. CASE FlushSendFails(c)
  BY <1>5, FlushMaking DEF FlushSendFails
<1>6. CASE FlushDelete(c)
  BY <1>6, <1>0 DEF FlushDelete
<1>7. CASE FlushDeleteFails(c)
  BY <1>7, <1>0 DEF FlushDeleteFails
<1>8. QED
  BY <1>1, <1>2, <1>3, <1>4, <1>5, <1>6, <1>7 DEF FlushStep

LEMMA OtherTyped ==
  ASSUME TypeOK, RetryPass \/ Crash \/ \E u \in Users : Evict(u)
  PROVE  TypeOK'
<1> USE DeliveryAssumption DEF TypeOK, dbVars, historyVars
<1>1. CASE RetryPass
  <2>1. PICK due \in SUBSET Retryable :
          \E sent \in SUBSET {r \in due : /\ clients[r.user] # NoConn
                                          /\ WriteOK(clients[r.user])} :
            /\ pending' = (pending \ due) \cup
                            {[r EXCEPT !.attempts = @ + 1] : r \in due \ sent}
            /\ got'  = got \cup CopiesOf({r \in sent : Reaches(clients[r.user])})
            /\ lost' = lost \cup
                         (CopiesOf({r \in sent : ~Reaches(clients[r.user])}) \ got)
            /\ UNCHANGED <<clients, wire, task, flush, stored, nextID, crashes, acked>>
    BY <1>1 DEF RetryPass
  <2>2. PICK sent \in SUBSET due :
            /\ pending' = (pending \ due) \cup
                            {[r EXCEPT !.attempts = @ + 1] : r \in due \ sent}
            /\ got'  = got \cup CopiesOf({r \in sent : Reaches(clients[r.user])})
            /\ lost' = lost \cup
                         (CopiesOf({r \in sent : ~Reaches(clients[r.user])}) \ got)
            /\ UNCHANGED <<clients, wire, task, flush, stored, nextID, crashes, acked>>
    BY <2>1
  <2>3. due \in SUBSET Rows /\ sent \in SUBSET Rows
    BY DEF Retryable
  <2>4. \A r \in Rows : [r EXCEPT !.attempts = @ + 1] \in Rows
    BY DEF Rows
  <2>5. /\ CopiesOf({r \in sent : Reaches(clients[r.user])}) \in SUBSET Pairs
        /\ CopiesOf({r \in sent : ~Reaches(clients[r.user])}) \in SUBSET Pairs
    BY <2>3, CopiesTyped
  <2>6. pending' \in SUBSET Rows
    BY <2>2, <2>3, <2>4
  <2>7. QED
    BY <2>2, <2>5, <2>6
<1>2. CASE Crash
  <2>1. UNION {Owed(task[h]) : h \in Handlers} \in SUBSET Pairs
    BY CopiesTyped
  <2>2. QED
    BY <1>2, <2>1, TaskMaking, FlushMaking DEF Crash
<1>3. ASSUME NEW u \in Users, Evict(u) PROVE TypeOK'
  BY <1>3 DEF Evict, Unregister
<1>4. QED
  BY <1>1, <1>2, <1>3

LEMMA NextTyped == TypeOK /\ [Next]_vars => TypeOK'
<1> SUFFICES ASSUME TypeOK, [Next]_vars PROVE TypeOK'
  OBVIOUS
<1>1. CASE UNCHANGED vars
  BY <1>1 DEF vars, TypeOK
<1>2. QED
  BY <1>1, ConnectionTyped, HandlerTyped, RequestTyped, FlushTyped, OtherTyped DEF Next

\* Type correctness, for every instance.
THEOREM DeliveryTypeCorrect == Spec => []TypeOK
<1>1. QED
  BY InitTyped, NextTyped, PTL DEF Spec

=============================================================================
