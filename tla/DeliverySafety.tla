--------------------------- MODULE DeliverySafety ---------------------------
(***************************************************************************)
(* Proofs of the safety properties of Delivery: no message is forwarded    *)
(* twice, none is forgotten, the queue keeps the order of a sender, and    *)
(* the server is a mailbox, for every instance.                            *)
(***************************************************************************)
EXTENDS DeliveryProofs, FiniteSetTheorems

-----------------------------------------------------------------------------
(***************************************************************************)
(* The inductive invariant.                                                *)
(***************************************************************************)

Forwarding == {"ack", "forward", "write", "evict", "queue", "insert"}

\* A handler past the insert forwards a stored message, to some of its
\* recipients, and the one it is busy with is still to do.
Sound(t) ==
  t.pc \in Forwarding =>
    /\ t.msg \in stored
    /\ Owed(t) \subseteq Copies(t.msg)
    /\ t.pc \in {"write", "evict", "queue", "insert"} => t.user \in t.todo

TaskInv == \A h \in Handlers : Sound(task[h])

\* The rows are finitely many, of stored messages, and the retry worker has
\* nothing to do with them.
QueueInv ==
  /\ IsFiniteSet(pending)
  /\ \A r \in pending : /\ r.msg \in stored
                        /\ <<r.msg, r.user>> \in Copies(r.msg)
                        /\ r.nextRetry = "null"

\* The rows a flush has fetched and not yet removed.
Batch(c) == IF flush[c].pc \in {"send", "delete"} THEN flush[c].batch ELSE {}

Fetched == UNION {Batch(c) : c \in Conns}

\* An id names one row, in the table, in the batch of a flush or about to be
\* inserted, and the rows of a handler are older than the next one it inserts.
IdInv ==
  /\ \A r \in pending \cup Fetched : r.id < nextID
  /\ \A r \in pending, s \in pending \cup Fetched : r.id = s.id => r = s
  /\ \A h \in Handlers : task[h].pc = "insert" =>
       /\ task[h].id < nextID
       /\ \A r \in pending \cup Fetched :
            r.id # task[h].id /\ (r.by = h => r.id < task[h].id)
       /\ \A g \in Handlers \ {h} : task[g].pc = "insert" => task[g].id # task[h].id

\* A row that has been fetched is in the table unless its copy has been
\* delivered or lost, and a flush deletes rows only when they have been.
BatchInv ==
  \A c \in Conns : \A r \in Batch(c) :
    /\ <<r.msg, r.user>> \in CopiesOf(pending) \cup got \cup lost
    /\ flush[c].pc = "delete" => <<r.msg, r.user>> \in got \cup lost

\* With a row, a flush has fetched every older row of the same sender.
OrderInv ==
  \A c \in Conns : \A r \in Batch(c), s \in pending :
    (s.user = r.user /\ s.by = r.by /\ s.id < r.id) => s \in Batch(c)

SInv == /\ TypeOK
        /\ TaskInv
        /\ QueueInv
        /\ IdInv
        /\ BatchInv
        /\ OrderInv
        /\ HeldOnce
        /\ NothingForgotten

-----------------------------------------------------------------------------
(***************************************************************************)
(* Copies and phases.                                                      *)
(***************************************************************************)

LEMMA CopyOfRow ==
  \A rows, p : p \in CopiesOf(rows) <=> \E r \in rows : p = <<r.msg, r.user>>
  BY DEF CopiesOf

LEMMA OwedOf ==
  /\ Owed(IdleTask) = {}
  /\ \A m : /\ Owed([pc |-> "dedup", msg |-> m]) = {}
            /\ Owed([pc |-> "save", msg |-> m]) = {}
            /\ Owed([pc |-> "respond", msg |-> m]) = {}
            /\ Owed([pc |-> "ack", msg |-> m]) = Copies(m)
  /\ \A m, s : Owed([pc |-> "forward", msg |-> m, todo |-> s]) = {m} \X s
  /\ \A m, s, u :
       /\ Owed([pc |-> "evict", msg |-> m, todo |-> s, user |-> u]) = {m} \X s
       /\ Owed([pc |-> "queue", msg |-> m, todo |-> s, user |-> u]) = {m} \X s
       /\ \A k : Owed([pc |-> "write", msg |-> m, todo |-> s, user |-> u, conn |-> k])
                   = {m} \X s
       /\ \A i : Owed([pc |-> "insert", msg |-> m, todo |-> s, user |-> u, id |-> i])
                   = {m} \X s
  BY DEF Owed, IdleTask

LEMMA DoneOwes ==
  \A h, m : Owed(Done(h, m)) = {} /\ Done(h, m).pc \in {"idle", "respond"}
  BY OwedOf DEF Done, IdleTask

LEMMA SavedOwes ==
  ASSUME NEW h
  PROVE  /\ Owed(Saved(h)) = Copies(task[h].msg)
         /\ Saved(h).pc \in {"ack", "forward"}
         /\ Saved(h).msg = task[h].msg
  BY OwedOf DEF Saved, Copies

\* Handing a recipient the message takes the copy of the recipient away, and
\* no other.
LEMMA HandedOwes ==
  ASSUME NEW h
  PROVE  /\ Owed(Handed(h)) = {task[h].msg} \X (task[h].todo \ {task[h].user})
         /\ Handed(h).pc \in {"idle", "respond", "forward"}
         /\ Handed(h).pc = "forward" => Handed(h).msg = task[h].msg
<1> DEFINE rest == task[h].todo \ {task[h].user}
<1>1. CASE rest = {}
  <2>1. Handed(h) = Done(h, task[h].msg)
    BY <1>1 DEF Handed
  <2>2. {task[h].msg} \X rest = {}
    BY <1>1
  <2>3. QED
    BY <2>1, <2>2, DoneOwes
<1>2. CASE rest # {}
  BY <1>2, OwedOf DEF Handed
<1>3. QED
  BY <1>1, <1>2

-----------------------------------------------------------------------------
(***************************************************************************)
(* Handler steps that leave the tables alone: what they no longer owe has  *)
(* been delivered or lost.                                                 *)
(***************************************************************************)

Quiet(h, t) ==
  /\ Goto(h, t)
  /\ UNCHANGED <<stored, pending, nextID, flush>>
  /\ Owed(t) \subseteq Owed(task[h])
  /\ got \subseteq got' /\ lost \subseteq lost'
  /\ (got' \ got) \cup (lost' \ lost) \subseteq Owed(task[h])
  /\ Owed(task[h]) \ Owed(t) \subseteq got' \cup lost'
  /\ Sound(t)
  /\ t.pc # "insert"

QuietStep(h) == \E t : Quiet(h, t)

LEMMA IdleQuiet ==
  ASSUME NEW h, NEW t, SInv, Goto(h, t), Owed(task[h]) = {},
         t.pc \in {"idle", "dedup", "save", "respond"}, Owed(t) = {},
         UNCHANGED <<stored, pending, nextID, flush, got, lost>>
  PROVE  QuietStep(h)
  BY DEF QuietStep, Quiet, Sound, Forwarding

LEMMA TakingInQuiet ==
  ASSUME SInv, NEW h \in Handlers,
         \/ \E m \in Msgs : Receive(h, m) \/ Request(h, m)
         \/ Duplicate(h) \/ DuplicateRequest(h) \/ New(h) \/ RequestFails(h)
         \/ SaveFails(h) \/ Respond(h)
  PROVE  QuietStep(h)
<1> USE OwedOf, IdleQuiet DEF dbVars, historyVars
<1>1. task[h].pc \in {"dedup", "save", "respond"} => Owed(task[h]) = {}
  BY DEF Owed
<1>2. IdleTask.pc = "idle"
  BY DEF IdleTask
<1>3. ASSUME NEW m \in Msgs, Receive(h, m) \/ Request(h, m) PROVE QuietStep(h)
  BY <1>3 DEF Receive, Request
<1>4. CASE Duplicate(h)
  BY <1>1, <1>2, <1>4 DEF Duplicate
<1>5. CASE DuplicateRequest(h)
  BY <1>1, <1>5 DEF DuplicateRequest
<1>6. CASE New(h)
  BY <1>1, <1>6 DEF New
<1>7. CASE RequestFails(h)
  BY <1>1, <1>2, <1>7 DEF RequestFails
<1>8. CASE SaveFails(h)
  BY <1>1, <1>2, <1>8 DEF SaveFails
<1>9. CASE Respond(h)
  BY <1>1, <1>2, <1>9 DEF Respond
<1>10. QED
  BY <1>3, <1>4, <1>5, <1>6, <1>7, <1>8, <1>9

LEMMA ForwardingQuiet ==
  ASSUME SInv, NEW h \in Handlers,
         \/ \E u \in Users : Lookup(h, u)
         \/ Ack(h) \/ AckFails(h) \/ MembersFail(h) \/ Write(h) \/ WriteFails(h)
         \/ EvictRecipient(h) \/ InsertFails(h)
  PROVE  QuietStep(h)
<1> USE OwedOf DEF dbVars, historyVars
<1> DEFINE t == task[h]
<1>0. /\ Sound(t)
      /\ t.pc \in Forwarding => t.msg \in stored
      /\ t.pc = "ack" => Owed(t) = Copies(t.msg)
      /\ t.pc \in {"forward", "write", "evict", "queue", "insert"}
           => Owed(t) = {t.msg} \X t.todo
      /\ IdleTask.pc = "idle"
  BY DEF SInv, TaskInv, Sound, Owed, IdleTask
<1>1. ASSUME NEW u \in Users, Lookup(h, u) PROVE QuietStep(h)
  <2>1. PICK t1 : /\ Goto(h, t1)
                  /\ t1.pc \in {"queue", "write"}
                  /\ t1.msg = t.msg /\ t1.todo = t.todo /\ t1.user = u
                  /\ Owed(t1) = {t.msg} \X t.todo
    BY <1>1 DEF Lookup
  <2>2. Owed(t) = Owed(t1) /\ t.pc = "forward" /\ u \in t.todo
    BY <1>0, <1>1, <2>1 DEF Lookup
  <2>3. Sound(t1)
    BY <1>0, <2>1, <2>2 DEF Sound, Forwarding
  <2>4. QED
    BY <1>1, <2>1, <2>2, <2>3 DEF Lookup, QuietStep, Quiet
<1>2. CASE Ack(h)
  <2> DEFINE t1 == [pc |-> "forward", msg |-> t.msg, todo |-> RecipientsOf[t.msg]]
  <2>1. Owed(t) = Copies(t.msg) /\ Owed(t1) = Copies(t.msg) /\ t1.msg = t.msg
        /\ t1.pc = "forward"
    BY <1>0, <1>2 DEF Ack, Copies
  <2>2. Sound(t1)
    BY <1>0, <1>2, <2>1 DEF Ack, Sound, Forwarding
  <2>3. QED
    BY <1>2, <2>1, <2>2 DEF Ack, QuietStep, Quiet
<1>3. CASE AckFails(h)
  BY <1>0, <1>3 DEF AckFails, QuietStep, Quiet, Sound, Forwarding
<1>4. CASE MembersFail(h)
  BY <1>0, <1>4, DoneOwes DEF MembersFail, QuietStep, Quiet, Sound, Forwarding
<1>5. ASSUME t.pc \in {"write", "insert"}
      PROVE  /\ Owed(Handed(h)) = Owed(t) \ {<<t.msg, t.user>>}
             /\ <<t.msg, t.user>> \in Owed(t)
             /\ Sound(Handed(h))
             /\ Handed(h).pc # "insert"
  <2>1. Owed(t) = {t.msg} \X t.todo /\ t.user \in t.todo
    BY <1>0, <1>5 DEF Sound, Forwarding
  <2>2. Owed(Handed(h)) = Owed(t) \ {<<t.msg, t.user>>}
    BY <2>1, HandedOwes
  <2>3. Sound(Handed(h))
    BY <1>0, <1>5, <2>2, HandedOwes DEF Sound, Forwarding
  <2>4. QED
    BY <2>1, <2>2, <2>3, HandedOwes
<1>6. CASE Write(h)
  BY <1>5, <1>6 DEF Write, QuietStep, Quiet
<1>7. CASE InsertFails(h)
  BY <1>5, <1>7 DEF InsertFails, QuietStep, Quiet
<1>8. CASE WriteFails(h)
  <2> DEFINE t1 == [pc |-> "evict", msg |-> t.msg, todo |-> t.todo, user |-> t.user]
  <2>1. Owed(t1) = Owed(t) /\ t.pc = "write"
    BY <1>0, <1>8 DEF WriteFails
  <2>2. Sound(t1)
    BY <1>0, <2>1 DEF Sound, Forwarding
  <2>3. QED
    BY <1>8, <2>1, <2>2 DEF WriteFails, QuietStep, Quiet
<1>9. CASE EvictRecipient(h)
  <2> DEFINE t1 == [task[h] EXCEPT !.pc = "queue"]
  <2>1. t \in [pc : {"evict", "queue"}, msg : Msgs, todo : SUBSET Users, user : Users]
    BY <1>9 DEF EvictRecipient, SInv, TypeOK, Tasks, IdleTask
  <2>2. /\ t1.pc = "queue" /\ t1.msg = t.msg /\ t1.todo = t.todo /\ t1.user = t.user
        /\ t.pc = "evict"
    BY <1>9, <2>1 DEF EvictRecipient
  <2>3. Owed(t1) = Owed(t)
    BY <2>2 DEF Owed
  <2>4. Sound(t1)
    BY <1>0, <2>2, <2>3 DEF Sound, Forwarding
  <2>5. QED
    BY <1>9, <2>2, <2>3, <2>4 DEF EvictRecipient, QuietStep, Quiet
<1>10. QED
  BY <1>1, <1>2, <1>3, <1>4, <1>6, <1>7, <1>8, <1>9

\* A copy is held in the table or by a handler.
LEMMA HeldBy ==
  \A p : p \in Held <=> p \in CopiesOf(pending) \/ \E h \in Handlers : p \in Owed(task[h])
  BY DEF Held

LEMMA HeldByNext ==
  \A p : p \in Held' <=>
           p \in CopiesOf(pending') \/ \E h \in Handlers : p \in Owed(task'[h])
  BY DEF Held

\* What a step of one handler does to the tasks.
LEMMA GotoOne ==
  ASSUME TypeOK, NEW h \in Handlers, NEW t, Goto(h, t)
  PROVE  \A g \in Handlers : task'[g] = IF g = h THEN t ELSE task[g]
  BY DEF TypeOK, Goto

LEMMA QuietSettles ==
  ASSUME SInv, NEW h \in Handlers, QuietStep(h)
  PROVE  Box!Settle
<1>1. PICK t : Quiet(h, t)
  BY DEF QuietStep
<1>2. \A g \in Handlers : task'[g] = IF g = h THEN t ELSE task[g]
  BY <1>1, GotoOne DEF SInv, Quiet
<1>3. Held' \subseteq Held
  BY <1>1, <1>2, HeldBy, HeldByNext DEF Quiet
<1>4. Owed(task[h]) \subseteq Held
  BY HeldBy
<1>5. Held \ Held' \subseteq got' \cup lost'
  BY <1>1, <1>2, HeldBy, HeldByNext DEF Quiet
<1>6. QED
  BY <1>1, <1>3, <1>4, <1>5 DEF Quiet, Box!Settle

LEMMA QuietSafe ==
  ASSUME SInv, TypeOK', NEW h \in Handlers, QuietStep(h)
  PROVE  SInv'
<1>1. PICK t : Quiet(h, t)
  BY DEF QuietStep
<1>2. \A g \in Handlers : task'[g] = IF g = h THEN t ELSE task[g]
  BY <1>1, GotoOne DEF SInv, Quiet
<1>3. \A c \in Conns : Batch(c)' = Batch(c)
  BY <1>1 DEF Quiet, Batch
<1>4. Fetched' = Fetched
  BY <1>3 DEF Fetched
<1> USE <1>1, <1>2 DEF SInv, Quiet
<1>5. TaskInv'
  BY DEF TaskInv, Sound
<1>6. QueueInv'
  BY DEF QueueInv
<1>7. IdInv'
  BY <1>4 DEF IdInv
<1>8. BatchInv'
  BY <1>3 DEF BatchInv
<1>9. OrderInv'
  BY <1>3 DEF OrderInv
<1>10. HeldOnce'
  BY DEF HeldOnce
<1>11. NothingForgotten'
  <2>1. Held \ Held' \subseteq got' \cup lost'
    BY QuietSettles DEF Box!Settle
  <2>2. QED
    BY <2>1 DEF NothingForgotten
<1>12. QED
  BY <1>5, <1>6, <1>7, <1>8, <1>9, <1>10, <1>11

-----------------------------------------------------------------------------
(***************************************************************************)
(* Handler steps that write to the tables.                                 *)
(***************************************************************************)

\* A message that is not in the table is in nobody's hands and in no queue.
LEMMA UnstoredNotHeld ==
  ASSUME SInv, NEW m \in Msgs, m \notin stored
  PROVE  /\ \A g \in Handlers : Copies(m) \cap Owed(task[g]) = {}
         /\ Copies(m) \cap CopiesOf(pending) = {}
<1>1. ASSUME NEW g \in Handlers PROVE Copies(m) \cap Owed(task[g]) = {}
  <2>1. CASE task[g].pc \in Forwarding
    BY <2>1 DEF SInv, TaskInv, Sound, Copies
  <2>2. CASE task[g].pc \notin Forwarding
    BY <2>2 DEF Owed, Forwarding
  <2>3. QED
    BY <2>1, <2>2
<1>2. Copies(m) \cap CopiesOf(pending) = {}
  BY CopyOfRow DEF SInv, QueueInv, Copies
<1>3. QED
  BY <1>1, <1>2

LEMMA SaveSafe ==
  ASSUME SInv, TypeOK', NEW h \in Handlers, Save(h)
  PROVE  SInv' /\ \E m \in Msgs : Box!Accept(m)
<1> USE DEF SInv, Save, historyVars
<1> DEFINE m == task[h].msg
           t == Saved(h)
<1>1. m \in Msgs /\ m \notin stored
  BY TaskFields DEF TypeOK
<1>2. \A g \in Handlers : task'[g] = IF g = h THEN t ELSE task[g]
  BY GotoOne
<1>3. Owed(t) = Copies(m) /\ t.pc \in {"ack", "forward"} /\ t.msg = m
  BY SavedOwes
<1>4. \A c \in Conns : Batch(c)' = Batch(c)
  BY DEF Batch
<1>5. Fetched' = Fetched
  BY <1>4 DEF Fetched
<1>6. TaskInv'
  BY <1>2, <1>3 DEF TaskInv, Sound
<1>7. QueueInv'
  BY DEF QueueInv
<1>8. IdInv'
  BY <1>2, <1>3, <1>5 DEF IdInv
<1>9. BatchInv'
  BY <1>4 DEF BatchInv
<1>10. OrderInv'
  BY <1>4 DEF OrderInv
<1>11. HeldOnce'
  BY <1>1, <1>2, <1>3, UnstoredNotHeld DEF HeldOnce
<1>12. Owed(task[h]) = {}
  BY DEF Owed
<1>13. Held' = Held \cup Copies(m)
  BY <1>2, <1>3, <1>12, HeldBy, HeldByNext
<1>14. NothingForgotten'
  BY <1>13 DEF NothingForgotten
<1>15. Box!Accept(m)
  BY <1>1, <1>13 DEF Box!Accept, Box!Copies, Copies
<1>16. QED
  BY <1>1, <1>6, <1>7, <1>8, <1>9, <1>10, <1>11, <1>14, <1>15

LEMMA ReloadFailsSafe ==
  ASSUME SInv, TypeOK', NEW h \in Handlers, ReloadFails(h)
  PROVE  SInv' /\ \E m \in Msgs : Box!Accept(m)
<1> USE DEF SInv, ReloadFails
<1> DEFINE m == task[h].msg
<1>1. m \in Msgs /\ m \notin stored
  BY TaskFields DEF TypeOK
<1>2. \A g \in Handlers : task'[g] = IF g = h THEN IdleTask ELSE task[g]
  BY GotoOne
<1>3. Owed(IdleTask) = {} /\ Owed(task[h]) = {} /\ IdleTask.pc = "idle"
  BY DEF Owed, IdleTask
<1>4. \A c \in Conns : Batch(c)' = Batch(c)
  BY DEF Batch
<1>5. Fetched' = Fetched
  BY <1>4 DEF Fetched
<1>6. TaskInv'
  BY <1>2, <1>3 DEF TaskInv, Sound, Forwarding
<1>7. QueueInv'
  BY DEF QueueInv
<1>8. IdInv'
  BY <1>2, <1>3, <1>5 DEF IdInv
<1>9. BatchInv'
  BY <1>4 DEF BatchInv
<1>10. OrderInv'
  BY <1>4 DEF OrderInv
<1>11. HeldOnce'
  BY <1>2, <1>3 DEF HeldOnce
<1>12. Held' = Held
  BY <1>2, <1>3, HeldBy, HeldByNext
<1>13. NothingForgotten'
  BY <1>12 DEF NothingForgotten
<1>14. Box!Accept(m)
  <2>1. /\ {} \in SUBSET Copies(m)
        /\ Held' = Held \cup {}
        /\ lost' = lost \cup (Copies(m) \ {})
    BY <1>12
  <2>2. \E kept \in SUBSET Copies(m) : /\ Held' = Held \cup kept
                                      /\ lost' = lost \cup (Copies(m) \ kept)
    BY <2>1
  <2>3. QED
    BY <1>1, <2>2 DEF Box!Accept, Box!Copies, Copies
<1>15. QED
  BY <1>1, <1>6, <1>7, <1>8, <1>9, <1>10, <1>11, <1>13, <1>14

\* Taking created_at: the id is new.
LEMMA QueueSafe ==
  ASSUME SInv, TypeOK', NEW h \in Handlers, Queue(h)
  PROVE  SInv' /\ Box!Settle
<1> USE DEF SInv, Queue, dbVars, historyVars
<1> DEFINE t == [pc |-> "insert", msg |-> task[h].msg, todo |-> task[h].todo,
                 user |-> task[h].user, id |-> nextID]
<1>1. \A g \in Handlers : task'[g] = IF g = h THEN t ELSE task[g]
  BY GotoOne
<1>2. Owed(t) = Owed(task[h])
  BY DEF Owed
<1>3. \A c \in Conns : Batch(c)' = Batch(c)
  BY DEF Batch
<1>4. Fetched' = Fetched
  BY <1>3 DEF Fetched
<1>5. TaskInv'
  BY <1>1, <1>2 DEF TaskInv, Sound, Forwarding
<1>6. QueueInv'
  BY DEF QueueInv
<1>7. IdInv'
  <2>1. nextID \in Nat /\ \A r \in pending \cup Fetched : r.id \in Nat
    BY FlushFields DEF TypeOK, Rows, Fetched, Batch
  <2>2. \A g \in Handlers : task[g].pc = "insert" => task[g].id \in Nat
    BY TaskFields DEF TypeOK
  <2>3. t.id = nextID /\ nextID' = nextID + 1
    OBVIOUS
  <2>4. \A r \in pending \cup Fetched : r.id < nextID + 1 /\ r.id # nextID
    BY <2>1 DEF IdInv
  <2>5. \A g \in Handlers : task[g].pc = "insert" =>
          task[g].id < nextID + 1 /\ task[g].id # nextID
    BY <2>1, <2>2 DEF IdInv
  <2>6. ASSUME NEW g \in Handlers, task'[g].pc = "insert"
        PROVE  /\ task'[g].id < nextID'
               /\ \A r \in pending \cup Fetched :
                    r.id # task'[g].id /\ (r.by = g => r.id < task'[g].id)
               /\ \A k \in Handlers \ {g} :
                    task'[k].pc = "insert" => task'[k].id # task'[g].id
    <3>1. CASE g = h
      BY <1>1, <2>1, <2>3, <2>4, <2>5, <3>1 DEF IdInv
    <3>2. CASE g # h
      BY <1>1, <2>3, <2>5, <2>6, <3>2 DEF IdInv
    <3>3. QED
      BY <3>1, <3>2
  <2>7. QED
    BY <1>4, <2>3, <2>4, <2>6 DEF IdInv
<1>8. BatchInv'
  BY <1>3 DEF BatchInv
<1>9. OrderInv'
  BY <1>3 DEF OrderInv
<1>10. HeldOnce'
  BY <1>1, <1>2 DEF HeldOnce
<1>11. Held' = Held
  BY <1>1, <1>2, HeldBy, HeldByNext
<1>12. NothingForgotten'
  BY <1>11 DEF NothingForgotten
<1>13. Box!Settle
  BY <1>11 DEF Box!Settle
<1>14. QED
  BY <1>5, <1>6, <1>7, <1>8, <1>9, <1>10, <1>12, <1>13

\* Inserting the row: the copy changes hands.
LEMMA InsertSafe ==
  ASSUME SInv, TypeOK', NEW h \in Handlers, Insert(h)
  PROVE  SInv' /\ Box!Settle
<1> USE DEF SInv, Insert, historyVars
<1> DEFINE t    == Handed(h)
           copy == <<task[h].msg, task[h].user>>
           row  == NewRow(h)
<1>1. \A g \in Handlers : task'[g] = IF g = h THEN t ELSE task[g]
  BY GotoOne
<1>2. /\ task[h].msg \in stored
      /\ Owed(task[h]) = {task[h].msg} \X task[h].todo
      /\ Owed(task[h]) \subseteq Copies(task[h].msg)
      /\ task[h].user \in task[h].todo
  BY DEF TaskInv, Sound, Forwarding, Owed
<1>3. /\ Owed(t) = Owed(task[h]) \ {copy}
      /\ t.pc \in {"idle", "respond", "forward"}
      /\ t.pc = "forward" => t.msg = task[h].msg
  BY <1>2, HandedOwes
<1>4. /\ row.id = task[h].id /\ row.user = task[h].user /\ row.msg = task[h].msg
      /\ row.nextRetry = "null" /\ row.by = h
  BY DEF NewRow
<1>5. \A c \in Conns : Batch(c)' = Batch(c)
  BY DEF Batch
<1>6. Fetched' = Fetched
  BY <1>5 DEF Fetched
<1>7. CopiesOf(pending') = CopiesOf(pending) \cup {copy}
  BY <1>4, CopyOfRow
<1>8. TaskInv'
  BY <1>1, <1>2, <1>3 DEF TaskInv, Sound, Forwarding
<1>9. QueueInv'
  <2>1. IsFiniteSet(pending')
    BY FS_AddElement DEF QueueInv
  <2>2. copy \in Copies(task[h].msg)
    BY <1>2
  <2>3. QED
    BY <1>2, <1>4, <2>1, <2>2 DEF QueueInv
<1>10. IdInv'
  <2>1. /\ row.id < nextID
        /\ \A r \in pending \cup Fetched :
             r.id # row.id /\ (r.by = h => r.id < row.id)
    BY <1>4 DEF IdInv
  <2>2. /\ \A r \in pending' \cup Fetched' : r.id < nextID'
        /\ \A r \in pending', s \in pending' \cup Fetched' : r.id = s.id => r = s
    BY <1>6, <2>1 DEF IdInv
  <2>3. ASSUME NEW g \in Handlers, task'[g].pc = "insert"
        PROVE  /\ task'[g].id < nextID'
               /\ \A r \in pending' \cup Fetched' :
                    r.id # task'[g].id /\ (r.by = g => r.id < task'[g].id)
               /\ \A k \in Handlers \ {g} :
                    task'[k].pc = "insert" => task'[k].id # task'[g].id
    <3>1. g # h /\ task'[g] = task[g]
      BY <1>1, <1>3, <2>3
    <3>2. \A r \in pending \cup Fetched :
            r.id # task[g].id /\ (r.by = g => r.id < task[g].id)
      BY <2>3, <3>1 DEF IdInv
    <3>3. row.id # task[g].id /\ row.by # g
      BY <1>4, <2>3, <3>1 DEF IdInv
    <3>4. QED
      BY <1>1, <1>3, <1>6, <2>3, <3>1, <3>2, <3>3 DEF IdInv
  <2>4. QED
    BY <2>2, <2>3 DEF IdInv
<1>11. BatchInv'
  BY <1>5, <1>7 DEF BatchInv
<1>12. OrderInv'
  <2> SUFFICES ASSUME NEW c \in Conns, NEW r \in Batch(c), NEW s \in pending',
                      s.user = r.user, s.by = r.by, s.id < r.id
               PROVE  s \in Batch(c)
    BY <1>5 DEF OrderInv
  <2>1. CASE s \in pending
    BY <2>1 DEF OrderInv
  <2>2. CASE s = row
    <3>1. r \in Fetched
      BY DEF Fetched
    <3>2. r.by = h /\ r.id < task[h].id /\ r.id \in Nat /\ task[h].id \in Nat
      BY <1>4, <2>2, <3>1, TaskFields, FlushFields DEF IdInv, TypeOK, Rows, Batch
    <3>3. QED
      BY <1>4, <2>2, <3>2
  <2>3. QED
    BY <2>1, <2>2
<1>13. HeldOnce'
  <2>1. copy \in Owed(task[h])
    BY <1>2
  <2>2. \A g \in Handlers : g # h => copy \notin Owed(task[g])
    BY <2>1 DEF HeldOnce
  <2>3. copy \notin CopiesOf(pending)
    BY <2>1 DEF HeldOnce
  <2>4. \A g, k \in Handlers : g # k => Owed(task'[g]) \cap Owed(task'[k]) = {}
    BY <1>1, <1>3 DEF HeldOnce
  <2>5. \A g \in Handlers : Owed(task'[g]) \cap CopiesOf(pending') = {}
    BY <1>1, <1>3, <1>7, <2>2 DEF HeldOnce
  <2>6. \A r : CopiesOf({r}) = {<<r.msg, r.user>>}
    BY DEF CopiesOf
  <2>7. \A r \in pending : CopiesOf({r}) # CopiesOf({row})
    BY <1>4, <2>3, <2>6, CopyOfRow
  <2>8. \A r, s \in pending' : r # s => CopiesOf({r}) # CopiesOf({s})
    BY <2>7 DEF HeldOnce
  <2>9. QED
    BY <2>4, <2>5, <2>8 DEF HeldOnce
<1>14. Held' = Held
  <2>1. copy \in Owed(task[h])
    BY <1>2
  <2>2. QED
    BY <1>1, <1>3, <1>7, <2>1, HeldBy, HeldByNext
<1>15. NothingForgotten'
  BY <1>14 DEF NothingForgotten
<1>16. Box!Settle
  BY <1>14 DEF Box!Settle
<1>17. QED
  BY <1>8, <1>9, <1>10, <1>11, <1>12, <1>13, <1>15, <1>16

-----------------------------------------------------------------------------
(***************************************************************************)
(* Connections and flushes.                                                *)
(***************************************************************************)

\* A step that changes neither tables nor tasks, and at most ends batches.
Idling ==
  /\ UNCHANGED <<stored, pending, nextID, task, got, lost>>
  /\ \A c \in Conns : \/ flush'[c] = flush[c]
                      \/ flush'[c].pc \notin {"send", "delete"}

LEMMA IdlingSafe ==
  ASSUME SInv, TypeOK', Idling
  PROVE  SInv' /\ Box!Settle
<1> USE DEF SInv, Idling
<1>1. \A c \in Conns : \/ Batch(c)' = Batch(c) /\ flush'[c] = flush[c]
                       \/ Batch(c)' = {}
  BY DEF Batch
<1>2. Fetched' \subseteq Fetched
  BY <1>1 DEF Fetched
<1>3. TaskInv' /\ QueueInv'
  BY DEF TaskInv, QueueInv, Sound
<1>4. IdInv'
  BY <1>2 DEF IdInv
<1>5. BatchInv'
  BY <1>1 DEF BatchInv
<1>6. OrderInv'
  BY <1>1 DEF OrderInv
<1>7. Held' = Held
  BY HeldBy, HeldByNext
<1>8. HeldOnce' /\ NothingForgotten'
  BY <1>7 DEF HeldOnce, NothingForgotten
<1>9. Box!Settle
  BY <1>7 DEF Box!Settle
<1>10. QED
  BY <1>3, <1>4, <1>5, <1>6, <1>8, <1>9

LEMMA ConnectionIdles ==
  ASSUME SInv,
         \/ UNCHANGED vars
         \/ \E u \in Users : Evict(u)
         \/ \E c \in Conns : Connect(c) \/ Disconnect(c) \/ PeerLost(c)
  PROVE  Idling
<1> USE DEF SInv, TypeOK, dbVars, historyVars, Idling
<1>1. CASE UNCHANGED vars
  BY <1>1 DEF vars
<1>2. CASE \E u \in Users : Evict(u)
  BY <1>2 DEF Evict
<1>3. ASSUME NEW c \in Conns, Connect(c) \/ Disconnect(c) \/ PeerLost(c)
      PROVE  Idling
  BY <1>3 DEF Connect, Disconnect, PeerLost
<1>4. QED
  BY <1>1, <1>2, <1>3

LEMMA FlushIdles ==
  ASSUME SInv, NEW c \in Conns,
         \/ FlushLookup(c) \/ FlushFetchFails(c) \/ FlushSendFails(c)
         \/ FlushDeleteFails(c)
  PROVE  Idling
<1> USE DEF SInv, TypeOK, dbVars, historyVars, Idling, FlushGoto, IdleFlush
<1>1. CASE FlushLookup(c)
  BY <1>1 DEF FlushLookup
<1>2. CASE FlushFetchFails(c)
  BY <1>2 DEF FlushFetchFails
<1>3. CASE FlushSendFails(c)
  BY <1>3 DEF FlushSendFails
<1>4. CASE FlushDeleteFails(c)
  <2>1. More(flush[c].batch).pc \in {"start", "done"}
    BY DEF More
  <2>2. QED
    BY <1>4, <2>1 DEF FlushDeleteFails
<1>5. QED
  BY <1>1, <1>2, <1>3, <1>4

\* With a row, the fetched batch has every older row of the user.
LEMMA OldestIsDownClosed ==
  ASSUME TypeOK, IsFiniteSet(pending), NEW u \in Users,
         NEW r \in Oldest(u), NEW s \in pending, s.user = u, s.id < r.id
  PROVE  s \in Oldest(u)
<1> DEFINE Below(i) == {x \in RowsOf(u) : x.id < i}
<1>1. /\ RowsOf(u) \subseteq pending /\ s \in RowsOf(u) /\ r \in RowsOf(u)
      /\ \A x \in pending : x.id \in Nat
  BY DEF RowsOf, Oldest, TypeOK, Rows
<1>2. Below(s.id) \subseteq Below(r.id) /\ Below(r.id) \subseteq pending
  BY <1>1
<1>3. IsFiniteSet(Below(r.id)) /\ IsFiniteSet(Below(s.id))
  BY <1>2, FS_Subset
<1>4. /\ Cardinality(Below(s.id)) <= Cardinality(Below(r.id))
      /\ Cardinality(Below(s.id)) \in Nat /\ Cardinality(Below(r.id)) \in Nat
  BY <1>2, <1>3, FS_Subset, FS_CardinalityType
<1>5. Cardinality(Below(r.id)) < BatchSize
  BY DEF Oldest
<1>6. Cardinality(Below(s.id)) < BatchSize
  BY <1>4, <1>5, DeliveryAssumption
<1>7. QED
  BY <1>1, <1>6 DEF Oldest

LEMMA FlushFetchSafe ==
  ASSUME SInv, TypeOK', NEW c \in Conns, FlushFetch(c)
  PROVE  SInv' /\ Box!Settle
<1> USE DEF SInv, FlushFetch, dbVars, historyVars
<1> DEFINE u == OwnerOf[c]
<1>1. CASE RowsOf(u) = {}
  <2>1. Idling
    BY <1>1 DEF Idling, FlushGoto, TypeOK, IdleFlush
  <2>2. QED
    BY <2>1, IdlingSafe
<1>2. CASE RowsOf(u) # {}
  <2>1. /\ Batch(c)' = Oldest(u) /\ flush'[c].pc = "send"
        /\ \A k \in Conns \ {c} : Batch(k)' = Batch(k) /\ flush'[k] = flush[k]
    BY <1>2 DEF FlushGoto, TypeOK, Batch
  <2>2. Oldest(u) \subseteq pending /\ \A r \in Oldest(u) : r.user = u
    BY DEF Oldest, RowsOf
  <2>3. Fetched' \subseteq Fetched \cup pending
    BY <2>1, <2>2 DEF Fetched
  <2>4. TaskInv' /\ QueueInv'
    BY DEF TaskInv, QueueInv, Sound
  <2>5. IdInv'
    BY <2>3 DEF IdInv
  <2>6. BatchInv'
    <3>1. \A r \in Oldest(u) : <<r.msg, r.user>> \in CopiesOf(pending)
      BY <2>2, CopyOfRow
    <3>2. QED
      BY <2>1, <3>1 DEF BatchInv
  <2>7. OrderInv'
    <3>1. u \in Users
      BY DeliveryAssumption
    <3>2. \A r \in Oldest(u), s \in pending :
            (s.user = r.user /\ s.id < r.id) => s \in Oldest(u)
      BY <2>2, <3>1, OldestIsDownClosed DEF QueueInv
    <3>3. QED
      BY <2>1, <3>2 DEF OrderInv
  <2>8. Held' = Held
    BY HeldBy, HeldByNext
  <2>9. HeldOnce' /\ NothingForgotten' /\ Box!Settle
    BY <2>8 DEF HeldOnce, NothingForgotten, Box!Settle
  <2>10. QED
    BY <2>4, <2>5, <2>6, <2>7, <2>9
<1>3. QED
  BY <1>1, <1>2

\* Every copy of the batch has reached the user or is lost.
LEMMA FlushSendSafe ==
  ASSUME SInv, TypeOK', NEW c \in Conns, FlushSend(c)
  PROVE  SInv' /\ Box!Settle
<1> USE DEF SInv, FlushSend, dbVars
<1> DEFINE batch  == flush[c].batch
           copies == CopiesOf(batch)
<1>1. /\ Batch(c) = batch /\ flush'[c].pc = "delete"
      /\ \A k \in Conns : Batch(k)' = Batch(k)
      /\ \A k \in Conns \ {c} : flush'[k] = flush[k]
  BY DEF FlushGoto, TypeOK, Batch
<1>2. Fetched' = Fetched
  BY <1>1 DEF Fetched
<1>3. /\ got \subseteq got' /\ lost \subseteq lost'
      /\ copies \subseteq got' \cup lost'
      /\ got' \subseteq got \cup copies
      /\ lost' \subseteq lost \cup (copies \ got)
  OBVIOUS
<1>4. copies \subseteq CopiesOf(pending) \cup got \cup lost
  BY <1>1, CopyOfRow DEF BatchInv
<1>5. TaskInv' /\ QueueInv'
  BY DEF TaskInv, QueueInv, Sound
<1>6. IdInv'
  BY <1>2 DEF IdInv
<1>7. BatchInv'
  <2>1. \A r \in batch : <<r.msg, r.user>> \in copies
    BY CopyOfRow
  <2>2. QED
    BY <1>1, <1>3, <2>1 DEF BatchInv
<1>8. OrderInv'
  BY <1>1 DEF OrderInv
<1>9. Held' = Held
  BY HeldBy, HeldByNext
<1>10. HeldOnce' /\ NothingForgotten'
  BY <1>3, <1>9 DEF HeldOnce, NothingForgotten
<1>11. Box!Settle
  BY <1>3, <1>4, <1>9, HeldBy DEF Box!Settle
<1>12. QED
  BY <1>5, <1>6, <1>7, <1>8, <1>10, <1>11

\* Deleting by id removes rows of the batch, whose copies were delivered or
\* lost, and no row before an older one of the same sender.
Ordered ==
  \A r \in pending \ pending', s \in pending :
    (s.user = r.user /\ s.by = r.by /\ s.id < r.id) => s \notin pending'

LEMMA FlushDeleteSafe ==
  ASSUME SInv, TypeOK', NEW c \in Conns, FlushDelete(c)
  PROVE  SInv' /\ Box!Settle /\ Ordered
<1> USE DEF SInv, FlushDelete, historyVars
<1> DEFINE batch == flush[c].batch
<1>1. /\ Batch(c) = batch /\ Batch(c)' = {}
      /\ \A k \in Conns \ {c} : Batch(k)' = Batch(k) /\ flush'[k] = flush[k]
      /\ flush'[c].pc \in {"start", "done"}
  BY DEF FlushGoto, TypeOK, Batch, More, IdleFlush
<1>2. Fetched' \subseteq Fetched
  BY <1>1 DEF Fetched
<1>3. pending' \subseteq pending
  OBVIOUS
<1>4. \A r \in pending \ pending' : r \in batch
  <2> SUFFICES ASSUME NEW r \in pending \ pending' PROVE r \in batch
    OBVIOUS
  <2>1. PICK s \in batch : s.id = r.id
    OBVIOUS
  <2>2. s \in Fetched
    BY <1>1 DEF Fetched
  <2>3. QED
    BY <2>1, <2>2 DEF IdInv
<1>5. \A r \in pending \ pending' : <<r.msg, r.user>> \in got \cup lost
  BY <1>1, <1>4 DEF BatchInv
<1>6. CopiesOf(pending) \subseteq CopiesOf(pending') \cup got \cup lost
  BY <1>5, CopyOfRow
<1>7. CopiesOf(pending') \subseteq CopiesOf(pending)
  BY <1>3, CopyOfRow
<1>8. TaskInv'
  BY DEF TaskInv, Sound
<1>9. QueueInv'
  BY <1>3, FS_Subset DEF QueueInv
<1>10. IdInv'
  BY <1>2, <1>3 DEF IdInv
<1>11. BatchInv'
  BY <1>1, <1>6 DEF BatchInv
<1>12. OrderInv'
  BY <1>1, <1>3 DEF OrderInv
<1>13. HeldOnce'
  BY <1>3, <1>7 DEF HeldOnce
<1>14. Held' \subseteq Held /\ Held \subseteq Held' \cup got \cup lost
  BY <1>6, <1>7, HeldBy, HeldByNext
<1>15. NothingForgotten'
  BY <1>14 DEF NothingForgotten
<1>16. Box!Settle
  BY <1>14 DEF Box!Settle
<1>17. Ordered
  <2> SUFFICES ASSUME NEW r \in pending \ pending', NEW s \in pending,
                      s.user = r.user, s.by = r.by, s.id < r.id
               PROVE  s \notin pending'
    BY DEF Ordered
  <2>1. s \in batch
    BY <1>1, <1>4 DEF OrderInv
  <2>2. QED
    BY <2>1
<1>18. QED
  BY <1>8, <1>9, <1>10, <1>11, <1>12, <1>13, <1>15, <1>16, <1>17

-----------------------------------------------------------------------------
(***************************************************************************)
(* The retry worker and crashes.                                           *)
(***************************************************************************)

\* No row has a next_retry, so a pass of the retry worker changes nothing.
LEMMA RetryIdles == ASSUME SInv, RetryPass PROVE Idling
<1>1. Retryable = {}
  BY DEF SInv, QueueInv, Retryable
<1>2. \A rows : rows \in SUBSET {} => rows = {}
  OBVIOUS
<1>3. PICK due \in SUBSET Retryable :
        \E sent \in SUBSET {r \in due : /\ clients[r.user] # NoConn
                                        /\ WriteOK(clients[r.user])} :
          /\ pending' = (pending \ due) \cup
                          {[r EXCEPT !.attempts = @ + 1] : r \in due \ sent}
          /\ got'  = got \cup CopiesOf({r \in sent : Reaches(clients[r.user])})
          /\ lost' = lost \cup
                       (CopiesOf({r \in sent : ~Reaches(clients[r.user])}) \ got)
          /\ UNCHANGED <<clients, wire, task, flush, stored, nextID, crashes, acked>>
  BY DEF RetryPass
<1>4. due = {}
  BY <1>1, <1>2
<1>5. PICK sent \in SUBSET {} :
        /\ pending' = (pending \ due) \cup
                        {[r EXCEPT !.attempts = @ + 1] : r \in due \ sent}
        /\ got'  = got \cup CopiesOf({r \in sent : Reaches(clients[r.user])})
        /\ lost' = lost \cup
                     (CopiesOf({r \in sent : ~Reaches(clients[r.user])}) \ got)
        /\ UNCHANGED <<clients, wire, task, flush, stored, nextID, crashes, acked>>
  BY <1>3, <1>4
<1>6. CopiesOf({r \in sent : Reaches(clients[r.user])}) = {}
      /\ CopiesOf({r \in sent : ~Reaches(clients[r.user])}) = {}
  BY DEF CopiesOf
<1>7. {[r EXCEPT !.attempts = @ + 1] : r \in due \ sent} = {}
  BY <1>4
<1>8. pending' = pending /\ got' = got /\ lost' = lost
  BY <1>4, <1>5, <1>6, <1>7
<1>9. QED
  BY <1>5, <1>8 DEF Idling

\* A crash loses what the handlers had in hand, and nothing that is queued.
LEMMA CrashSafe ==
  ASSUME SInv, TypeOK', Crash
  PROVE  SInv' /\ Box!Settle
<1> USE DEF SInv, Crash, dbVars
<1>1. /\ \A h \in Handlers : task'[h] = IdleTask
      /\ \A c \in Conns : flush'[c] = IdleFlush
      /\ IdleTask.pc = "idle" /\ Owed(IdleTask) = {}
  BY OwedOf DEF IdleTask
<1>2. \A c \in Conns : Batch(c)' = {}
  BY <1>1 DEF Batch, IdleFlush
<1>3. Fetched' = {}
  BY <1>2 DEF Fetched
<1>4. TaskInv' /\ QueueInv'
  BY <1>1 DEF TaskInv, QueueInv, Sound, Forwarding
<1>5. IdInv'
  BY <1>1, <1>3 DEF IdInv
<1>6. BatchInv' /\ OrderInv'
  BY <1>2 DEF BatchInv, OrderInv
<1>7. HeldOnce'
  BY <1>1 DEF HeldOnce
<1>8. /\ lost \subseteq lost'
      /\ \A h \in Handlers : Owed(task[h]) \subseteq lost'
      /\ \A p \in lost' \ lost : \E h \in Handlers : p \in Owed(task[h])
  OBVIOUS
<1>9. /\ Held' \subseteq Held /\ Held \ Held' \subseteq lost'
      /\ lost' \ lost \subseteq Held
  BY <1>1, <1>8, HeldBy, HeldByNext
<1>10. NothingForgotten'
  BY <1>8, <1>9 DEF NothingForgotten
<1>11. Box!Settle
  BY <1>8, <1>9 DEF Box!Settle
<1>12. QED
  BY <1>4, <1>5, <1>6, <1>7, <1>10, <1>11

-----------------------------------------------------------------------------
(***************************************************************************)
(* The theorems.                                                           *)
(***************************************************************************)

LEMMA InitSafe == Init => SInv /\ Box!Init
<1> SUFFICES ASSUME Init PROVE SInv /\ Box!Init
  OBVIOUS
<1> USE DEF Init
<1>1. TypeOK
  BY InitTyped
<1>2. \A h \in Handlers : task[h].pc = "idle" /\ Owed(task[h]) = {}
  BY OwedOf DEF IdleTask
<1>3. \A c \in Conns : Batch(c) = {}
  BY DEF Batch, IdleFlush
<1>4. Fetched = {}
  BY <1>3 DEF Fetched
<1>5. TaskInv /\ QueueInv
  BY <1>2, FS_EmptySet DEF TaskInv, QueueInv, Sound, Forwarding
<1>6. IdInv /\ BatchInv /\ OrderInv
  BY <1>2, <1>3, <1>4 DEF IdInv, BatchInv, OrderInv
<1>7. Held = {} /\ CopiesOf(pending) = {}
  BY <1>2, HeldBy, CopyOfRow
<1>8. HeldOnce /\ NothingForgotten
  BY <1>2, <1>7 DEF HeldOnce, NothingForgotten
<1>9. Box!Init
  BY <1>7 DEF Box!Init
<1>10. QED
  BY <1>1, <1>5, <1>6, <1>8, <1>9 DEF SInv

\* A handler's step is quiet or writes to a table.
LEMMA HandlerSafe ==
  ASSUME SInv, TypeOK', NEW h \in Handlers,
         \/ \E m \in Msgs : Receive(h, m) \/ Request(h, m)
         \/ HandlerStep(h) \/ RequestStep(h)
  PROVE  SInv' /\ (Box!Settle \/ \E m \in Msgs : Box!Accept(m)) /\ pending \subseteq pending'
<1>1. CASE QuietStep(h)
  BY <1>1, QuietSafe, QuietSettles DEF QuietStep, Quiet
<1>2. CASE Save(h)
  BY <1>2, SaveSafe DEF Save
<1>3. CASE ReloadFails(h)
  BY <1>3, ReloadFailsSafe DEF ReloadFails
<1>4. CASE Queue(h)
  BY <1>4, QueueSafe DEF Queue
<1>5. CASE Insert(h)
  BY <1>5, InsertSafe DEF Insert
<1>6. QED
  BY <1>1, <1>2, <1>3, <1>4, <1>5, TakingInQuiet, ForwardingQuiet
     DEF HandlerStep, RequestStep, ForwardStep

LEMMA NextSafe ==
  ASSUME SInv, [Next]_vars
  PROVE  SInv' /\ [Box!Next]_(Box!mvars) /\ [Ordered]_vars
<1>1. TypeOK'
  BY NextTyped DEF SInv
<1>2. pending \subseteq pending' => Ordered
  BY DEF Ordered
<1>3. CASE Idling
  BY <1>1, <1>2, <1>3, IdlingSafe DEF Idling, Box!Next
<1>4. ASSUME NEW h \in Handlers,
             \/ \E m \in Msgs : Receive(h, m) \/ Request(h, m)
             \/ HandlerStep(h) \/ RequestStep(h)
      PROVE  SInv' /\ [Box!Next]_(Box!mvars) /\ [Ordered]_vars
  BY <1>1, <1>2, <1>4, HandlerSafe DEF Box!Next
<1>5. ASSUME NEW c \in Conns, FlushStep(c)
      PROVE  SInv' /\ [Box!Next]_(Box!mvars) /\ [Ordered]_vars
  <2>1. CASE FlushLookup(c) \/ FlushFetchFails(c) \/ FlushSendFails(c) \/ FlushDeleteFails(c)
    BY <1>3, <2>1, FlushIdles
  <2>2. CASE FlushFetch(c)
    BY <1>1, <1>2, <2>2, FlushFetchSafe DEF FlushFetch, dbVars, Box!Next
  <2>3. CASE FlushSend(c)
    BY <1>1, <1>2, <2>3, FlushSendSafe DEF FlushSend, dbVars, Box!Next
  <2>4. CASE FlushDelete(c)
    BY <1>1, <2>4, FlushDeleteSafe DEF Box!Next
  <2>5. QED
    BY <1>5, <2>1, <2>2, <2>3, <2>4 DEF FlushStep
<1>6. CASE RetryPass
  BY <1>3, <1>6, RetryIdles
<1>7. CASE Crash
  BY <1>1, <1>2, <1>7, CrashSafe DEF Crash, dbVars, Box!Next
<1>8. CASE \/ UNCHANGED vars
           \/ \E u \in Users : Evict(u)
           \/ \E c \in Conns : Connect(c) \/ Disconnect(c) \/ PeerLost(c)
  BY <1>3, <1>8, ConnectionIdles
<1>9. QED
  BY <1>4, <1>5, <1>6, <1>7, <1>8 DEF Next, Handlers

\* The inductive invariant holds throughout.
THEOREM DeliveryInvariant == Spec => []SInv
<1>1. SInv /\ [Next]_vars => SInv'
  BY NextSafe
<1>2. QED
  BY <1>1, InitSafe, PTL DEF Spec

\* However often a message is sent, and over however many connections and
\* requests, no copy of it is in two hands (HeldOnce).
THEOREM ForwardedOnce == Spec => []HeldOnce
<1>1. SInv => HeldOnce
  BY DEF SInv
<1>2. QED
  BY <1>1, DeliveryInvariant, PTL

\* The named losses are all there are (NothingForgotten).
THEOREM NoneForgotten == Spec => []NothingForgotten
<1>1. SInv => NothingForgotten
  BY DEF SInv
<1>2. QED
  BY <1>1, DeliveryInvariant, PTL

\* What one handler queues for a user leaves the queue in order, whatever
\* flushes overlap (OldestFirst).
THEOREM QueueInOrder == Spec => OldestFirst
<1>1. SInv /\ [Next]_vars => [Ordered]_vars
  BY NextSafe
<1>2. QED
  BY <1>1, DeliveryInvariant, PTL DEF Spec, OldestFirst, Ordered

\* Seen from outside the server is a mailbox (ImplementsMailbox): a message is
\* accepted once, and let go of when it is delivered or lost.
THEOREM DeliveryImplementsMailbox == Spec => ImplementsMailbox
<1>1. SInv /\ [Next]_vars => [Box!Next]_(Box!mvars)
  BY NextSafe
<1>2. Init => Box!Init
  BY InitSafe
<1>3. QED
  BY <1>1, <1>2, DeliveryInvariant, PTL DEF Spec, ImplementsMailbox, Box!Spec

-----------------------------------------------------------------------------
(***************************************************************************)
(* Who is to blame for a lost copy.                                        *)
(***************************************************************************)

Blamed(p) == Unreliable(p[1], p[2])

\* A handler works on the frame of a user whose socket is open, and writes to
\* connections of the recipient.
HandlerInv ==
  /\ \A c \in Conns : task[c].pc # "idle" =>
       wire[c] \in {"up", "lost"} /\ OwnerOf[c] = SenderOf[task[c].msg]
  /\ \A h \in Handlers :
       /\ task[h].pc = "write" => OwnerOf[task[h].conn] = task[h].user
       /\ task[h].pc = "respond" => task[h].msg \in stored

\* Connections are registered for, flushed to, and lost by their owners.
OwnerInv ==
  /\ \A u \in Users : clients[u] # NoConn => OwnerOf[clients[u]] = u
  /\ \A c \in Conns :
       /\ wire[c] = "lost" => OwnerOf[c] \in LossyUsers
       /\ flush[c].pc \in {"fetch", "send"} => OwnerOf[flush[c].conn] = OwnerOf[c]
       /\ flush[c].pc = "send" => \A r \in flush[c].batch : r.user = OwnerOf[c]

BlameInv == acked \subseteq stored /\ \A p \in lost : Blamed(p)

PeerInv == HandlerInv /\ OwnerInv /\ BlameInv

\* Crashes are not undone.
LEMMA BlameStays ==
  ASSUME TypeOK, TypeOK', crashes' >= crashes, NEW p, Blamed(p)
  PROVE  Blamed(p)'
  BY DeliveryAssumption DEF Blamed, Unreliable, TypeOK

\* A write that is accepted and does not arrive, or is refused on a connection
\* that a handler reads from, has met a peer that is gone.
LEMMA PeerGone ==
  ASSUME TypeOK, PeerInv, NEW c \in Conns
  PROVE  /\ WriteOK(c) /\ ~Reaches(c) => OwnerOf[c] \in LossyUsers
         /\ WriteError(c) /\ task[c].pc # "idle" => OwnerOf[c] \in LossyUsers
  BY DEF WriteOK, WriteError, Reaches, PeerInv, HandlerInv, OwnerInv

\* A handler goes on to t and does nothing that is against the invariant.
Careful(h, t) ==
  /\ Goto(h, t)
  /\ UNCHANGED <<wire, flush, crashes>>
  /\ \A u \in Users : clients'[u] \in {clients[u], NoConn}
  /\ stored \subseteq stored'
  /\ t.pc # "idle" /\ h \in Conns =>
       wire[h] \in {"up", "lost"} /\ OwnerOf[h] = SenderOf[t.msg]
  /\ t.pc = "write" => OwnerOf[t.conn] = t.user
  /\ t.pc = "respond" => t.msg \in stored'
  /\ acked' \subseteq stored'
  /\ \A p \in lost' \ lost : Blamed(p)

LEMMA CarefulSafe ==
  ASSUME TypeOK, TypeOK', PeerInv, NEW h \in Handlers, NEW t, Careful(h, t)
  PROVE  PeerInv'
<1> USE DEF Careful
<1>1. \A g \in Handlers : task'[g] = IF g = h THEN t ELSE task[g]
  BY GotoOne
<1>2. Conns \subseteq Handlers
  BY DEF Handlers
<1>3. HandlerInv'
  BY <1>1, <1>2 DEF PeerInv, HandlerInv
<1>4. OwnerInv'
  BY DEF PeerInv, OwnerInv
<1>5. \A p \in lost' : Blamed(p)
  BY DEF PeerInv, BlameInv
<1>6. crashes' >= crashes
  BY DeliveryAssumption DEF TypeOK
<1>7. BlameInv'
  BY <1>5, <1>6, BlameStays DEF BlameInv
<1>8. QED
  BY <1>3, <1>4, <1>7 DEF PeerInv

CarefulStep(h) == \E t : Careful(h, t)

LEMMA TakingInCareful ==
  ASSUME SInv, PeerInv, NEW h \in Handlers,
         \/ h \in Conns /\ \E m \in Msgs : Receive(h, m)
         \/ h \in Requests /\ \E m \in Msgs : Request(h, m)
         \/ Duplicate(h) \/ DuplicateRequest(h) \/ New(h) \/ RequestFails(h)
         \/ SaveFails(h) \/ Respond(h)
  PROVE  CarefulStep(h)
<1> USE DEF dbVars, historyVars, CarefulStep, Careful, PeerInv, BlameInv
<1>1. /\ IdleTask.pc = "idle"
      /\ h \in Conns /\ task[h].pc # "idle" =>
           wire[h] \in {"up", "lost"} /\ OwnerOf[h] = SenderOf[task[h].msg]
      /\ task[h].pc = "respond" => task[h].msg \in stored
  BY DEF HandlerInv, IdleTask
<1>2. ASSUME h \in Conns, NEW m \in Msgs, Receive(h, m) PROVE CarefulStep(h)
  BY <1>2 DEF Receive
<1>3. ASSUME h \in Requests, NEW m \in Msgs, Request(h, m) PROVE CarefulStep(h)
  <2>1. h \notin Conns
    BY <1>3, DeliveryAssumption
  <2>2. QED
    BY <1>3, <2>1 DEF Request
<1>4. CASE Duplicate(h)
  BY <1>1, <1>4 DEF Duplicate
<1>5. CASE DuplicateRequest(h)
  BY <1>1, <1>5 DEF DuplicateRequest
<1>6. CASE New(h)
  BY <1>1, <1>6 DEF New
<1>7. CASE RequestFails(h)
  BY <1>1, <1>7 DEF RequestFails
<1>8. CASE SaveFails(h)
  BY <1>1, <1>8 DEF SaveFails
<1>9. CASE Respond(h)
  BY <1>1, <1>9 DEF Respond
<1>10. QED
  BY <1>2, <1>3, <1>4, <1>5, <1>6, <1>7, <1>8, <1>9

\* What is left of a recipient after the handing over.
LEMMA HandedCareful ==
  ASSUME SInv, PeerInv, NEW h \in Handlers, task[h].pc \in {"write", "insert"}
  PROVE  /\ Handed(h).pc \in {"idle", "respond", "forward"}
         /\ Handed(h).pc # "idle" => Handed(h).msg = task[h].msg
         /\ task[h].msg \in stored
<1>1. Done(h, task[h].msg).pc # "idle" => Done(h, task[h].msg).msg = task[h].msg
  BY DEF Done, IdleTask
<1>2. QED
  BY <1>1, HandedOwes DEF Handed, SInv, TaskInv, Sound, Forwarding

LEMMA ForwardingCareful ==
  ASSUME SInv, PeerInv, NEW h \in Handlers,
         \/ \E u \in Users : Lookup(h, u)
         \/ h \in Conns /\ (Ack(h) \/ AckFails(h))
         \/ MembersFail(h) \/ Write(h) \/ WriteFails(h)
         \/ EvictRecipient(h) \/ Queue(h) \/ Insert(h) \/ InsertFails(h)
         \/ Save(h) \/ ReloadFails(h)
  PROVE  CarefulStep(h)
<1> USE DEF dbVars, historyVars, CarefulStep, Careful, PeerInv, BlameInv
<1>0. /\ TypeOK
      /\ IdleTask.pc = "idle"
      /\ h \in Conns /\ task[h].pc # "idle" =>
           wire[h] \in {"up", "lost"} /\ OwnerOf[h] = SenderOf[task[h].msg]
      /\ task[h].pc \in Forwarding => task[h].msg \in stored
      /\ task[h].pc = "ack" => Owed(task[h]) = Copies(task[h].msg)
      /\ task[h].pc = "write" => /\ OwnerOf[task[h].conn] = task[h].user
                                 /\ task[h].conn \in Conns
      /\ DBFails => \A p : Blamed(p)
  BY TaskFields DEF HandlerInv, IdleTask, SInv, TaskInv, Sound, TypeOK, Owed, Blamed, Unreliable
<1>1. ASSUME NEW u \in Users, Lookup(h, u) PROVE CarefulStep(h)
  <2>1. PICK t1 : /\ Goto(h, t1)
                  /\ t1.pc \in {"queue", "write"}
                  /\ t1.msg = task[h].msg
                  /\ t1.pc = "write" => OwnerOf[t1.conn] = t1.user
    BY <1>1 DEF Lookup, OwnerInv
  <2>2. QED
    BY <1>0, <1>1, <2>1 DEF Lookup
<1>2. CASE h \in Conns /\ Ack(h)
  <2>1. task[h].msg \in stored
    BY <1>0, <1>2 DEF Ack, Forwarding
  <2>2. acked' \subseteq stored
    BY <1>2, <2>1 DEF Ack
  <2>3. QED
    BY <1>0, <1>2, <2>2 DEF Ack
<1>3. CASE h \in Conns /\ AckFails(h)
  <2>1. OwnerOf[h] \in LossyUsers
    BY <1>0, <1>3, PeerGone DEF AckFails
  <2>2. \A p \in Owed(task[h]) : Blamed(p)
    BY <1>0, <1>3, <2>1 DEF AckFails, Copies, Blamed, Unreliable
  <2>3. QED
    BY <1>0, <1>3, <2>2 DEF AckFails
<1>4. CASE MembersFail(h)
  <2>1. /\ Done(h, task[h].msg).pc \in {"idle", "respond"}
        /\ Done(h, task[h].msg).pc # "idle" => Done(h, task[h].msg).msg = task[h].msg
    BY DEF Done, IdleTask
  <2>2. QED
    BY <1>0, <1>4, <2>1 DEF MembersFail, Forwarding
<1>5. CASE Write(h)
  <2> DEFINE copy == <<task[h].msg, task[h].user>>
  <2>1. ~Reaches(task[h].conn) => Blamed(copy)
    BY <1>0, <1>5, PeerGone DEF Write, Blamed, Unreliable
  <2>2. \A p \in lost' \ lost : Blamed(p)
    BY <1>5, <2>1 DEF Write
  <2>3. QED
    BY <1>0, <1>5, <2>2, HandedCareful DEF Write
<1>6. CASE WriteFails(h)
  BY <1>0, <1>6 DEF WriteFails
<1>7. CASE EvictRecipient(h)
  <2> DEFINE t1 == [task[h] EXCEPT !.pc = "queue"]
  <2>1. task[h] \in [pc : {"evict", "queue"}, msg : Msgs, todo : SUBSET Users, user : Users]
    BY <1>7 DEF EvictRecipient, SInv, TypeOK, Tasks, IdleTask
  <2>2. t1.pc = "queue" /\ t1.msg = task[h].msg /\ task[h].pc = "evict"
    BY <1>7, <2>1 DEF EvictRecipient
  <2>3. \A u \in Users : clients'[u] \in {clients[u], NoConn}
    BY <1>0, <1>7 DEF EvictRecipient, Unregister, TypeOK
  <2>4. QED
    BY <1>0, <1>7, <2>2, <2>3 DEF EvictRecipient
<1>8. CASE Queue(h)
  BY <1>0, <1>8 DEF Queue
<1>9. CASE Insert(h)
  BY <1>0, <1>9, HandedCareful DEF Insert
<1>10. CASE InsertFails(h)
  BY <1>0, <1>10, HandedCareful DEF InsertFails
<1>11. CASE Save(h)
  <2>1. Saved(h).pc \in {"ack", "forward"} /\ Saved(h).msg = task[h].msg
    BY SavedOwes
  <2>2. QED
    BY <1>0, <1>11, <2>1 DEF Save
<1>12. CASE ReloadFails(h)
  BY <1>0, <1>12 DEF ReloadFails
<1>13. QED
  BY <1>1, <1>2, <1>3, <1>4, <1>5, <1>6, <1>7, <1>8, <1>9, <1>10, <1>11, <1>12

LEMMA HandlerCareful ==
  ASSUME SInv, PeerInv, TypeOK', NEW h \in Handlers,
         \/ h \in Conns /\ (HandlerStep(h) \/ \E m \in Msgs : Receive(h, m))
         \/ h \in Requests /\ (RequestStep(h) \/ \E m \in Msgs : Request(h, m))
  PROVE  PeerInv'
<1>1. CarefulStep(h)
  BY TakingInCareful, ForwardingCareful DEF HandlerStep, RequestStep, ForwardStep
<1>2. QED
  BY <1>1, CarefulSafe DEF CarefulStep, SInv

LEMMA FlushCareful ==
  ASSUME SInv, PeerInv, TypeOK', NEW c \in Conns, FlushStep(c)
  PROVE  PeerInv'
<1> USE DeliveryAssumption DEF dbVars, historyVars, FlushGoto
<1>0. TypeOK
  BY DEF SInv
<1>1. /\ HandlerInv /\ OwnerInv /\ BlameInv
      /\ UNCHANGED <<clients, wire, task, stored, crashes, acked>>
  BY DEF PeerInv, FlushStep, FlushLookup, FlushFetch, FlushFetchFails, FlushSend,
         FlushSendFails, FlushDelete, FlushDeleteFails
<1>2. HandlerInv'
  BY <1>1 DEF HandlerInv
<1>3. PICK f : /\ flush' = [flush EXCEPT ![c] = f]
               /\ f.pc \in {"fetch", "send"} => OwnerOf[f.conn] = OwnerOf[c]
               /\ f.pc = "send" => \A r \in f.batch : r.user = OwnerOf[c]
  <2> DEFINE Good(f) == /\ f.pc \in {"fetch", "send"} => OwnerOf[f.conn] = OwnerOf[c]
                        /\ f.pc = "send" => \A r \in f.batch : r.user = OwnerOf[c]
  <2>1. IdleFlush.pc = "done" /\ \A batch : More(batch).pc \in {"start", "done"}
    BY DEF More, IdleFlush
  <2>2. CASE FlushLookup(c)
    <3>1. OwnerOf[c] \in Users
      OBVIOUS
    <3>2. clients[OwnerOf[c]] # NoConn
            => Good([pc |-> "fetch", conn |-> clients[OwnerOf[c]]])
      BY <1>1, <3>1 DEF OwnerInv
    <3>3. Good(IdleFlush)
      BY <2>1
    <3> HIDE DEF Good
    <3>4. \E f : FlushGoto(c, f) /\ Good(f)
      BY <2>2, <3>2, <3>3 DEF FlushLookup
    <3>5. QED
      BY <3>4 DEF Good
  <2>3. CASE FlushFetch(c)
    <3>1. flush[c].pc = "fetch"
      BY <2>3 DEF FlushFetch
    <3>2. Good([pc |-> "send", conn |-> flush[c].conn, batch |-> Oldest(OwnerOf[c])])
      BY <1>1, <3>1 DEF OwnerInv, Oldest, RowsOf
    <3>3. Good(IdleFlush)
      BY <2>1
    <3> HIDE DEF Good
    <3>4. \E f : FlushGoto(c, f) /\ Good(f)
      BY <2>3, <3>2, <3>3 DEF FlushFetch
    <3>5. QED
      BY <3>4 DEF Good
  <2>4. CASE FlushSend(c)
    <3>1. Good([pc |-> "delete", batch |-> flush[c].batch])
      OBVIOUS
    <3> HIDE DEF Good
    <3>2. \E f : FlushGoto(c, f) /\ Good(f)
      BY <2>4, <3>1 DEF FlushSend
    <3>3. QED
      BY <3>2 DEF Good
  <2>5. CASE FlushFetchFails(c) \/ FlushSendFails(c) \/ FlushDelete(c) \/ FlushDeleteFails(c)
    <3>1. \/ FlushGoto(c, IdleFlush)
          \/ FlushGoto(c, More(flush[c].batch))
      BY <2>5 DEF FlushFetchFails, FlushSendFails, FlushDelete, FlushDeleteFails
    <3>2. Good(IdleFlush) /\ Good(More(flush[c].batch))
      BY <2>1
    <3> HIDE DEF Good
    <3>3. \E f : FlushGoto(c, f) /\ Good(f)
      BY <3>1, <3>2
    <3>4. QED
      BY <3>3 DEF Good
  <2>6. QED
    BY <2>2, <2>3, <2>4, <2>5 DEF FlushStep
<1>4. \A k \in Conns : flush'[k] = IF k = c THEN f ELSE flush[k]
  BY <1>0, <1>3 DEF TypeOK
<1>5. OwnerInv'
  BY <1>1, <1>3, <1>4 DEF OwnerInv
<1>6. \A p \in lost' \ lost : Blamed(p)
  <2>1. CASE FlushSend(c)
    <3>1. flush[c].conn \in Conns /\ flush[c].pc = "send"
      BY <1>0, <2>1, FlushFields DEF TypeOK, FlushSend
    <3>2. CASE Reaches(flush[c].conn)
      BY <2>1, <3>2 DEF FlushSend
    <3>3. CASE ~Reaches(flush[c].conn)
      <4>1. OwnerOf[c] \in LossyUsers
        BY <1>0, <1>1, <2>1, <3>1, <3>3, PeerGone DEF FlushSend, OwnerInv
      <4>2. \A p \in CopiesOf(flush[c].batch) : Blamed(p)
        BY <1>1, <3>1, <4>1, CopyOfRow DEF OwnerInv, Blamed, Unreliable
      <4>3. QED
        BY <2>1, <4>2 DEF FlushSend
    <3>4. QED
      BY <3>2, <3>3
  <2>2. CASE ~FlushSend(c)
    BY <2>2 DEF FlushStep, FlushLookup, FlushFetch, FlushFetchFails,
                FlushSendFails, FlushDelete, FlushDeleteFails
  <2>3. QED
    BY <2>1, <2>2
<1>7. BlameInv'
  BY <1>0, <1>1, <1>6, BlameStays DEF BlameInv, TypeOK
<1>8. QED
  BY <1>2, <1>5, <1>7 DEF PeerInv

LEMMA ConnectionCareful ==
  ASSUME SInv, PeerInv, TypeOK',
         \/ \E u \in Users : Evict(u)
         \/ \E c \in Conns : Connect(c) \/ Disconnect(c) \/ PeerLost(c)
  PROVE  PeerInv'
<1> USE DeliveryAssumption DEF dbVars, historyVars
<1>0. /\ TypeOK /\ HandlerInv /\ OwnerInv /\ BlameInv
      /\ Conns \subseteq Handlers /\ IdleTask.pc = "idle"
      /\ \A h \in Handlers : task[h].pc = "idle" => task[h] = IdleTask
  BY TaskFields DEF SInv, PeerInv, Handlers, IdleTask, TypeOK
<1>1. UNCHANGED <<stored, crashes, acked, lost, task>>
  BY DEF Evict, Connect, Disconnect, PeerLost
<1>2. BlameInv'
  BY <1>0, <1>1, BlameStays DEF BlameInv, TypeOK
<1>3. ASSUME NEW u \in Users, Evict(u) PROVE HandlerInv' /\ OwnerInv'
  BY <1>0, <1>3 DEF Evict, Unregister, HandlerInv, OwnerInv, TypeOK
<1>4. ASSUME NEW c \in Conns, Connect(c) PROVE HandlerInv' /\ OwnerInv'
  <2>1. \A k \in Conns : /\ wire'[k] = IF k = c THEN "up" ELSE wire[k]
                         /\ flush'[k] = IF k = c THEN [pc |-> "start"] ELSE flush[k]
    BY <1>0, <1>4 DEF Connect, TypeOK
  <2>2. HandlerInv'
    BY <1>0, <1>4, <2>1 DEF Connect, HandlerInv
  <2>3. \A u \in Users : clients'[u] = IF u = OwnerOf[c] THEN c ELSE clients[u]
    BY <1>0, <1>4 DEF Connect, TypeOK
  <2>4. OwnerInv'
    BY <1>0, <2>1, <2>3 DEF OwnerInv
  <2>5. QED
    BY <2>2, <2>4
<1>5. ASSUME NEW c \in Conns, Disconnect(c) PROVE HandlerInv' /\ OwnerInv'
  BY <1>0, <1>5 DEF Disconnect, Unregister, HandlerInv, OwnerInv, TypeOK
<1>6. ASSUME NEW c \in Conns, PeerLost(c) PROVE HandlerInv' /\ OwnerInv'
  BY <1>0, <1>6 DEF PeerLost, HandlerInv, OwnerInv, TypeOK
<1>7. QED
  BY <1>2, <1>3, <1>4, <1>5, <1>6 DEF PeerInv

LEMMA CrashCareful ==
  ASSUME SInv, PeerInv, TypeOK', Crash
  PROVE  PeerInv'
<1> USE DeliveryAssumption DEF dbVars, historyVars
<1>0. /\ TypeOK /\ HandlerInv /\ OwnerInv /\ BlameInv
      /\ IdleTask.pc = "idle" /\ IdleFlush.pc = "done"
  BY DEF SInv, PeerInv, IdleTask, IdleFlush
<1>1. crashes' > 0
  BY <1>0 DEF Crash, TypeOK
<1>2. BlameInv'
  BY <1>0, <1>1 DEF Crash, BlameInv, Blamed, Unreliable
<1>3. HandlerInv'
  BY <1>0 DEF Crash, HandlerInv, Handlers
<1>4. OwnerInv'
  BY <1>0 DEF Crash, OwnerInv
<1>5. QED
  BY <1>2, <1>3, <1>4 DEF PeerInv

LEMMA InitCareful == Init => PeerInv
<1> SUFFICES ASSUME Init PROVE PeerInv
  OBVIOUS
<1>1. IdleTask.pc = "idle" /\ IdleFlush.pc = "done" /\ Conns \subseteq Handlers
  BY DEF IdleTask, IdleFlush, Handlers
<1>2. HandlerInv /\ OwnerInv /\ BlameInv
  BY <1>1 DEF Init, HandlerInv, OwnerInv, BlameInv
<1>3. QED
  BY <1>2 DEF PeerInv

LEMMA NextCareful ==
  ASSUME SInv, PeerInv, [Next]_vars
  PROVE  PeerInv'
<1>1. TypeOK'
  BY NextTyped DEF SInv
<1>2. CASE Idling /\ UNCHANGED <<clients, wire, task, flush, stored, crashes, acked, lost>>
  BY <1>1, <1>2, BlameStays, DeliveryAssumption
     DEF PeerInv, HandlerInv, OwnerInv, BlameInv, SInv, TypeOK, Blamed, Unreliable
<1>3. CASE UNCHANGED vars
  BY <1>3 DEF vars, PeerInv, HandlerInv, OwnerInv, BlameInv, Blamed, Unreliable
<1>4. CASE RetryPass
  BY <1>2, <1>4, RetryIdles DEF Idling, RetryPass
<1>5. CASE Crash
  BY <1>1, <1>5, CrashCareful
<1>6. CASE \/ \E u \in Users : Evict(u)
           \/ \E c \in Conns : Connect(c) \/ Disconnect(c) \/ PeerLost(c)
  BY <1>1, <1>6, ConnectionCareful
<1>7. ASSUME NEW c \in Conns, HandlerStep(c) \/ \E m \in Msgs : Receive(c, m)
      PROVE  PeerInv'
  BY <1>1, <1>7, HandlerCareful DEF Handlers
<1>8. ASSUME NEW q \in Requests, RequestStep(q) \/ \E m \in Msgs : Request(q, m)
      PROVE  PeerInv'
  BY <1>1, <1>8, HandlerCareful DEF Handlers
<1>9. ASSUME NEW c \in Conns, FlushStep(c) PROVE PeerInv'
  BY <1>1, <1>9, FlushCareful
<1>10. QED
  BY <1>3, <1>4, <1>5, <1>6, <1>7, <1>8, <1>9 DEF Next

LEMMA PeersBlamed == Spec => [](SInv /\ PeerInv)
<1>1. SInv /\ PeerInv /\ [Next]_vars => PeerInv'
  BY NextCareful
<1>2. QED
  BY <1>1, InitCareful, DeliveryInvariant, PTL DEF Spec

LEMMA BlamedKeeps == SInv /\ PeerInv => AckedKept
<1> SUFFICES ASSUME SInv, PeerInv,
                    NEW m \in acked, NEW u \in RecipientsOf[m],
                    <<m, u>> \notin Held \cup got
             PROVE  Unreliable(m, u)
  BY DEF AckedKept
<1>1. <<m, u>> \in Copies(m) /\ m \in stored
  BY DEF Copies, PeerInv, BlameInv
<1>2. <<m, u>> \in lost
  BY <1>1 DEF SInv, NothingForgotten
<1>3. QED
  BY <1>2 DEF PeerInv, BlameInv, Blamed

\* What is acknowledged is kept for every recipient, unless the database fails,
\* the process dies, or the sender's or that recipient's peer vanishes
\* (AckedKept).
THEOREM AcknowledgedKept == Spec => []AckedKept
<1>1. QED
  BY PeersBlamed, BlamedKeeps, PTL

\* The promise of the documents (AckedNotLost) is kept in a world without
\* crashes, database errors and vanishing peers, where every interleaving of
\* handlers, flushes, evictions and reconnects is left.
THEOREM KeptInFairWeather ==
  ASSUME ~DBFails, LossyUsers = {}, MaxCrashes = 0
  PROVE  Spec => []AckedNotLost
<1>1. SInv /\ PeerInv => AckedNotLost
  <2> SUFFICES ASSUME SInv, PeerInv, NEW m \in acked, NEW p \in Copies(m)
               PROVE  p \in Held \cup got
    BY DEF AckedNotLost
  <2>1. PICK u \in RecipientsOf[m] : p = <<m, u>>
    BY DEF Copies
  <2>2. crashes = 0
    BY DEF SInv, TypeOK
  <2>3. ~Unreliable(m, u)
    BY <2>2 DEF Unreliable
  <2>4. QED
    BY <2>1, <2>3, BlamedKeeps DEF AckedKept
<1>2. QED
  BY <1>1, PeersBlamed, PTL

=============================================================================
