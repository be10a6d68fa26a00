------------------------------ MODULE Delivery ------------------------------
(***************************************************************************)
(* From a chat frame to the recipient: MessageChat.Process                 *)
(* (internal/handlers/ws/messages.go), its REST sibling SendGroupMessage   *)
(* (internal/handlers/message_handler.go), Hub.SendToUserWithID,           *)
(* queueMessage, FlushPendingMessages and retryWorker                      *)
(* (internal/handlers/ws/hub.go), and the pending_messages table           *)
(* (internal/repository/pending_message_repository.go).                    *)
(*                                                                         *)
(* A connection has a handler goroutine, which processes one frame at a    *)
(* time, and a flush goroutine started when it opens; a REST request has a *)
(* handler goroutine.  Every database statement, socket write and critical *)
(* section of the hub is one step.                                         *)
(* The registry is used through Register and Unregister; module Hub models *)
(* the goroutines that call Unregister, here any of them may at any time.  *)
(* A message stands for one (client_id, sender) pair, so a frame a client  *)
(* sends again is the same message.                                        *)
(***************************************************************************)
EXTENDS Naturals, FiniteSets

CONSTANTS
  Users, Msgs,
  Conns, NoConn,   \* the connections ever opened, and none of them
  OwnerOf,         \* the user who opens a connection
  Requests,        \* the REST requests in flight
  SenderOf,        \* the user who sends a message
  RecipientsOf,    \* the recipient, or the other members of the group
  GroupMsgs,       \* the messages to a group
  BatchSize,       \* the limit of one flush
  LossyUsers,      \* the users whose peers may vanish
  DBFails,         \* a database statement may fail
  MaxCrashes       \* bound: how often the process dies

ASSUME DeliveryAssumption ==
  /\ NoConn \notin Conns
  /\ Requests \cap Conns = {}
  /\ OwnerOf \in [Conns -> Users]
  /\ SenderOf \in [Msgs -> Users]
  /\ RecipientsOf \in [Msgs -> (SUBSET Users) \ {{}}]
  /\ GroupMsgs \subseteq Msgs
  /\ BatchSize \in Nat \ {0}
  /\ LossyUsers \subseteq Users
  /\ DBFails \in BOOLEAN
  /\ MaxCrashes \in Nat

VARIABLES
  clients,   \* Hub.clients
  wire,      \* the socket of each connection
  task,      \* MessageChat.Process or SendGroupMessage on each handler
  flush,     \* FlushPendingMessages on each connection's flush goroutine
  stored,    \* table messages
  pending,   \* table pending_messages
  nextID,    \* its next id, and the clock
  crashes,   \* how often the process has died
  acked,     \* history: messages whose sender has got an ACK
  got,       \* history: copies <<m, u>> that reached their recipient
  lost       \* history: copies dropped with nothing left to deliver them

dbVars == <<stored, pending, nextID>>
historyVars == <<acked, got, lost>>
vars == <<clients, wire, task, flush, stored, pending, nextID, crashes, acked,
          got, lost>>

\* The goroutines that run a handler: one per connection, one per request.
Handlers == Conns \cup Requests

\* A row of pending_messages.  The id stands for created_at too: rows are told
\* apart by the one and ordered by the other, and nothing else is done with
\* them.  The priority is 0 in every call; next_retry is only compared with
\* NULL and with the time.  By is history: whose handler queued the row.
Rows == [id : Nat, user : Users, msg : Msgs, attempts : Nat,
         nextRetry : {"null", "set"}, by : Handlers]

Pairs == Msgs \X Users
Copies(m) == {m} \X RecipientsOf[m]
CopiesOf(rows) == {<<r.msg, r.user>> : r \in rows}

IdleTask  == [pc |-> "idle"]
IdleFlush == [pc |-> "done"]

Tasks ==
  {IdleTask}
    \cup [pc : {"dedup", "save", "ack", "respond"}, msg : Msgs]
    \cup [pc : {"forward"}, msg : Msgs, todo : SUBSET Users]
    \cup [pc : {"write"}, msg : Msgs, todo : SUBSET Users, user : Users, conn : Conns]
    \cup [pc : {"evict", "queue"}, msg : Msgs, todo : SUBSET Users, user : Users]
    \cup [pc : {"insert"}, msg : Msgs, todo : SUBSET Users, user : Users, id : Nat]

Flushes ==
  {IdleFlush, [pc |-> "start"]}
    \cup [pc : {"fetch"}, conn : Conns]
    \cup [pc : {"send"}, conn : Conns, batch : SUBSET Rows]
    \cup [pc : {"delete"}, batch : SUBSET Rows]

TypeOK ==
  /\ clients \in [Users -> Conns \cup {NoConn}]
  /\ wire    \in [Conns -> {"none", "up", "lost", "closed"}]
  /\ task    \in [Handlers -> Tasks]
  /\ flush   \in [Conns -> Flushes]
  /\ stored  \in SUBSET Msgs
  /\ pending \in SUBSET Rows
  /\ nextID  \in Nat
  /\ crashes \in 0 .. MaxCrashes
  /\ acked   \in SUBSET Msgs
  /\ got     \in SUBSET Pairs
  /\ lost    \in SUBSET Pairs

Init ==
  /\ clients = [u \in Users |-> NoConn]
  /\ wire    = [c \in Conns |-> "none"]
  /\ task    = [h \in Handlers |-> IdleTask]
  /\ flush   = [c \in Conns |-> IdleFlush]
  /\ stored  = {} /\ pending = {} /\ nextID = 1 /\ crashes = 0
  /\ acked   = {} /\ got = {} /\ lost = {}

\* Outcomes of a socket write: accepted by the kernel, or an error.  What is
\* accepted reaches the peer only if the peer is still there.
WriteOK(c)    == wire[c] \in {"up", "lost"}
WriteError(c) == wire[c] \in {"lost", "closed"}
Reaches(c)    == wire[c] = "up"

Unregister(u) == clients' = [clients EXCEPT ![u] = NoConn]

-----------------------------------------------------------------------------
(***************************************************************************)
(* Connections.                                                            *)
(***************************************************************************)

\* HandleWebSocket: Register, and start the flush goroutine.
Connect(c) ==
  /\ wire[c] = "none"
  /\ wire'    = [wire EXCEPT ![c] = "up"]
  /\ clients' = [clients EXCEPT ![OwnerOf[c]] = c]
  /\ flush'   = [flush EXCEPT ![c] = [pc |-> "start"]]
  /\ UNCHANGED <<task, crashes>> /\ UNCHANGED dbVars /\ UNCHANGED historyVars

\* The read loop ends, between two frames: the deferred Unregister, and the
\* socket is closed.
Disconnect(c) ==
  /\ wire[c] \in {"up", "lost"}
  /\ task[c] = IdleTask
  /\ Unregister(OwnerOf[c])
  /\ wire' = [wire EXCEPT ![c] = "closed"]
  /\ UNCHANGED <<task, flush, crashes>> /\ UNCHANGED dbVars /\ UNCHANGED historyVars

\* A ping routine or the health checker unregisters a user.
Evict(u) ==
  /\ clients[u] # NoConn
  /\ Unregister(u)
  /\ UNCHANGED <<wire, task, flush, crashes>> /\ UNCHANGED dbVars /\ UNCHANGED historyVars

\* The peer vanishes and the server has not noticed.
PeerLost(c) ==
  /\ wire[c] = "up"
  /\ OwnerOf[c] \in LossyUsers
  /\ wire' = [wire EXCEPT ![c] = "lost"]
  /\ UNCHANGED <<clients, task, flush, crashes>> /\ UNCHANGED dbVars /\ UNCHANGED historyVars

-----------------------------------------------------------------------------
(***************************************************************************)
(* MessageChat.Process and SendGroupMessage: take the message in.          *)
(***************************************************************************)

\* The copies a handler has yet to hand over.
Owed(t) == IF t.pc = "ack" THEN Copies(t.msg)
           ELSE IF t.pc \in {"forward", "write", "evict", "queue", "insert"}
                THEN {t.msg} \X t.todo
                ELSE {}

Goto(h, t) == task' = [task EXCEPT ![h] = t]

\* A well-formed chat frame arrives.  A client sends a message again until it
\* has an ACK for it.
Receive(c, m) ==
  /\ task[c] = IdleTask
  /\ wire[c] = "up"
  /\ OwnerOf[c] = SenderOf[m]
  /\ m \notin acked
  /\ Goto(c, [pc |-> "dedup", msg |-> m])
  /\ UNCHANGED <<clients, wire, flush, crashes>> /\ UNCHANGED dbVars /\ UNCHANGED historyVars

\* A well-formed request to send a message to a group.
Request(q, m) ==
  /\ task[q] = IdleTask
  /\ m \in GroupMsgs \ acked
  /\ Goto(q, [pc |-> "dedup", msg |-> m])
  /\ UNCHANGED <<clients, wire, flush, crashes>> /\ UNCHANGED dbVars /\ UNCHANGED historyVars

\* GetByClientID finds the message: the ACK is written again, and that is all.
Duplicate(c) ==
  /\ task[c].pc = "dedup"
  /\ task[c].msg \in stored
  /\ Goto(c, IdleTask)
  /\ acked' = IF Reaches(c) THEN acked \cup {task[c].msg} ELSE acked
  /\ UNCHANGED <<clients, wire, flush, crashes, got, lost>> /\ UNCHANGED dbVars

\* The same for a request, which is answered with the message it finds.
DuplicateRequest(q) ==
  /\ task[q].pc = "dedup"
  /\ task[q].msg \in stored
  /\ Goto(q, [pc |-> "respond", msg |-> task[q].msg])
  /\ UNCHANGED <<clients, wire, flush, crashes>> /\ UNCHANGED dbVars /\ UNCHANGED historyVars

\* GetByClientID finds nothing.  For a frame an error counts as nothing.
New(h) ==
  /\ task[h].pc = "dedup"
  /\ task[h].msg \notin stored \/ (DBFails /\ h \in Conns)
  /\ Goto(h, [pc |-> "save", msg |-> task[h].msg])
  /\ UNCHANGED <<clients, wire, flush, crashes>> /\ UNCHANGED dbVars /\ UNCHANGED historyVars

\* For a request an error is an error: get_message_failed.
RequestFails(q) ==
  /\ task[q].pc = "dedup"
  /\ DBFails
  /\ Goto(q, IdleTask)
  /\ UNCHANGED <<clients, wire, flush, crashes>> /\ UNCHANGED dbVars /\ UNCHANGED historyVars

\* What comes after the insert: for a frame the ACK, for a request the
\* members (GetGroupMembers).
Saved(h) ==
  IF h \in Conns THEN [pc |-> "ack", msg |-> task[h].msg]
  ELSE [pc |-> "forward", msg |-> task[h].msg, todo |-> RecipientsOf[task[h].msg]]

\* A table without the unique index on (client_id, sender_id).
SaveAlways(h) ==
  /\ task[h].pc = "save"
  /\ stored' = stored \cup {task[h].msg}
  /\ Goto(h, Saved(h))
  /\ UNCHANGED <<clients, wire, flush, pending, nextID, crashes>> /\ UNCHANGED historyVars

\* CreateWithClientIDAndType inserts the row and reads it back.
Save(h) ==
  /\ task[h].pc = "save"
  /\ task[h].msg \notin stored
  /\ stored' = stored \cup {task[h].msg}
  /\ Goto(h, Saved(h))
  /\ UNCHANGED <<clients, wire, flush, pending, nextID, crashes>> /\ UNCHANGED historyVars

\* The insert fails, on the unique index or otherwise: save_failed.
SaveFails(h) ==
  /\ task[h].pc = "save"
  /\ task[h].msg \in stored \/ DBFails
  /\ Goto(h, IdleTask)
  /\ UNCHANGED <<clients, wire, flush, crashes>> /\ UNCHANGED dbVars /\ UNCHANGED historyVars

\* The insert succeeds and reading it back fails: save_failed too, for a
\* message that is in the table.
ReloadFails(h) ==
  /\ task[h].pc = "save"
  /\ DBFails
  /\ task[h].msg \notin stored
  /\ stored' = stored \cup {task[h].msg}
  /\ lost'   = lost \cup Copies(task[h].msg)
  /\ Goto(h, IdleTask)
  /\ UNCHANGED <<clients, wire, flush, pending, nextID, crashes, acked, got>>

\* The ACK is written, and the recipients are known: the one of a direct
\* message, or the members of the group (GetGroupMembers).
Ack(c) ==
  /\ task[c].pc = "ack"
  /\ WriteOK(c)
  /\ acked' = IF Reaches(c) THEN acked \cup {task[c].msg} ELSE acked
  /\ Goto(c, [pc |-> "forward", msg |-> task[c].msg,
              todo |-> RecipientsOf[task[c].msg]])
  /\ UNCHANGED <<clients, wire, flush, crashes, got, lost>> /\ UNCHANGED dbVars

\* The ACK cannot be written: Process returns the error and forwards nothing.
AckFails(c) ==
  /\ task[c].pc = "ack"
  /\ WriteError(c)
  /\ lost' = lost \cup Owed(task[c])
  /\ Goto(c, IdleTask)
  /\ UNCHANGED <<clients, wire, flush, crashes, acked, got>> /\ UNCHANGED dbVars

\* A request is answered after the message has been forwarded; the answer may
\* not arrive.
Respond(q) ==
  /\ task[q].pc = "respond"
  /\ acked' \in {acked, acked \cup {task[q].msg}}
  /\ Goto(q, IdleTask)
  /\ UNCHANGED <<clients, wire, flush, crashes, got, lost>> /\ UNCHANGED dbVars

\* Nothing is left to forward.
Done(h, m) == IF h \in Conns THEN IdleTask ELSE [pc |-> "respond", msg |-> m]

\* GetGroupMembers fails: the error is ignored, and so is the group.
MembersFail(h) ==
  /\ task[h].pc = "forward"
  /\ DBFails
  /\ task[h].msg \in GroupMsgs
  /\ task[h].todo = RecipientsOf[task[h].msg]
  /\ lost' = lost \cup Owed(task[h])
  /\ Goto(h, Done(h, task[h].msg))
  /\ UNCHANGED <<clients, wire, flush, crashes, acked, got>> /\ UNCHANGED dbVars

-----------------------------------------------------------------------------
(***************************************************************************)
(* SendToUserWithID, called once for each recipient.                       *)
(***************************************************************************)

\* A loop over the members that returns after the first.
HandedOnce(h) == Done(h, task[h].msg)

\* A loop over the members that does not let go of the last connection.
HandedStale(h) ==
  IF task[h].todo = {task[h].user} THEN Done(h, task[h].msg)
  ELSE [task[h] EXCEPT !.pc = "forward", !.todo = @ \ {task[h].user}]

\* The recipient is done with: on to the next one, or return.
Handed(h) ==
  LET rest == task[h].todo \ {task[h].user}
  IN  IF rest = {} THEN Done(h, task[h].msg)
      ELSE [pc |-> "forward", msg |-> task[h].msg, todo |-> rest]

\* The lookup, under the read lock.
Lookup(h, u) ==
  /\ task[h].pc = "forward"
  /\ u \in task[h].todo
  /\ \/ /\ clients[u] = NoConn
        /\ Goto(h, [pc |-> "queue", msg |-> task[h].msg, todo |-> task[h].todo,
                    user |-> u])
     \/ /\ clients[u] # NoConn
        /\ Goto(h, [pc |-> "write", msg |-> task[h].msg, todo |-> task[h].todo,
                    user |-> u, conn |-> clients[u]])
  /\ UNCHANGED <<clients, wire, flush, crashes>> /\ UNCHANGED dbVars /\ UNCHANGED historyVars

\* The write, without the lock, on the connection looked up before.
Write(h) ==
  /\ task[h].pc = "write"
  /\ LET t == task[h]
         copy == {<<t.msg, t.user>>}
     IN  /\ WriteOK(t.conn)
         /\ got'  = IF Reaches(t.conn) THEN got \cup copy ELSE got
         /\ lost' = IF Reaches(t.conn) THEN lost ELSE lost \cup copy
         /\ Goto(h, Handed(h))
  /\ UNCHANGED <<clients, wire, flush, crashes, acked>> /\ UNCHANGED dbVars

WriteFails(h) ==
  /\ task[h].pc = "write"
  /\ WriteError(task[h].conn)
  /\ Goto(h, [pc |-> "evict", msg |-> task[h].msg, todo |-> task[h].todo,
              user |-> task[h].user])
  /\ UNCHANGED <<clients, wire, flush, crashes>> /\ UNCHANGED dbVars /\ UNCHANGED historyVars

\* Unregister(userID) after a failed write.
EvictRecipient(h) ==
  /\ task[h].pc = "evict"
  /\ Unregister(task[h].user)
  /\ Goto(h, [task[h] EXCEPT !.pc = "queue"])
  /\ UNCHANGED <<wire, flush, crashes>> /\ UNCHANGED dbVars /\ UNCHANGED historyVars

\* queueMessage and Enqueue: the row gets its created_at.  A chat message
\* always has an ID and is not of an ephemeral type, so it is always queued.
Queue(h) ==
  /\ task[h].pc = "queue"
  /\ nextID' = nextID + 1
  /\ Goto(h, [pc |-> "insert", msg |-> task[h].msg, todo |-> task[h].todo,
              user |-> task[h].user, id |-> nextID])
  /\ UNCHANGED <<clients, wire, flush, stored, pending, crashes>> /\ UNCHANGED historyVars

\* The row is inserted, with next_retry left NULL.
NewRow(h) == [id |-> task[h].id, user |-> task[h].user, msg |-> task[h].msg,
              attempts |-> 0, nextRetry |-> "null", by |-> h]

Insert(h) ==
  /\ task[h].pc = "insert"
  /\ pending' = pending \cup {NewRow(h)}
  /\ Goto(h, Handed(h))
  /\ UNCHANGED <<clients, wire, flush, stored, nextID, crashes>> /\ UNCHANGED historyVars

\* Enqueue fails: the error is returned and nobody looks at it.
InsertFails(h) ==
  /\ task[h].pc = "insert"
  /\ DBFails
  /\ lost' = lost \cup {<<task[h].msg, task[h].user>>}
  /\ Goto(h, Handed(h))
  /\ UNCHANGED <<clients, wire, flush, crashes, acked, got>> /\ UNCHANGED dbVars

-----------------------------------------------------------------------------
(***************************************************************************)
(* FlushPendingMessages.                                                   *)
(***************************************************************************)

FlushGoto(c, f) == flush' = [flush EXCEPT ![c] = f]

\* Look up the connection registered for the user: perhaps not c any more.
FlushLookup(c) ==
  /\ flush[c].pc = "start"
  /\ FlushGoto(c, IF clients[OwnerOf[c]] = NoConn THEN IdleFlush
                  ELSE [pc |-> "fetch", conn |-> clients[OwnerOf[c]]])
  /\ UNCHANGED <<clients, wire, task, crashes>> /\ UNCHANGED dbVars /\ UNCHANGED historyVars

RowsOf(u) == {r \in pending : r.user = u}

\* The newest rows instead.
Newest(u) ==
  {r \in RowsOf(u) : Cardinality({s \in RowsOf(u) : s.id > r.id}) < BatchSize}

\* GetPendingForUser: the oldest rows of the user, at most BatchSize.
Oldest(u) ==
  {r \in RowsOf(u) : Cardinality({s \in RowsOf(u) : s.id < r.id}) < BatchSize}

FlushFetch(c) ==
  /\ flush[c].pc = "fetch"
  /\ FlushGoto(c, IF RowsOf(OwnerOf[c]) = {} THEN IdleFlush
                  ELSE [pc |-> "send", conn |-> flush[c].conn,
                        batch |-> Oldest(OwnerOf[c])])
  /\ UNCHANGED <<clients, wire, task, crashes>> /\ UNCHANGED dbVars /\ UNCHANGED historyVars

FlushFetchFails(c) ==
  /\ flush[c].pc = "fetch"
  /\ DBFails
  /\ FlushGoto(c, IdleFlush)
  /\ UNCHANGED <<clients, wire, task, crashes>> /\ UNCHANGED dbVars /\ UNCHANGED historyVars

\* A flush that removes what it could not send.
SendOrNot(c) ==
  /\ flush[c].pc = "send"
  /\ LET copies == CopiesOf(flush[c].batch)
     IN  got' = IF Reaches(flush[c].conn) THEN got \cup copies ELSE got
  /\ FlushGoto(c, [pc |-> "delete", batch |-> flush[c].batch])
  /\ UNCHANGED <<clients, wire, task, crashes, acked, lost>> /\ UNCHANGED dbVars

\* The batch is written in one frame.
FlushSend(c) ==
  /\ flush[c].pc = "send"
  /\ WriteOK(flush[c].conn)
  /\ LET copies == CopiesOf(flush[c].batch)
     IN  /\ got'  = IF Reaches(flush[c].conn) THEN got \cup copies ELSE got
         /\ lost' = IF Reaches(flush[c].conn) THEN lost
                    ELSE lost \cup (copies \ got)
  /\ FlushGoto(c, [pc |-> "delete", batch |-> flush[c].batch])
  /\ UNCHANGED <<clients, wire, task, crashes, acked>> /\ UNCHANGED dbVars

\* The batch cannot be written: the rows stay in the table.
FlushSendFails(c) ==
  /\ flush[c].pc = "send"
  /\ WriteError(flush[c].conn)
  /\ FlushGoto(c, IdleFlush)
  /\ UNCHANGED <<clients, wire, task, crashes>> /\ UNCHANGED dbVars /\ UNCHANGED historyVars

\* A flush of one batch.
NoMore(batch) == IdleFlush

\* After a full batch there may be more: start over.
More(batch) == IF Cardinality(batch) = BatchSize THEN [pc |-> "start"]
               ELSE IdleFlush

\* DeleteBatch, by primary key.
FlushDelete(c) ==
  /\ flush[c].pc = "delete"
  /\ pending' = {r \in pending : \A s \in flush[c].batch : s.id # r.id}
  /\ FlushGoto(c, More(flush[c].batch))
  /\ UNCHANGED <<clients, wire, task, stored, nextID, crashes>> /\ UNCHANGED historyVars

\* DeleteBatch fails: the error is logged and the loop goes on.
FlushDeleteFails(c) ==
  /\ flush[c].pc = "delete"
  /\ DBFails
  /\ FlushGoto(c, More(flush[c].batch))
  /\ UNCHANGED <<clients, wire, task, crashes>> /\ UNCHANGED dbVars /\ UNCHANGED historyVars

-----------------------------------------------------------------------------
(***************************************************************************)
(* The retry worker, and crashes.                                          *)
(***************************************************************************)

\* Some of the rows with a next_retry are due (GetRetryable) and handled in
\* one pass: a row whose user is online is written and deleted, any other is
\* scheduled again.
Retryable == {r \in pending : r.nextRetry # "null"}

RetryPass ==
  \E due \in SUBSET Retryable :
    \E sent \in SUBSET {r \in due : /\ clients[r.user] # NoConn
                                    /\ WriteOK(clients[r.user])} :
      /\ \A r \in due \ sent : \/ clients[r.user] = NoConn
                             \/ WriteError(clients[r.user])
      /\ pending' = (pending \ due) \cup
                      {[r EXCEPT !.attempts = @ + 1] : r \in due \ sent}
      /\ got'  = got \cup CopiesOf({r \in sent : Reaches(clients[r.user])})
      /\ lost' = lost \cup
                   (CopiesOf({r \in sent : ~Reaches(clients[r.user])}) \ got)
      /\ UNCHANGED <<clients, wire, task, flush, stored, nextID, crashes, acked>>

\* The process dies and starts again: the database is all that is left.
Crash ==
  /\ crashes < MaxCrashes
  /\ crashes' = crashes + 1
  /\ clients' = [u \in Users |-> NoConn]
  /\ wire'    = [c \in Conns |-> IF wire[c] = "none" THEN "none" ELSE "closed"]
  /\ task'    = [h \in Handlers |-> IdleTask]
  /\ flush'   = [c \in Conns |-> IdleFlush]
  /\ lost'    = lost \cup UNION {Owed(task[h]) : h \in Handlers}
  /\ UNCHANGED <<acked, got>> /\ UNCHANGED dbVars

-----------------------------------------------------------------------------
\* What frames and requests have in common.
ForwardStep(h) ==
  \/ New(h) \/ Save(h) \/ SaveFails(h) \/ ReloadFails(h) \/ MembersFail(h)
  \/ \E u \in Users : Lookup(h, u)
  \/ Write(h) \/ WriteFails(h) \/ EvictRecipient(h)
  \/ Queue(h) \/ Insert(h) \/ InsertFails(h)

HandlerStep(c) == Duplicate(c) \/ Ack(c) \/ AckFails(c) \/ ForwardStep(c)

RequestStep(q) ==
  DuplicateRequest(q) \/ RequestFails(q) \/ Respond(q) \/ ForwardStep(q)

FlushStep(c) ==
  \/ FlushLookup(c) \/ FlushFetch(c) \/ FlushFetchFails(c) \/ FlushSend(c)
  \/ FlushSendFails(c) \/ FlushDelete(c) \/ FlushDeleteFails(c)

Next ==
  \/ \E c \in Conns : \/ Connect(c)
                      \/ Disconnect(c)
                      \/ PeerLost(c)
                      \/ \E m \in Msgs : Receive(c, m)
                      \/ HandlerStep(c)
                      \/ FlushStep(c)
  \/ \E q \in Requests : RequestStep(q) \/ \E m \in Msgs : Request(q, m)
  \/ \E u \in Users : Evict(u)
  \/ RetryPass
  \/ Crash

Spec == Init /\ [][Next]_vars

\* Goroutines that can go on do; the retry worker wakes up every five seconds.
FairSpec == /\ Spec
            /\ \A c \in Conns : WF_vars(HandlerStep(c)) /\ WF_vars(FlushStep(c))
            /\ \A q \in Requests : WF_vars(RequestStep(q))
            /\ WF_vars(RetryPass)

-----------------------------------------------------------------------------
(***************************************************************************)
(* Properties.                                                             *)
(***************************************************************************)

\* The copies somebody is going to deliver: a handler, or a row.
Held == CopiesOf(pending) \cup UNION {Owed(task[h]) : h \in Handlers}

\* A message that is in the table is, for every recipient, delivered, queued
\* or in a handler's hands, unless it was lost in one of the named ways: the
\* ACK could not be written, a write was accepted for a peer that is gone, the
\* process died in between, or a database statement failed.  No interleaving
\* of handlers, flushes, evictions and reconnects loses it otherwise
\* (messages.go:148-214, hub.go:129-196, 261-329).
NothingForgotten == \A m \in stored : Copies(m) \subseteq Held \cup got \cup lost

\* What may go wrong around the server with a copy of m for u.
Unreliable(m, u) ==
  DBFails \/ crashes > 0 \/ SenderOf[m] \in LossyUsers \/ u \in LossyUsers

\* While the process runs, with a database that works and peers that do not
\* vanish, the server keeps what it acknowledges: whoever else connects,
\* leaves, is evicted or sends, an acknowledged message has reached a recipient
\* or is held for them.  Of those who are not so lucky it takes the sender's or
\* the recipient's own peer to lose a copy (messages.go:178-214,
\* hub.go:129-196, 261-329).
AckedKept ==
  \A m \in acked : \A u \in RecipientsOf[m] :
    Unreliable(m, u) \/ <<m, u>> \in Held \cup got

\* A message is forwarded once: however often, on however many connections
\* and by whichever way the client sends it, no copy is queued twice or is in
\* the hands of two handlers, or of a handler and the queue
\* (messages.go:131-155, message_handler.go:331-345, the unique index of
\* models/message.go).
HeldOnce ==
  /\ \A g, h \in Handlers : g # h => Owed(task[g]) \cap Owed(task[h]) = {}
  /\ \A h \in Handlers : Owed(task[h]) \cap CopiesOf(pending) = {}
  /\ \A r, s \in pending : r # s => CopiesOf({r}) # CopiesOf({s})

\* What one handler sends to a user leaves the queue in the order it was
\* sent, although flushes of several connections overlap and work on batches
\* read long ago (hub.go:275-327, pending_message_repository.go:31-38).  Rows
\* of different senders may overtake each other: created_at is taken before
\* the insert.
OldestFirst ==
  [][\A r \in pending \ pending', s \in pending :
        (s.user = r.user /\ s.by = r.by /\ s.id < r.id) => s \notin pending']_vars

\* Seen from outside, the server is the mailbox.
Box == INSTANCE Mailbox WITH accepted <- stored, held <- Held

ImplementsMailbox == Box!Spec

\* Everything that is queued when a user connects is sent to the connection,
\* batch after batch, if it stays registered and its peer stays there; for a
\* database that does not fail (hub.go:261-329, websocket_handler.go:61-66).
BacklogFlushed ==
  \A c \in Conns, m \in Msgs :
    LET u == OwnerOf[c]
        Queued == <<m, u>> \in CopiesOf(pending)
    IN  (flush[c].pc = "start" /\ clients[u] = c /\ Queued)
          ~> (~Queued \/ clients[u] # c \/ wire[c] # "up")

-----------------------------------------------------------------------------
(***************************************************************************)
(* What documents say, and the code does not do.                           *)
(***************************************************************************)

\* "No Message Loss: All messages persisted until delivered"
\* (BACKEND_API.md:608): an acknowledged message is held for every recipient
\* who has not got it.
AckedNotLost == \A m \in acked : Copies(m) \subseteq Held \cup got

\* "If user comes online, messages are delivered immediately"
\* (BACKEND_API.md:597): a queued message does not stay queued while the user
\* stays registered.
QueuedReachesOnlineUser ==
  \A u \in Users, m \in Msgs :
    LET Queued == <<m, u>> \in CopiesOf(pending)
    IN  (Queued /\ clients[u] # NoConn) ~> (~Queued \/ clients[u] = NoConn)

=============================================================================
