------------------------------ MODULE History ------------------------------
(***************************************************************************)
(* One conversation, direct or of a group: the rows of its messages, the   *)
(* receipts that change them, the Redis cache in front of them, and the    *)
(* clients that read pages of it or synchronise.  MessageHandler           *)
(* (internal/handlers/message_handler.go), the receipts of                 *)
(* internal/handlers/ws/messages.go, MessageService, MessageRepository and *)
(* MessageCache.                                                           *)
(*                                                                         *)
(* A request is a handler goroutine; every database statement and every    *)
(* Redis command is a step of its own.  A message takes its id from the    *)
(* sequence before its row is visible to others.  What becomes of a        *)
(* message between its row and its recipients is in Delivery.              *)
(*                                                                         *)
(* What the cache holds is told apart by facts: that a message has been    *)
(* sent, each flag and status a receipt has given it, and how far a member *)
(* of a group has read.  A cached page holds its messages whole, as they   *)
(* were; a conversation list shows the last message and how many are       *)
(* unread, which the facts of all of them, and of the reader, determine.   *)
(***************************************************************************)
EXTENDS Integers, FiniteSets

CONSTANTS
  Users,        \* the members: the two sides, if the conversation is direct
  Conv,         \* the cache key of the conversation; its list's key is the user
  None,
  Requests,     \* bound: the requests handled at once
  MaxMessages,  \* bound: how many ids are taken
  Workloads,    \* what is asked of the server, for one behaviour each
  Limits,       \* the limits clients ask for
  DefaultLimit, \* 50
  PageCap,      \* 100
  Faults        \* statements and Redis commands may fail, and the process die

\* The kinds of facts: the last two flags are statuses; a user is one, too.
Flags == {"is_delivered", "is_read", "delivered", "read"}

ASSUME HistoryAssumption ==
  /\ Conv \notin Users
  /\ Users \cap ({"sent"} \cup Flags) = {}
  /\ MaxMessages \in Nat
  /\ Limits \subseteq Int
  /\ DefaultLimit \in Nat \ {0} /\ PageCap \in Nat \ {0}
  /\ DefaultLimit <= PageCap
  /\ Faults \in BOOLEAN
  /\ \A w \in Workloads : w.group \in BOOLEAN /\ w.messages \in 0 .. MaxMessages

VARIABLES
  load,     \* the workload of this behaviour
  rows,     \* table messages: the rows of the conversation, by id
  position, \* table group_read_states: the last message each member has read
  taken,    \* the last id taken from the sequence
  task,     \* what each request is doing
  entry,    \* the cache: a page, or a list, under each key
  page,     \* what a client that follows next_cursor has seen
  sync,     \* what a client that synchronises has seen
  told      \* the last read update sent

clients == <<page, sync, told>>
vars == <<load, position, rows, taken, task, entry, clients>>

Ids == 1 .. MaxMessages
Keys == {Conv} \cup Users
Facts == ({"sent"} \cup Flags \cup Users) \X Ids
Sent(ids) == {"sent"} \X ids

Rows == [from : Users, rest : BOOLEAN, delivered : BOOLEAN, read : BOOLEAN,
         status : {"pending", "sent", "delivered", "read"}]

Idle == [pc |-> "idle"]

\* keys are the cache keys a request still has to invalidate for its facts;
\* since is history, the facts that came up after the statement it relies on.
Tasks ==
  {Idle}
    \cup [pc : {"insert"}, id : Ids, from : Users, rest : BOOLEAN]
    \cup [pc : {"fetch"}, key : {Conv}, limit : 1 .. PageCap]
    \cup [pc : {"fetch"}, key : Users, limit : Nat]
    \cup [pc : {"store"}, key : Keys, limit : Nat,
          facts : SUBSET Facts, since : SUBSET Facts]
    \cup [pc : {"announce"}, from : Users, facts : SUBSET Facts, keys : SUBSET Keys]
    \cup [pc : {"tell"}, id : Ids, by : Users,
          facts : SUBSET Facts, keys : SUBSET Keys]
    \cup [pc : {"latest"}, by : Users, since : SUBSET Facts,
          facts : SUBSET Facts, keys : SUBSET Keys]

\* excused is history: the facts that are missing from the entry for a reason
\* the code leaves, and that nobody will invalidate it for.
Entries == [facts : SUBSET Facts, limit : Nat, excused : SUBSET Facts]

Pages == [got : SUBSET Ids, cursor : Ids, top : Ids, late : SUBSET Ids]
Syncs == [got : SUBSET Ids, last : Nat, more : BOOLEAN, limit : Int,
          late : SUBSET Ids, since : SUBSET Ids]
Updates == [by : Users, last : Ids, all : BOOLEAN, since : SUBSET Facts]

ASSUME NoneAssumption == None \notin Rows /\ None \notin Pages

TypeOK ==
  /\ load  \in Workloads
  /\ rows  \in [Ids -> Rows \cup {None}]
  /\ position \in [Users -> 0 .. MaxMessages]
  /\ taken \in 0 .. MaxMessages
  /\ task  \in [Requests -> Tasks]
  /\ entry \in [Keys -> Entries \cup {None}]
  /\ page  \in Pages \cup {None}
  /\ sync  \in Syncs
  /\ told  \in Updates \cup {None}

Init ==
  /\ load  \in Workloads
  /\ rows  = [i \in Ids |-> None]
  /\ position = [u \in Users |-> 0]
  /\ taken = 0
  /\ task  = [r \in Requests |-> Idle]
  /\ entry = [k \in Keys |-> None]
  /\ page  = None
  /\ sync  = [got |-> {}, last |-> 0, more |-> TRUE, limit |-> PageCap,
              late |-> {}, since |-> {}]
  /\ told  = None

Serves(operation) == operation \in load.serves

\* A request comes in.
Begins(r) ==
  /\ task[r] = Idle
  /\ Cardinality({q \in Requests : task[q] # Idle}) < load.atOnce

Goto(r, t) == task' = [task EXCEPT ![r] = t]

Visible == {i \in Ids : rows[i] # None}

FlagsOf(m) ==
  {f \in Flags : \/ f = "is_delivered" /\ m.delivered
                 \/ f = "is_read" /\ m.read
                 \/ f = m.status}

\* The messages, whole.
Messages(ids) ==
  {f \in ({"sent"} \cup Flags) \X ids : f[1] = "sent" \/ f[1] \in FlagsOf(rows[f[2]])}

\* What a page of the conversation, or the list of the user k, would show if it
\* were read now; unread is, in a group, what comes after the user's position.
Now(k) == Messages(Visible) \cup IF k = Conv THEN {} ELSE {k} \X (1 .. position[k])

-----------------------------------------------------------------------------
(***************************************************************************)
(* Changes and the cache entries they make stale.                          *)
(***************************************************************************)

\* Nobody will invalidate the entries under keys for these facts.
Excused(facts, keys) ==
  [k \in Keys |-> IF k \in keys /\ entry[k] # None
                  THEN [entry[k] EXCEPT !.excused = @ \cup facts]
                  ELSE entry[k]]

\* The requests that have read the database before the facts.
Outdated(t, facts) ==
  IF t.pc \in {"store", "latest"} THEN [t EXCEPT !.since = @ \cup facts] ELSE t

\* A statement of r makes facts true, and no request will invalidate the
\* entries under the keys forgone for them.
Happens(r, facts, forgone, t) ==
  /\ entry' = Excused(facts, forgone)
  /\ task' = [q \in Requests |-> IF q = r THEN t ELSE Outdated(task[q], facts)]

\* Facts that no request will invalidate anything for.
Unannounced(facts) ==
  /\ entry' = Excused(facts, Keys)
  /\ task' = [q \in Requests |-> Outdated(task[q], facts)]

\* After the last invalidation the request is done.
Announce(from, facts, keys) ==
  IF keys = {} THEN Idle
  ELSE [pc |-> "announce", from |-> from, facts |-> facts, keys |-> keys]

Rest(r, keys) == Announce(task[r].from, task[r].facts, keys)

\* r goes on with keys, and leaves the others as they are.
GivesUp(r, keys, t) ==
  /\ entry' = Excused(task[r].facts, task[r].keys \ keys)
  /\ Goto(r, t)

\* The next key: that of the conversation comes first; of the lists, the own
\* one is the first after a direct chat message, and otherwise the last.
Due(r, k) ==
  LET own == task[r].from
      ownFirst == ~load.group /\ task[r].facts \cap Sent(Ids) # {}
  IN  /\ task[r].pc = "announce"
      /\ k \in task[r].keys
      /\ IF Conv \in task[r].keys THEN k = Conv
         ELSE IF own \in task[r].keys /\ ownFirst THEN k = own
         ELSE k # own \/ task[r].keys = {own}

\* InvalidateConversation, InvalidateGroupConversation and
\* InvalidateConversationList.
Invalidate(r, k) ==
  /\ Due(r, k)
  /\ entry' = [entry EXCEPT ![k] = None]
  /\ Goto(r, Rest(r, task[r].keys \ {k}))
  /\ UNCHANGED <<load, position, rows, taken, clients>>

\* The command fails, and its error is ignored.
InvalidateFails(r, k) ==
  /\ Faults
  /\ Due(r, k)
  /\ GivesUp(r, task[r].keys \ {k}, Rest(r, task[r].keys \ {k}))
  /\ UNCHANGED <<load, position, rows, taken, clients>>

\* ConversationTTL or UserListTTL is over, or Redis has dropped the entry.
Expire(k) ==
  /\ entry[k] # None
  /\ entry' = [entry EXCEPT ![k] = None]
  /\ UNCHANGED <<load, position, rows, taken, task, clients>>

-----------------------------------------------------------------------------
(***************************************************************************)
(* Sending.                                                                *)
(***************************************************************************)

\* A message is sent over WebSocket (MessageChat) or with a REST request
\* (SendMessage, SendGroupMessage): the insert takes an id.
Send(r, u, rest) ==
  /\ Serves(IF rest THEN "rest" ELSE "chat")
  /\ Begins(r)
  /\ taken < load.messages
  /\ taken' = taken + 1
  /\ Goto(r, [pc |-> "insert", id |-> taken + 1, from |-> u, rest |-> rest])
  /\ UNCHANGED <<load, position, rows, entry, clients>>

\* SendMessage sets no client_id, which the index (client_id, sender_id) lets
\* each user do once.  The other messages are given different client ids.
Unique(m) ==
  load.group \/ ~m.rest \/ \A i \in Visible : rows[i].from = m.from => ~rows[i].rest

\* What a request invalidates for a message, and what is left as it is: all
\* entries after SendMessage, and the sender's list after a chat message to a
\* group.
Recipients(u) == Users \ {u}
Forgone(m) == IF load.group THEN (IF m.rest THEN {} ELSE {m.from})
              ELSE IF m.rest THEN Keys ELSE {}

\* The recipient's list is not invalidated.
KeysOfSender(m) ==
  IF load.group THEN {Conv} \cup IF m.rest THEN Users ELSE Recipients(m.from)
  ELSE IF m.rest THEN {} ELSE {Conv, m.from}

KeysOf(m) ==
  IF load.group THEN {Conv} \cup IF m.rest THEN Users ELSE Recipients(m.from)
  ELSE IF m.rest THEN {} ELSE {Conv} \cup Users

\* A new row: SendMessage leaves the status to the default.
NewRow(m) == [from |-> m.from, rest |-> m.rest, delivered |-> FALSE, read |-> FALSE,
              status |-> IF m.rest /\ ~load.group THEN "pending" ELSE "sent"]

\* Clients see the row from now on; history: it may be too late for some.
Appears(i) ==
  /\ page' = IF page = None THEN None ELSE [page EXCEPT !.late = @ \cup {i}]
  /\ sync' = [sync EXCEPT !.since = @ \cup {i},
                          !.late = IF i < sync.last THEN @ \cup {i} ELSE @]

\* The row becomes visible.
Insert(r) ==
  /\ task[r].pc = "insert"
  /\ LET m == task[r]
     IN  /\ Unique(m)
         /\ rows' = [rows EXCEPT ![m.id] = NewRow(m)]
         /\ Appears(m.id)
         /\ Happens(r, Sent({m.id}), Forgone(m),
                    Announce(m.from, Sent({m.id}), KeysOf(m)))
  /\ UNCHANGED <<load, position, taken, told>>

\* There is a row with this client_id and sender, or the statement fails: the
\* id is used up.
InsertFails(r) ==
  /\ task[r].pc = "insert"
  /\ Faults \/ ~Unique(task[r])
  /\ Goto(r, Idle)
  /\ UNCHANGED <<load, position, rows, taken, entry, clients>>

\* FindByID fails after the insert, and the request reports an error.
ReloadFails(r) ==
  /\ Faults
  /\ task[r].pc = "announce"
  /\ Conv \in task[r].keys
  /\ GivesUp(r, {}, Idle)
  /\ UNCHANGED <<load, position, rows, taken, clients>>

\* GetGroupMembers fails, or the ACK before it: of the lists, only that of
\* the sender of a REST message is invalidated.
MembersFail(r) ==
  /\ Faults
  /\ task[r].pc = "announce"
  /\ load.group
  /\ Conv \notin task[r].keys
  /\ LET own == task[r].keys \cap {task[r].from}
     IN  GivesUp(r, own, Rest(r, own))
  /\ UNCHANGED <<load, position, rows, taken, clients>>

-----------------------------------------------------------------------------
(***************************************************************************)
(* Receipts.                                                               *)
(***************************************************************************)

\* What MarkAsDelivered and MarkAsRead make of a row.
DeliveredRow(m) == [m EXCEPT !.delivered = TRUE, !.status = "delivered"]

\* Reading does not set the status.
ReadFlagOnly(m) == [m EXCEPT !.read = TRUE]
ReadRow(m) == [m EXCEPT !.read = TRUE, !.status = "read"]

\* What the row i says when it is m, and has not said before.
News(i, m) == (FlagsOf(m) \ FlagsOf(rows[i])) \X {i}

\* MessageAck "delivered" and MessageDelivery, from whoever sends them: nothing
\* is invalidated.
AckDelivered(i) ==
  /\ Serves("delivered")
  /\ i \in Visible
  /\ rows' = [rows EXCEPT ![i] = DeliveredRow(@)]
  /\ Unannounced(News(i, DeliveredRow(rows[i])))
  /\ UNCHANGED <<load, position, taken, clients>>

\* MessageAck "read" and MessageRead: MarkAsRead.  Only that of a direct message
\* by its recipient is told to the sender, whose list alone is invalidated.
AckRead(r, u, i) ==
  /\ Serves("read")
  /\ Begins(r)
  /\ i \in Visible
  /\ rows' = [rows EXCEPT ![i] = ReadRow(@)]
  /\ LET from == rows[i].from
         facts == News(i, ReadRow(rows[i]))
     IN  IF u = from \/ load.group THEN Happens(r, facts, Keys, Idle)
         ELSE Happens(r, facts, Keys \ {from},
                      [pc |-> "tell", id |-> i, by |-> u,
                       facts |-> facts, keys |-> {from}])
  /\ UNCHANGED <<load, position, taken, clients>>

\* GetByID, broadcastDirectReadUpdate.
Tell(r) ==
  /\ task[r].pc = "tell"
  /\ told' = [by |-> task[r].by, last |-> task[r].id, all |-> FALSE, since |-> {}]
  /\ Goto(r, Announce(task[r].by, task[r].facts, task[r].keys))
  /\ UNCHANGED <<load, position, rows, taken, entry, page, sync>>

TellFails(r) ==
  /\ Faults
  /\ task[r].pc = "tell"
  /\ GivesUp(r, {}, Idle)
  /\ UNCHANGED <<load, position, rows, taken, clients>>

\* What MarkConversationAsRead updates of a peer's messages.
DeliveredOnly(m) == m.status = "delivered"
ToMark(m) == ~m.read

\* MarkConversationRead, of a direct conversation: the first statement.
ReadAll(r, u) ==
  /\ Serves("read") /\ ~load.group
  /\ Begins(r)
  /\ LET theirs == {i \in Visible : rows[i].from # u}
         marked == {i \in theirs : ToMark(rows[i])}
         facts == UNION {News(i, ReadRow(rows[i])) : i \in marked}
     IN  /\ rows' = [i \in Ids |-> IF i \in marked
                                   THEN ReadRow(rows[i]) ELSE rows[i]]
         /\ Happens(r, facts, {Conv},
                    [pc |-> "latest", by |-> u, since |-> {},
                     facts |-> facts, keys |-> Users])
  /\ UNCHANGED <<load, position, taken, clients>>

Latest(ids) == CHOOSE i \in ids : \A j \in ids : j <= i

\* GetLatestDirectMessageID, in a statement of its own; the peer is told.
TellLatest(r) ==
  /\ task[r].pc = "latest"
  /\ Visible # {}
  /\ told' = [by |-> task[r].by, last |-> Latest(Visible), all |-> TRUE,
              since |-> task[r].since]
  /\ Goto(r, Announce(task[r].by, task[r].facts, task[r].keys))
  /\ UNCHANGED <<load, position, rows, taken, entry, page, sync>>

\* There is no message, or the statement fails: only the reader's own list is
\* invalidated.
NoLatest(r) ==
  /\ task[r].pc = "latest"
  /\ Faults \/ Visible = {}
  /\ LET own == {task[r].by}
     IN  GivesUp(r, own, Announce(task[r].by, task[r].facts, own))
  /\ UNCHANGED <<load, position, rows, taken, clients>>

Further(p, old) == IF p > old THEN p ELSE old

\* MarkGroupRead and MessageGroupRead: p is a message of the group, or none.
\* The rows are not touched, and only the reader's list is invalidated.
MarkGroup(r, u, p) ==
  /\ Serves("marks") /\ load.group
  /\ Begins(r)
  /\ p = 0 \/ p \in Visible
  /\ position' = [position EXCEPT ![u] = Further(p, @)]
  /\ LET facts == {u} \X (position[u] + 1 .. p)
     IN  Happens(r, facts, {}, Announce(u, facts, {u}))
  /\ UNCHANGED <<load, rows, taken, clients>>

-----------------------------------------------------------------------------
(***************************************************************************)
(* Pages of the conversation, and conversation lists.                      *)
(***************************************************************************)

\* ORDER BY id DESC LIMIT n, and ASC.
Newest(ids, n) == {i \in ids : Cardinality({j \in ids : j > i}) < n}
Oldest(ids, n) == {i \in ids : Cardinality({j \in ids : j < i}) < n}
Least(ids) == CHOOSE i \in ids : \A j \in ids : i <= j

\* The messages on a page.
IdsIn(facts) == {i \in Ids : <<"sent", i>> \in facts}

\* Only the upper bound is checked.
PageLimitUpTo(n) == IF n <= PageCap THEN n ELSE DefaultLimit

\* The limit of a page: that of the request if it is one to a hundred.
PageLimit(n) == IF n \in 1 .. PageCap THEN n ELSE DefaultLimit

\* The answer, and the next_cursor in it.  late is history.
Answer(ids, late) == [got |-> ids, cursor |-> Least(ids), top |-> Latest(ids),
                      late |-> late]

\* The facts some request is still to invalidate k for.
Pending(k) ==
  UNION {task[r].facts : r \in {q \in Requests :
           task[q].pc \in {"announce", "tell", "latest"} /\ k \in task[q].keys}}

\* GetMessages and GetGroupMessages with no cursor: the entry is there, and is
\* cut to the limit.
GetCached(n) ==
  /\ Serves("get")
  /\ entry[Conv] # None
  /\ page' = Answer(Newest(IdsIn(entry[Conv].facts), PageLimit(n)),
                    IdsIn(entry[Conv].excused \cup Pending(Conv)))
  /\ UNCHANGED <<load, position, rows, taken, task, entry, sync, told>>

\* The entry is missing, or Redis fails.
GetMissed(r, n) ==
  /\ Serves("get")
  /\ Begins(r)
  /\ Faults \/ entry[Conv] = None
  /\ Goto(r, [pc |-> "fetch", key |-> Conv, limit |-> PageLimit(n)])
  /\ UNCHANGED <<load, position, rows, taken, entry, clients>>

\* GetConversations for u, with no cursor.
GetList(r, u) ==
  /\ Serves("lists")
  /\ Begins(r)
  /\ Faults \/ entry[u] = None
  /\ Goto(r, [pc |-> "fetch", key |-> u, limit |-> MaxMessages + 1])
  /\ UNCHANGED <<load, position, rows, taken, entry, clients>>

\* FindConversation, FindGroupMessages: an empty page is not cached.
FetchPage(r) ==
  /\ task[r].pc = "fetch" /\ task[r].key = Conv
  /\ LET ids == Newest(Visible, task[r].limit)
     IN  IF ids = {} THEN Goto(r, Idle) /\ UNCHANGED page
         ELSE /\ page' = Answer(ids, {})
              /\ Goto(r, [pc |-> "store", key |-> Conv, limit |-> task[r].limit,
                          facts |-> Messages(ids), since |-> {}])
  /\ UNCHANGED <<load, position, rows, taken, entry, sync, told>>

\* ListConversationsUnified.
FetchList(r) ==
  /\ task[r].pc = "fetch" /\ task[r].key # Conv
  /\ Goto(r, [pc |-> "store", key |-> task[r].key, limit |-> task[r].limit,
              facts |-> Now(task[r].key), since |-> {}])
  /\ UNCHANGED <<load, position, rows, taken, entry, clients>>

\* SetConversation, SetGroupConversation, SetConversationListPayload.
Store(r) ==
  /\ task[r].pc = "store"
  /\ entry' = [entry EXCEPT ![task[r].key] =
                 [facts |-> task[r].facts, limit |-> task[r].limit,
                  excused |-> task[r].since]]
  /\ Goto(r, Idle)
  /\ UNCHANGED <<load, position, rows, taken, clients>>

\* A statement or command fails, and the request ends.
GetFails(r) ==
  /\ Faults
  /\ task[r].pc \in {"fetch", "store"}
  /\ Goto(r, Idle)
  /\ UNCHANGED <<load, position, rows, taken, entry, clients>>

\* The rows below the cursor in ascending order.
Below(ids, cursor, n) == Oldest({i \in ids : i < cursor}, n)
Older(ids, cursor, n) == Newest({i \in ids : i < cursor}, n)

\* GetMessages with next_cursor: FindConversationCursor, FindGroupMessages.
GetOlder(n) ==
  /\ Serves("get")
  /\ page # None
  /\ LET ids == Older(Visible, page.cursor, PageLimit(n))
     IN  /\ ids # {}
         /\ page' = [page EXCEPT !.got = @ \cup ids, !.cursor = Least(ids)]
  /\ UNCHANGED <<load, position, rows, taken, task, entry, sync, told>>

-----------------------------------------------------------------------------
(***************************************************************************)
(* Synchronisation, with a REST request or over WebSocket.                 *)
(***************************************************************************)

\* The service keeps the handler's limit.
SyncLimitKept(n) == n

\* The limits of the handler and of the service.
AskedLimit(n) == IF n <= 0 \/ n > 2 * PageCap THEN PageCap ELSE n
SyncLimit(n) == IF n = 0 \/ n > PageCap THEN PageCap ELSE n

\* The newest come first, if there are too many.
BatchFromTop(last, n) == Newest({i \in Visible : i > last}, n)

\* FindMessagesSince.
Batch(last, n) == Oldest({i \in Visible : i > last}, n)

\* The client is given what comes after the last message it has: has_more
\* compares with the limit of the handler.
Synced(limit) ==
  LET ids == Batch(sync.last, SyncLimit(limit))
  IN  sync' = [sync EXCEPT !.got = @ \cup ids,
                           !.last = IF ids = {} THEN @ ELSE Latest(ids),
                           !.more = (Cardinality(ids) = limit),
                           !.limit = limit,
                           !.since = {}]

SyncMessages(n) ==
  /\ Serves("sync")
  /\ Synced(AskedLimit(n))
  /\ UNCHANGED <<load, position, rows, taken, task, entry, page, told>>

MessageSync ==
  /\ Serves("sync")
  /\ Synced(PageCap)
  /\ UNCHANGED <<load, position, rows, taken, task, entry, page, told>>

-----------------------------------------------------------------------------
\* The process dies: database and Redis are what is left.
Crash ==
  /\ Faults
  /\ entry' = [k \in Keys |-> IF entry[k] = None THEN None
                              ELSE [entry[k] EXCEPT !.excused = @ \cup Pending(k)]]
  /\ task' = [r \in Requests |-> Idle]
  /\ UNCHANGED <<load, position, rows, taken, clients>>

Step(r) ==
  \/ \E u \in Users : \/ \E rest \in BOOLEAN : Send(r, u, rest)
                      \/ \E i \in Ids : AckRead(r, u, i)
                      \/ \E p \in 0 .. MaxMessages : MarkGroup(r, u, p)
                      \/ ReadAll(r, u) \/ GetList(r, u)
  \/ Insert(r) \/ InsertFails(r) \/ ReloadFails(r) \/ MembersFail(r)
  \/ \E k \in Keys : Invalidate(r, k) \/ InvalidateFails(r, k)
  \/ Tell(r) \/ TellFails(r) \/ TellLatest(r) \/ NoLatest(r)
  \/ \E n \in Limits : GetMissed(r, n)
  \/ FetchPage(r) \/ FetchList(r) \/ Store(r) \/ GetFails(r)

Next ==
  \/ \E r \in Requests : Step(r)
  \/ \E i \in Ids : AckDelivered(i)
  \/ \E k \in Keys : Expire(k)
  \/ \E n \in Limits : GetCached(n) \/ GetOlder(n) \/ SyncMessages(n)
  \/ MessageSync
  \/ Crash

Spec == Init /\ [][Next]_vars

-----------------------------------------------------------------------------
(***************************************************************************)
(* Properties.                                                             *)
(***************************************************************************)

\* What an entry should hold: a page that was cut off, of the messages only its
\* oldest and those newer, and what they say.
Covers(e, f) ==
  \/ Cardinality(IdsIn(e.facts)) < e.limit
  \/ \E i \in IdsIn(e.facts) : i <= f[2]

\* A cached page or list lacks a fact only if some request is about to
\* invalidate it, or for a reason that is named: a message sent with
\* SendMessage, or a chat message to a group in its sender's own list; a flag or
\* a status given by a receipt, for none invalidates the cached page, one of
\* delivery no list, one of reading a single message only its sender's list; a
\* fact that came up between the fetch and the store; an invalidation that
\* failed, or died with the process
\* (messages.go:158-166, 208-312, message_handler.go:140-150, 526-563).
StaleNamed ==
  \A k \in Keys : entry[k] # None =>
    \A f \in Now(k) \ entry[k].facts :
      Covers(entry[k], f) => f \in entry[k].excused \cup Pending(k)

\* A client that follows next_cursor from a first page, cached or not, skips no
\* message between the newest and the oldest it has been given, except one
\* that appeared after the first page, or that the cached page lacked
\* (message_handler.go:121-168, message_repository.go:42-56).
PagesComplete ==
  page # None =>
    \A i \in Visible : i \in page.cursor .. page.top => i \in page.got \cup page.late

\* A client that synchronises has every message up to its last one, except
\* those that appeared after a larger id had been given out; and, told that
\* there is no more, has all there were, if it did not ask for more than the
\* service gives (message_handler.go:264-288, message_repository.go:153-190).
SyncComplete ==
  \A i \in Visible :
    /\ i <= sync.last => i \in sync.got \cup sync.late
    /\ (~sync.more /\ sync.limit <= PageCap)
         => i \in sync.got \cup sync.late \cup sync.since

\* The status agrees with the flags, whatever receipts come in whatever order;
\* a message that has been read and does not say so was acknowledged as
\* delivered (message_repository.go:83-113).
StatusBacked ==
  \A i \in Visible :
    LET m == rows[i]
    IN  /\ m.status = "read" => m.read
        /\ m.status = "delivered" <=> m.delivered /\ m.status # "read"
        /\ m.read => m.status \in {"delivered", "read"}

\* A read update names a message that has been read, or that its reader has
\* sent, or that appeared while the request was under way; and one for the
\* whole conversation says so of every message it spans
\* (message_handler.go:538-555, messages.go:296-310).
UpdateGrounded ==
  [][told' # told =>
       \A i \in Visible :
         (IF told'.all THEN i <= told'.last ELSE i = told'.last)
           => \/ rows[i].read
              \/ rows[i].from = told'.by
              \/ <<"sent", i>> \in told'.since]_vars

\* What clients are shown of a row, and have been given so far.
Shown(m) == [from |-> m.from, delivered |-> m.delivered, read |-> m.read]

Log == [i \in Visible |-> Shown(rows[i])]

Paged == IF page = None THEN [got |-> {}, cursor |-> 0, top |-> 0]
         ELSE [got |-> page.got, cursor |-> page.cursor, top |-> page.top]

Given == [got |-> sync.got, last |-> sync.last]

Talk == INSTANCE Conversation WITH log <- Log, paged <- Paged, synced <- Given

\* Behind the cache and the requests there is one conversation: receipts are
\* only ever added to it, whatever order they come in; a page shows nothing
\* that was not sent, the pages and batches after it leave no gap and stay
\* under the cap (message_handler.go:121-168, 264-288, messages.go:208-312,
\* message_repository.go:42-190).
ImplementsConversation == Talk!Spec

-----------------------------------------------------------------------------
(***************************************************************************)
(* What documents say, and the code does not do.                           *)
(***************************************************************************)

Rank(status) == CASE status = "pending" -> 0 [] status = "sent" -> 1
                  [] status = "delivered" -> 2 [] status = "read" -> 3

\* "Status progression: pending -> sent -> delivered -> read"
\* (BACKEND_API.md:602): a status does not go back.
StatusProgresses ==
  [][\A i \in Visible : Rank(rows'[i].status) >= Rank(rows[i].status)]_vars

=============================================================================
