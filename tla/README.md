# OMMessenger backend in TLA+

This directory holds TLA+ models of the OMMessenger backend (`src/`), the TLC
configurations that check them, and proofs checked by TLAPS. The models are
written from the Go code; the documents of the repository are only the source
of the claims that some runs test.

    tlc -workers 2 -config MCHub.cfg MCHub          # one of the runs
    tlapm HubProofs.tla                             # the proofs

## 1. Inventory

| Component | Code | State | Operations | Talks to |
|---|---|---|---|---|
| Hub registry | `handlers/ws/hub.go`, `handlers/websocket_handler.go` | `Hub.clients`, per connection `LastPong`, `PingTicker`, `CloseChan`, read deadline | Register, Unregister, pong handler, `pingRoutine`, `connectionHealthChecker`, read loop | every goroutine that sends |
| Chat delivery | `handlers/ws/messages.go`, `hub.go`, `repository/pending_message_repository.go` | tables `messages`, `pending_messages` | `MessageChat.Process`, `SendToUserWithID`, `queueMessage`, `FlushPendingMessages`, `retryWorker` | registry, database, message cache |
| Message status | `handlers/ws/messages.go`, `repository/message_repository.go` | `status`, `is_delivered`, `is_read` of a message | MessageAck, MessageRead, MessageDelivery, mark conversation read | registry (read updates) |
| REST messages and history | `handlers/message_handler.go` | table `messages`, cache | SendMessage, SendGroupMessage, GetMessages, SyncMessages | cache, registry |
| Message cache | `cache/message_cache.go` | Redis keys per conversation, list, unread count | read-through get, set, invalidate | written by WebSocket and REST handlers |
| Presence | `cache/user_cache.go`, `service/user_service.go` | Redis set and key, `is_online` column | SetUserOnline, SetUserOffline | detached goroutines of the WebSocket handler |
| Groups | `service/group_service.go` and three repositories | groups, members, invites, read states | create, join, leave, invite, mark read | names (handles), delivery (members) |
| Sessions | `service/auth_service.go`, `repository/refresh_token_repository.go` | refresh tokens | register, login, refresh, logout | users |
| Users and names | `service/user_service.go` | user rows | update profile, username check | group handles |
| Avatars, media | `service/avatar_service.go`, `storage/` | avatar columns, objects | upload, delete | user rows |
| Conversation list | three conversation repositories | none of its own | queries | messages, groups, read states |
| Versions | `service/version_service.go` | `app_versions` | check, activate | none |
| Wire format, HTTP helpers, validation, wiring | `ws/message.go`, `httpx`, `validation`, `cmd/server` | none | pure functions, start-up | none |

What makes each of them correct:

* **Registry**: a user has one entry; a channel is closed once; a healthy
  connection stays in; a dead one leaves; goroutines end with their connection.
* **Delivery**: a message is stored once and forwarded once; every copy is
  delivered, queued or in a handler's hands; the queue is sent in order and
  empties when its user is there.
* **Message status**: it only goes up; a read mark belongs to the recipient.
* **Cache**: an invalidated entry does not come back; a cached list is complete.
* **Presence**: a user is online, in both stores, exactly if a connection is open.
* **Groups**: an invite admits its number of uses; a read position is that of a
  message of the group, grows, and goes away with the member.
* **Sessions**: a refresh token is exchanged at most once.
* **Names**: a name belongs to one user or one group.
* **Avatars**: the key in the row is an object that exists, and no other does.
* **Versions**: one active version per platform; a forced update is an update.

What is hard here: goroutines that share the registry under a lock held for
single steps only; Unregister naming a *user*, not a connection; socket writes
whose outcome says little about the peer; database statements without
transactions, each of which may fail; results used after the lock is released;
and the end of the process between any two statements. `PROJECT.json` lists
each such place with its line and the properties that watch it.

## 2. Plan

| Order | Module | About | State |
|---|---|---|---|
| 1 | `Registry`, `Hub`, `HubProofs`, `MCHub` | the registry and the life of connections | done |
| 2 | `Mailbox`, `Delivery`, `MCDelivery` | from a chat frame or a REST group message to its recipients | done |
| 3 | `DeliveryProofs`, `DeliverySafety` | type correctness; every safety property of `Delivery` as a theorem | done |
| 4 | `Groups`, `GroupsProofs`, `MCGroups` | members, invites, read states, group creation; its properties as theorems | done |
| 5 | `Conversation`, `History`, `MCHistory` | one conversation: sending and its ids, receipts, the cache, pages, sync | done |
| 6 | `HistoryProofs`, `HistorySafety` | type correctness, and every property of `History` as a theorem | done |
| 7 | `Sessions`, `Accounts`, `MCAccounts` | users: names and handles, refresh tokens, avatars, presence | done |
| 8 | `AccountsProofs`, `AccountsSafety` | type correctness, and every property of `Accounts` as a theorem | done |

Four modules are abstract: each says what others may rely on, in a few actions, and
is implemented by a module that says how.

| Abstract | Promises | Implemented by |
|---|---|---|
| `Registry` | one connection per user, each enters once and leaves for good | `Hub` |
| `Mailbox` | an accepted message is held for each recipient until it is pushed or dropped | `Delivery` |
| `Conversation` | messages and receipts only grow, pages and batches leave no gap | `History` |
| `Sessions` | a token is revoked for good and has one successor, of the same user | `Accounts` |

The detailed modules share no variables. `Delivery` has a registry of its own,
`clients`, in which any user may be unregistered at any time: what takes a
connection out, and what cannot, is in `Hub`. A group's members are fixed in
`Delivery`, its handle is in `Accounts`, its read positions are written in `Groups`
and shown in `History`, which begins where a message gets its row. Presence goroutines
are started by connections and write to the user row, so they are in `Accounts`,
with the saves that can overwrite what they wrote. Versions were planned as a
module of operators and dropped: nothing in the code writes a version.

## 3. Hub

`Hub.tla` has one variable per piece of state and one action per lock section,
socket operation or channel operation.

| Model | Code |
|---|---|
| `clients`, `owner`, `closeChan` | `Hub.clients`, `ClientConnection.UserID`, `CloseChan` |
| `silence[c]` | time since `LastPong`, in ticks |
| `age[c]` | time since Register, which sets the read deadline and nothing extends it |
| `wire[c]` | the socket: `up`, `lost` (peer gone, server unaware), `closed` |
| `handler[c]` | `HandleWebSocket`: reading, leaving (deferred Unregister due), closing |
| `ping[c]` | `pingRoutine`: waiting in select, ticked, checked, failed |
| `dead` | `deadConnections` of one pass of the health checker |
| `writer[w]` | a goroutine in SendToUserWithID or Broadcast: a connection looked up, and whether the write failed |
| `panicked` | a closed `CloseChan` has been closed again |

Abstractions. Time is counted in ticks and saturates above `PongTimeout`, the
only value it is compared with; tick length, and the ratio of the two 30-second
tickers to the 90-second timeout, are left open (any ticker may fire at any
time), which allows more behaviours than the code. A tick that was sent before
`Stop` is not received after it, as in the Go version of `go.mod`. The library
may recycle the connection object of a connection it has closed; `pingRoutine`
recovers from the panic that a write to it can cause, which here ends the
routine. Two goroutines that write to one connection at once are not modelled:
a write is one step. `len(h.clients)` is read without the lock in Register, for
a log line only.

### Runs

| Run | Instance | Checks |
|---|---|---|
| `hub` | 2 users, 2 connections, 1 writer, timeout 2 | `TypeOK`, `NoDoubleClose`, `SoleConnectionOnline`, `TakenOutByOlder`, `ImplementsRegistry` |
| `hub_live` | 1 user, 2 connections, 1 writer, timeout 1 | `NoPingLeak`, `DeadConnectionRemoved` |
| `hub_online` | 1 user, 2 connections | violates `ConnectedIsOnline` |

Two connections are enough for one to replace another while goroutines of the
first still run, and two users for one to be disturbed by the other. The writer
holds a connection across any number of steps of everything else. A timeout of
two ticks separates "silent for less than", "exactly" and "longer than" the
timeout. Connections are finite and are not reused, so the system stops in the
end: deadlock is not checked.

* `SoleConnectionOnline` is the guarantee that is left for online users: it is
  about a user who has opened one connection.
* `ConnectedIsOnline` fails as soon as there are two: the user reconnects, the old
  handler returns, and its deferred `Unregister(userID)` takes out the new
  connection. The user then looks offline until the next reconnect, messages are
  queued, and the new connection's own ping routine ends because the user is
  not registered.
* `TakenOutByOlder` is what is left for a user who reconnects: a healthy connection
  that has not reached its read deadline leaves the registry in a step of
  something that serves another connection of the same user, older because the
  registered one is the newest. It is the handler or ping routine of that
  connection, or a writer, coming to its end, so that each does it once; or the
  health checker, which counted the silence before the user came back.
* `NoPingLeak` holds although the CloseChan of a replaced connection is never
  closed: the routine ends by the failing ping, or because no connection of the
  user is registered.
* `DeadConnectionRemoved` holds although pongs of older connections refresh the
  newest one: older connections end at their read deadline, which the pong
  handler does not move (it updates `LastPong` only), so that any connection
  ends 90 seconds after it was opened.

Fairness (`FairSpec`): a ping routine that can go on does, since it is a
goroutine with a running ticker; time passes; the health checker scans and works
through its list. Nothing is assumed of handlers, which may be stuck in a slow
database call, of pongs, or of the network.

### Proofs (`HubProofs.tla`)

`HubInvariant` proves the inductive invariant `IInv`, the conjunction of

* `TypeOK` and `FreshInv`: a connection that has not been opened has no owner,
  no channel and no goroutine;
* `OwnedInv`: what is opened has an owner;
* `EntryInv`: a registered connection belongs to the user it is registered for,
  its channel is open, and `panicked` is false; `NoDoubleClose` follows;
* `FailureInv`: a goroutine that is about to unregister because a write failed
  holds a connection that is no longer reachable;
* `SilenceInv`: a user in `dead` whose only connection is healthy has been silent
  for longer than the timeout and so is as old; this is why the health checker
  cannot take out a sole healthy connection before its deadline.

From it follow type correctness, `NoDoubleClose`, `SoleConnectionOnline`,
`TakenOutByOlder` (`OnlyOlderTakeOut`: whoever unregisters a user with a healthy
connection has, by `FailureInv` and `SilenceInv`, another one in hand) and, by
mapping each action to a step of `Registry` or a stutter, `ImplementsRegistry`,
for all users, connections, writers and timeouts, from `HubAssumption` only.
Liveness is checked by TLC only.

## 4. Delivery

`Delivery.tla` has one action per database statement, socket write and lock
section on the way of a message.

| Model | Code |
|---|---|
| `task[h]` | what the handler h is doing, `MessageChat.Process` on a connection or `SendGroupMessage` of a request: `dedup`, `save`, `ack` (frames), `forward` (recipients left in `todo`), then per recipient `write`, `evict`, `queue`, `insert`, and in the end `respond` (requests) |
| `flush[c]` | `FlushPendingMessages` in the goroutine started when c opened |
| `stored`, `pending`, `nextID` | tables `messages` and `pending_messages` |
| `wire`, `clients` | as in `Hub`; `Connect`, `Disconnect`, `Evict` and `EvictRecipient` are the calls of Register and Unregister |
| `acked`, `got`, `lost` | history: acknowledged messages, copies that arrived, copies dropped |

A message is one (`client_id`, sender) pair: a frame sent again is the same
message. A copy is a pair of a message and a recipient. `lost` names what the
code drops, at the step that drops it: the ACK cannot be written
(`messages.go:181`), reading the row back fails, `GetGroupMembers` fails, the
insert into the queue fails, a write is accepted for a peer that is gone, or the
process dies in between. Lost means that the server will not push the copy any
more; the message is in the table, and a client that asks for the history sees
it.

A frame and a request differ in three places. A frame is acknowledged before the
message is forwarded, a request answered after it. A failing dedup lookup counts
as "not found" for a frame and as an error for a request. And a frame finds its
ACK unwritable, where a request notices nothing. The `client_id_conflict` answer
of a request is left out, because a message has one `client_id` and one target.

Queueing takes two steps: `Queue` fixes the row's `created_at`, `Insert` writes
the row; another handler's row can be written in between. Hence rows of one user
are ordered per handler that queued them (field `by`), and not otherwise.

Abstractions. Any user may be unregistered at any time (`Evict`), which covers
the ping routines and the health checker. A row's `id` stands for `created_at`
too, is taken before the insert as gorm does, and two rows never have the same.
Payloads, compression and encoding are left out, and so is the cache
invalidation between insert and ACK, which touches nothing here. Membership of a
group is fixed, and a group has a member other than the sender. `RetryPass` handles
its rows in one step; since nothing ever sets `next_retry`, it never finds one, in the model as in the code.

### Runs

| Run | Instance | Checks |
|---|---|---|
| `delivery` | a group of three: a sender with 1 connection and 1 REST request, a recipient with a connection and one without; 1 message, failing database, vanishing peers, 1 crash | `TypeOK`, `HeldOnce`, `NothingForgotten`, `ImplementsMailbox` |
| `delivery_live` | 1 sender connection, 2 recipient connections, 2 messages, batches of 1; no failing statement, vanishing peer or crash | `OldestFirst`, `AckedKept`, `BacklogFlushed` |
| `lost_ack` | 2 sender connections, 1 recipient connection, 1 message | violates `AckedNotLost` |
| `stranded` | 1 connection each, 1 message | violates `QueuedReachesOnlineUser` |

A connection and a request of the sender let one message be processed twice at
once, and be sent again after a failure or a crash; two recipients make the
forwarding loop go round, with each of them online or not. In `lost_ack` the
sender resends over a second connection. Two connections of the recipient, with two
rows and batches of one, make flushes overlap and reach the boundary of the
batch size. Connections are finite, so the system stops in the end: deadlock is
not checked.

* `HeldOnce` rests on the unique index: of two handlers that both pass the
  dedup check one fails to insert.
* `NothingForgotten` says that the list of losses above is complete.
* `AckedNotLost` is what the documents promise, and fails without a crash or a
  database error, only with a broken connection: see the finding.
* `AckedKept` is what is left of that promise. A copy of an acknowledged message is
  lost by a crash, by a database error, or by a peer that vanishes, and then it is
  the sender's or that recipient's own. Whoever else connects, leaves, is evicted
  or sends takes nothing from it. The run is the instance in which nothing may be
  lost; that a loss is only ever due to one's own peer is what the theorem adds.
* `QueuedReachesOnlineUser` fails because lookup and insert are not atomic with
  respect to Register and flush, and the retry worker does not help.
* `BacklogFlushed` assumes a database that does not fail, since a failed fetch
  ends the flush.

Fairness: handlers and flush goroutines that can go on do, and the retry worker
wakes up. Nothing is assumed of clients, networks or evictions.

### Proofs (`DeliveryProofs.tla`, `DeliverySafety.tla`)

`DeliveryTypeCorrect` proves `TypeOK` for every instance: lemmas say what each
phase of a task or a flush consists of and that every step leads to such a
phase.

`DeliveryInvariant` proves the inductive invariant `SInv`. Besides `TypeOK`,
`HeldOnce` and `NothingForgotten` themselves it has

* `TaskInv`: a handler past the insert forwards a stored message, to some of its
  recipients. Two handlers cannot both forward a message, because the second
  one finds it stored when it inserts;
* `QueueInv`: there are finitely many rows, of stored messages, and none has a
  `next_retry`, so the retry worker changes nothing;
* `IdInv`: an id names one row, whether the row is in the table, in the batch of a
  flush, or about to be inserted. `FlushDelete` deletes by id rows it read long
  ago, and by this deletes just those;
* `BatchInv`: a fetched row is still queued, or its copy was delivered or lost; at
  the time a flush deletes, the latter. So deleting forgets nothing;
* `OrderInv`: a flush that has a row in its batch also has every older row of the
  same sender that is still in the table, including rows inserted since, because
  a handler takes its ids in order.

Most steps of a handler fall under one lemma (`QuietSafe`): a step that writes to
no table and settles what it no longer owes. `Save`, `ReloadFails`, `Queue`,
`Insert`, the flush and the crash have a lemma each. Each lemma also says to which
step of `Mailbox` its action corresponds. The theorems `ForwardedOnce`,
`NoneForgotten`, `QueueInOrder` and `DeliveryImplementsMailbox` follow, from
`DeliveryAssumption` only.

`AcknowledgedKept` (`AckedKept`) needs a second invariant, `PeerInv`, which blames
every lost copy on somebody: wires are lost by users who may vanish only, and a
step that adds to `lost` finds such a wire, a failing statement or a crash.
`KeptInFairWeather` takes the promise of the documents itself: `AckedNotLost` holds
of every instance with `~DBFails`, `LossyUsers = {}` and `MaxCrashes = 0`, that is,
for every interleaving of handlers, flushes, evictions and reconnects. The run
`lost_ack` shows that `LossyUsers = {}` is needed. `BacklogFlushed` is a liveness
property and is checked by TLC only.

## 5. Groups

`Groups.tla` has one action per database statement of `GroupService`, and of the
two handlers that mark a group read. A request `r` is a handler goroutine; it
works for any user, since an HTTP request and a WebSocket frame of one user can
be handled at the same time.

| Model | Code |
|---|---|
| `groups`, `role`, `readState` | tables `groups`, `group_members`, `group_read_states`; `NoRow` is a missing row |
| `posts` | table `messages`: the group of each message in the order of ids, `Direct` for a message to a user |
| `links`, `used` | table `group_invite_links` and its `used_count` |
| `task[r]` | what the request does next: `add` and `ensure` (every way to become a member), `invited` (the link was found good), `count`, `forget` (the second half of leaving), `link`, `check` and `upsert` (a read mark) |
| `admitted`, `uncounted`, `orphans`, `headless` | history: users a link let in, those it never counts, read states of non-members with the step that left them named, and the groups without an admin, named likewise |

Abstractions. A request that is refused changes nothing and is no step; an
invite that has expired refuses whoever comes, and `Revoke` has no caller, so
neither is a step. Groups do not change after they are created, so that finding
the group and the membership check of a join are one step. Handles are left to
`Accounts`. The clamp to `GetLatestGroupMessageID` (`message_handler.go:607`,
`messages.go:365`) never takes effect, because an id that has passed the check
before it is no larger than the latest; BACKEND_API.md:401 calls a larger id
"clamped", the code refuses it. Messages are never deleted. `MaxPosts` and
`MaxJoins` bound messages and users of a link.

### Runs

| Run | Instance | Checks |
|---|---|---|
| `groups` | 2 users, 1 group, 2 requests, 1 single-use link, 2 messages, failing database, crashes | `TypeOK`, `InviteAccounted`, `OverlapOnly`, `ReadGrounded`, `OrphansNamed`, `AdminNamed`, `OnlyLeavingForgets` |
| `groups_read` | 1 user, 1 group, 2 requests, 1 message | violates `ReadMonotonic` |

Two requests are enough for every pair of statements to interleave; two users
for a link to be contended. One group suffices because the messages of another
group and direct messages look the same to it: `Direct` messages take ids
of the same sequence. Any number of crashes may occur. A request can always
begin, so the system never stops, and TLC checks that it does not.

* `OverlapOnly` is what is left of "single use": check, insert and count are
  statements apart, so two overlapping requests can both join. But nobody joins
  who came after the first use was counted.
* `InviteAccounted` adds that the count is exact but for failed increments and
  crashes, also when one user is added twice at once (the primary key refuses
  one).
* `OrphansNamed` says when a read state exists for a non-member: a departure is
  under way, its delete failed, or a mark or a join overtook it.
* `AdminNamed` says when a group has no admin, and gets none for good: adding the
  admin failed after the group was created (nothing rolls it back), the creator
  joined the public group from elsewhere first and so became a plain member, the
  process died in between, or the admin left. Otherwise there is one admin, or one
  request that is about to add it, and never two.
* `ReadMonotonic` fails without any failure: a departure, a new join and a mark
  go between the two statements of an older departure.
  `OnlyLeavingForgets` is the guarantee that is left.

### Proofs (`GroupsProofs.tla`)

From `GroupsAssumption` only, for every instance. `OnlyLeavingForgets` needs only
`TypeOK`. `ReadGrounded` and `OrphansNamed` are proved together with `MarkInv`:
a mark that is about to be written has an id of the group, or zero; without it
`UpsertMonotonic` could write anything. `InviteAccounted` and `OverlapOnly` are
inductive with `TypeOK`. Their lemma `SetsMove` says how the sizes of the sets of
requests change when one request goes on, by adding to or removing from a finite
set; all steps that let nobody in and count nobody then fall under
`LinksQuietSafe`. `AdminNamed` is inductive with `TypeOK` (`AdminsNamed`); all that
touches neither a role nor the founding of a group falls under one lemma.

`MonotonicOneByOne` proves what the run `groups_read` refutes for overlapping
requests: with one request at a time (`\A q, r \in Requests : q = r`)
`ReadMonotonic` holds, failures and crashes included. Its invariant
`LeavingGone` says that who is about to be forgotten is not a member; with one
request nobody can come back in between.

## 6. History

`History.tla` is about one conversation, direct or of a group, and has one action
per database statement and Redis command.

| Model | Code |
|---|---|
| `rows`, `taken` | table `messages`: the rows by id, and the last id taken from the sequence; a row becomes visible (`Insert`) after its id is taken (`Send`) |
| `rows[i].status`, `.delivered`, `.read` | `status`, `is_delivered`, `is_read` |
| `position[u]` | table `group_read_states`: the last message of the group that u has read |
| `task[r]` | what a request does next: `insert`; `announce` (cache keys to invalidate, the conversation's before the lists); `tell` and `latest` (a read update); `fetch` and `store` (read-through) |
| `entry[k]` | the cached page (`Conv`) or a user's cached list (the user): the facts it holds and the limit it was fetched with |
| `page`, `sync`, `told` | what a paging client and a synchronising client have been given, and the last read update |
| `since`, `excused`, `late` | history: facts that came up after a statement, what an entry may lack, and ids that appeared too late |

What an entry holds is a set of facts: that a message was sent, each of its flags
(`is_delivered`, `is_read`), its status, and each message a member's read position
has passed. What an entry lacks is then a set, too. A cached page
holds its messages whole, as they were when they were fetched; a list shows the
last message and the unread count, which the messages' `is_read` determine in a
direct conversation and the reader's position in a group. `Now(k)` is what the
entry would hold if it were fetched now. `delivered_at` and `read_at` go with the
flags. Names and avatars of users and groups, whether a peer is online, the number
of members, order and layout are left out.

What is invalidated is not the same everywhere, and the model keeps the
differences: `SendMessage` invalidates nothing; `SendGroupMessage` the page and
the lists of all members; a chat message to a group the page and the lists of the
members except the sender's own (the operators `KeysOf`, `Forgone`). A delivered
receipt invalidates nothing. A read receipt of a single message invalidates the
sender's list and not the reader's; `MarkConversationRead` both lists, after its
read update; a group read mark (`MarkGroup`) the reader's own list, and it leaves
`is_read` as it is. No receipt invalidates the cached page: `GetMessages` goes on to
serve messages as unread until `ConversationTTL` is over or a message is sent.

### Runs

| Run | Instance | Checks |
|---|---|---|
| `history` | 2 users, 1 conversation, up to 4 messages, up to 2 requests at once, page cap 2, limits -1, 2 and 3, failing statements and commands, expiry, crashes | `TypeOK`, `StaleNamed`, `PagesComplete`, `SyncComplete`, `StatusBacked`, `UpdateGrounded`, `ImplementsConversation` |
| `status` | 1 message, one request at once, receipts only | violates `StatusProgresses` |

The operations act on different parts of the state. Each behaviour therefore has
one of fourteen *workloads* (variable `load`, chosen in `Init`): which operations are
asked for, how many messages there are and how many requests work at once. Every
pair of operations that act on the same state is together in some workload; the
theorems below hold for any set of workloads, the one that asks for everything
included. There are about 1.1 million states. `DefaultLimit` (50) and `PageCap` (100)
are scaled to 1 and 2, with one limit below the range, one at and one above the
cap: that keeps their order and the factor of two up to which a sync request may ask for more than it is given.
Ids are finite, so the system stops in the end: deadlock is not checked.

* `StaleNamed` is what the cache promises: what an entry lacks is about to be
  invalidated, or is missing for a named reason. The reasons are: `SendMessage`;
  the sender's own list after a chat message to a group; receipts, where they
  invalidate nothing (see above), so that flags and statuses in a page, delivered
  ones in lists, and the reader's list after a single read receipt are out of
  date with no overlap and no failure; a failed command or the end of the
  process; and a race, in `since`: a fetch, then a write and its invalidation, then
  the store. Whatever else is missing has been announced.
* `PagesComplete` says that following `next_cursor` skips nothing but what
  appeared behind the cursor or was missing from the cached first page. A cached
  page of an earlier, smaller limit only makes the first page shorter.
* `SyncComplete` says the same of sync by last id. Its `late` messages are those
  whose id was taken before, and whose row appeared after, a larger id was
  given out. Its second half is about `has_more`, and has the limit as a
  condition: with a limit over the cap the handler compares with the wrong one.
* `StatusBacked` is the guarantee that is left of status progression:
  `StatusProgresses` (BACKEND_API.md:602) fails because `MarkAsDelivered` sets the
  status whatever it was.
* `UpdateGrounded` is about the read update after `MarkConversationRead`, which
  takes the last message in a second statement: the update can name messages
  that appeared in between, and no others.
* `ImplementsConversation` forgets cache, requests and statuses: whatever they do,
  the clients see one conversation in which receipts are only added, a first page
  may be old but has no message that was never sent, and each later page and each
  batch is all there is between its bounds, and under the cap.

### Proofs (`HistoryProofs.tla`, `HistorySafety.tla`)

From `HistoryAssumption` and `NoneAssumption` (`None` is no row), for every instance.
`HistoryTypeCorrect` proves `TypeOK`. The other properties each have an inductive
invariant:

* `CacheInv` for `StaleNamed`: what a *fetched* page or list lacks, be it a message
  or what a message or position says, came up after the fetch (`FetchedInv`), and
  a page is not empty (`PageFacts`). Storing it is then harmless. Every writer falls under
  the lemma about a step that makes some facts true and has them invalidated
  later or excused (`CacheStep`).
* for `PagesComplete` and `SyncInv` for `SyncComplete`: what a limited query
  returns leaves no gap between its bounds, and the last id a client has was
  given to it;
* `StatusBacked` is inductive with `TypeOK`, and with the fact that a row is
  inserted under an id that is not visible;
* `TellInv` for `UpdateGrounded`: what a request is about to tell has been read
  before, and rows do not become unread;
* `TalkInv` for `ImplementsConversation` (`HistoryImplementsConversation`): ids are
  fresh, what is told is read, and `NoPhantoms`: no entry and no fetched page has a
  message that was never sent. `RowsChange` and `ClientsChange` sort the steps by what
  they do to the rows and to the clients, and each kind maps to one action of
  `Conversation` or to a stutter.

Two theorems say what the exceptions in these properties are due to.
`NothingMissedOneByOne`: when requests come one at a time (`atOnce = 1` in every
workload), clients miss nothing at all (`NothingMissed`, which is `PagesComplete` and
the first half of `SyncComplete`, both without `late`), whatever fails, whenever the process dies and
however old a cached page is. The invariant: at most one request is at work
(`Alone`), so a row appears after all that are visible (`InsertsLast`), and a cached
page leaves out nothing between two of its messages (`InOnePiece`).
`ReadingProgresses`: in a behaviour with no acknowledged delivery `StatusProgresses`
holds, so that `MarkAsDelivered` is the one statement that sets a status back.

That a page is never over the cap uses `DefaultLimit <= PageCap`, which
`HistoryAssumption` states (50 and 100 in the code).

## 7. Accounts

`Accounts.tla` has one action per database statement, Redis command and call of
the object store.

| Model | Code |
|---|---|
| `rows` | table `users` by email: name, avatar key, `is_online` |
| `handles` | the handles of public groups |
| `tokens` | table `refresh_tokens` by hash; `rotated` and `out` are both `revoked_at` |
| `objects`, `used` | the avatars in the store, and the keys generated |
| `seen[u]` | `online:users`, `online:<id>`, and the number of open connections |
| `task[r]` | what a request or presence goroutine does next. Work on a row or a name carries the row as it was read (`was`), because `userRepo.Update` saves all columns |
| `excused`, `since`, `unsure`, `from` | history: what differs for a reason the code leaves; names taken meanwhile; a failed check; the token a token replaces |

Abstractions. Passwords, access tokens and cookies keep no state in the server.
Avatar keys are fresh (they have a UUID). A handle is given for a public group
only. A request that is refused ends. Full names, which nothing checks, are left
out. A connection is open while its handler reads; which connection of a user is
registered is in `Hub`. When the process dies every connection ends and no deferred
call runs.

### Runs

| Run | Instance | Checks |
|---|---|---|
| `accounts` | 2 users, 3 names of which two differ in case, 3 tokens, 3 avatar keys, up to 3 tasks at once, failures, crashes | `TypeOK`, `NamesDistinct`, `RotatedOnce`, `AvatarsAgree`, `PresenceSettled`, `ImplementsSessions` |

Again a behaviour has one of six workloads: registering with creating groups and
renaming (twice, with one user and many names, and with two users and the two
spellings of one), renaming, sessions, avatars with renaming, presence with
renaming. Two tasks are enough for two checks to overlap, three for two presence
goroutines and a save. Three tokens make a token with two successors possible;
three avatar keys, one in the row, one being put and one being dropped. Users,
tokens and keys are finite, so the system stops in the end: deadlock is not
checked.

Each property has exceptions, and each exception is recorded by the step that
makes it, so that the property says that there are no others:

* `NamesDistinct`: the checks compare lower case and the unique indexes do not,
  nor do users and groups share an index. A name is taken twice only if it was
  taken by another request since this one began, or a failed lookup was read as
  "free".
* `RotatedOnce`: `RevokeByHash` does not say whether it revoked anything. Two
  refreshes, or a refresh and a logout, that both found the token valid both
  succeed; nothing else does.
* `AvatarsAgree`: an update saves the avatar key it read. If another save came
  between, the row gets back a key whose object is deleted, or an object is left
  without a row. Failed deletes and a crash leave objects behind.
* `PresenceSettled`: when no goroutine of a user is under way, Redis and the database
  say that the user is online exactly if a connection is open (the key may have
  expired, as nothing refreshes it). The exceptions: goroutines with opposite
  reports overlapped, for nothing orders them; a connection was closed while
  another stayed open, for the deferred call reports the user offline all the same;
  the process died with a connection or a goroutine, for nothing reports those
  users offline after a restart; a step failed; or a stale row was saved. An
  exception ends when a later goroutine runs alone and agrees with the connections.

`ImplementsSessions` looks at the tokens alone, over time: no step of any operation
brings a revoked token back or lets it expire again, a successor is of the same
user, and a token that is not shared has its successor after it was rotated, never
after a logout ended it. When two requests had a token at once (`shared`), which can
only begin before it has a successor, those promises lapse for that token.

### Proofs (`AccountsProofs.tla`, `AccountsSafety.tla`)

From `AccountsAssumption` and `NoneAssumption`, for every instance.
`AccountsTypeCorrect` proves `TypeOK` with `TypeInv`, which says how far each
operation can be and what it has by then (`Formed`): a row that is saved is a row
that was read, of a user that is registered. On it rest

* `TokensRotatedOnce`, with `TokenInv`: of a token that is not excused, at most one
  request is turning it or one successor exists; a token that can still be
  revoked has neither;
* `PresenceAgrees`, with `PresenceInv`: of a user who is not excused, every
  goroutine under way agrees with the open connections, and so does what it has
  written so far; when there is none, all that is written does;
* `NamesAreDistinct`, with `NamesInv`: past the check, a name belongs to nobody
  else, or the request has been told that it was taken;
* `AvatarsAgreeAlways`, with `KeyInv`, one key at a time: a key belongs to one user,
  an object that was put and not saved is known to one request only, and a row
  names what is being dropped only if saves have crossed;
* `AccountsImplementSessions`, from `TokenInv` and `SameUser` (a request that will
  issue a token does so for the user of the token it has revoked).

`NothingToExcuse` shows that the exceptions of these properties are about overlap
and failure and nothing else: without faults, with one task at a time in every
workload, and with one connection per user (`MaxConns = 1`), `excused` stays empty
for names, avatars and presence (`Unexcused`), so that `NamesDistinct`,
`AvatarsAgree` and `PresenceSettled` hold as a reader would state them without any
history. Its invariant `Alone` says that at most one task is under way and that the
row it has read is the current one. (`RotatedOnce` needs no such theorem: a token is
excused by a second request at the same token only.)

`StepKinds` sorts the steps by what they change; a lemma per invariant
(`TokensQuietKept`, `QuietKept`, `NamesQuiet`, `KeyQuiet`) covers the steps that do
not concern it.

## 8. What is proved, checked, and not covered

Every invariant and action property of a passing run is a theorem, and so are all
four refinements (`Registry`, `Mailbox`, `Conversation`, `Sessions`).
Three promises of the documents that a run refutes are theorems
under the assumption that makes them true: `AckedNotLost` without crashes, database
errors and vanishing peers (`KeptInFairWeather`), `ReadMonotonic` with one request
at a time (`MonotonicOneByOne`), `StatusProgresses` with no acknowledged delivery
(`ReadingProgresses`). A fourth, `ConnectedIsOnline`, is left to a user who opens one
connection (`SoleConnectionOnline`), and for the others `TakenOutByOlder` says by
whom they are taken out. `NothingToExcuse` and `NothingMissedOneByOne` do
the same for the exceptions in the properties of `Accounts` and `History`. These
assumptions are hypotheses of the single theorems; everything else rests on the
named assumptions of the modules alone.

Only model-checked are the liveness properties (`NoPingLeak`,
`DeadConnectionRemoved`, `BacklogFlushed`; and `QueuedReachesOnlineUser`, which a run
refutes), which are beyond TLAPS here.

Not modelled, by component (`PROJECT.json` says the same):

* versions, the wire format, wiring, HTTP helpers and validation: nothing changes
  state, or nothing interacts;
* the order and paging of several conversations in the unified list: the meaning
  of an SQL query;
* what has no caller: `RefreshUserOnline`, the unread counts of the cache,
  `CleanupOld`, `CountPendingForUser`, `Revoke` of an invite;
* concurrent writes to one socket, whose outcome is the library's, and the
  library's recycling of connection objects;
* image processing, and the media handler, which only reads.
