------------------------------ MODULE Accounts ------------------------------
(***************************************************************************)
(* The table of users and everything that writes to it: registering,       *)
(* renaming, avatars and their objects in the store, and presence; group   *)
(* handles, which share the users' name space; and refresh tokens.         *)
(* AuthService, UserService, AvatarService, the name part of GroupService  *)
(* (internal/service), the repositories and handlers around them, and the  *)
(* goroutines with which WebSocketHandler reports presence.                *)
(*                                                                         *)
(* A request, or a presence goroutine, is a task; every database           *)
(* statement, Redis command and call of the object store is a step of its  *)
(* own.  An account is known by its email.  UpdateProfile and both avatar  *)
(* operations read a row, change their copy of it, and save all of it.     *)
(***************************************************************************)
EXTENDS Integers, FiniteSets

CONSTANTS
  Users,      \* emails
  Names,      \* user names and group handles, as spelled
  Lower,      \* the lower case of each name
  Tokens,     \* bound: the refresh tokens, numbered as they are issued
  Keys,       \* bound: the avatar keys, numbered as they are generated
  None,
  Requests,   \* bound: the tasks under way at once
  MaxConns,   \* bound: the connections of a user
  Workloads,  \* what is asked of the server, for one behaviour each
  Faults      \* statements, commands and calls may fail, and the process die

ASSUME AccountsAssumption ==
  /\ Tokens \subseteq Nat /\ Keys \subseteq Nat
  /\ None \notin Keys \cup Tokens
  /\ Lower \in [Names -> Names]
  /\ MaxConns \in Nat
  /\ Faults \in BOOLEAN
  /\ \A w \in Workloads : w.names \subseteq Names /\ w.users \subseteq Users

VARIABLES
  load,     \* the workload of this behaviour
  rows,     \* table users, by email
  handles,  \* the handles in table groups
  tokens,   \* table refresh_tokens, by hash
  objects,  \* the avatars in the store
  used,     \* the avatar keys generated so far
  seen,     \* of each user: what Redis holds, and the open connections
  task,     \* what each task is doing
  excused   \* history: what differs for a reason the code leaves

vars == <<load, rows, handles, tokens, objects, used, seen, task, excused>>

Rows == [name : Names, avatar : Keys \cup {None}, online : BOOLEAN]

\* A token that is spent has been rotated, or its session logged out; in the
\* table both are revoked_at.  from is history: the token it replaces.
RefreshTokens == [user : Users, from : Tokens \cup {None},
                  state : {"valid", "expired", "rotated", "out"}]

ASSUME NoneAssumption == None \notin Rows \cup RefreshTokens

Presence == [set : BOOLEAN, key : BOOLEAN, conns : 0 .. MaxConns]

Idle == [pc |-> "idle"]

\* A request on a row or a name: the row as read, and the name and avatar it
\* is to get.  since and unsure are history: the names taken since it began,
\* and that a check has failed.
WorkSteps == {"email", "user", "group", "insert", "handle", "put", "save"}
Operations == {"register", "create", "profile", "upload", "delete"}
Work == [pc : WorkSteps, op : Operations, user : Users, was : Rows \cup {None},
         name : Names, key : Keys \cup {None}, since : SUBSET Names, unsure : BOOLEAN]

Tasks ==
  {Idle} \cup Work
    \cup [pc : {"drop"}, key : Keys]
    \cup [pc : {"rotate"}, token : Tokens]
    \cup [pc : {"issue"}, user : Users, from : Tokens \cup {None}]
    \cup [pc : {"set", "key", "db"}, user : Users, on : BOOLEAN]

TypeOK ==
  /\ load    \in Workloads
  /\ rows    \in [Users -> Rows \cup {None}]
  /\ handles \subseteq Names
  /\ tokens  \in [Tokens -> RefreshTokens \cup {None}]
  /\ objects \subseteq used /\ used \subseteq Keys
  /\ seen    \in [Users -> Presence]
  /\ task    \in [Requests -> Tasks]
  /\ excused \in [names : SUBSET Names, tokens : SUBSET Tokens,
                  keys : SUBSET Keys, users : SUBSET Users]

Init ==
  /\ load    \in Workloads
  /\ rows    = [u \in Users |-> None]
  /\ handles = {}
  /\ tokens  = [t \in Tokens |-> None]
  /\ objects = {} /\ used = {}
  /\ seen    = [u \in Users |-> [set |-> FALSE, key |-> FALSE, conns |-> 0]]
  /\ task    = [r \in Requests |-> Idle]
  /\ excused = [names |-> {}, tokens |-> {}, keys |-> {}, users |-> {}]

Registered == {u \in Users : rows[u] # None}

Serves(operation) == operation \in load.serves

\* A request comes in.
Begins(r) ==
  /\ task[r] = Idle
  /\ Cardinality({q \in Requests : task[q] # Idle}) < load.atOnce

At(r, pc) == task[r].pc = pc
Goto(r, t) == task' = [task EXCEPT ![r] = t]
To(r, pc) == Goto(r, [task[r] EXCEPT !.pc = pc])

Excuse(field, things) == excused' = [excused EXCEPT ![field] = @ \cup things]

Working(pc, op, u, was, name, key) ==
  [pc |-> pc, op |-> op, user |-> u, was |-> was, name |-> name, key |-> key,
   since |-> {}, unsure |-> FALSE]

-----------------------------------------------------------------------------
(***************************************************************************)
(* Names: Register, CreateGroupWithVisibility, UpdateProfile.              *)
(***************************************************************************)

\* FindByUsername and FindByHandle compare lower case.
UsersCalled(n) == {u \in Registered : Lower[rows[u].name] = Lower[n]}
TakenByUser(n) == UsersCalled(n) # {}

\* Handles are not looked at.
NeverTaken(n) == FALSE
TakenByGroup(n) == Lower[n] \in handles

\* History: somebody takes the name n while others are at work.
Claim(r, n, t) ==
  task' = [q \in Requests |->
             IF q = r THEN t
             ELSE IF task[q].pc \in WorkSteps
                  THEN [task[q] EXCEPT !.since = @ \cup {Lower[n]}]
                  ELSE task[q]]

\* History: why a name may be taken twice.
Shared(t) == IF Lower[t.name] \in t.since \/ t.unsure THEN {Lower[t.name]} ELSE {}

Register(r, u, n) ==
  /\ Serves("register")
  /\ Begins(r)
  /\ Goto(r, Working("email", "register", u, None, n, None))
  /\ UNCHANGED <<load, rows, handles, tokens, objects, used, seen, excused>>

\* A public group: handles are lower case.
CreateGroup(r, u, n) ==
  /\ Serves("create")
  /\ u \in Registered
  /\ Lower[n] = n
  /\ Begins(r)
  /\ Goto(r, Working("user", "create", u, None, n, None))
  /\ UNCHANGED <<load, rows, handles, tokens, objects, used, seen, excused>>

\* FindByID; a name that is new to the user is checked.
UpdateProfile(r, u, n) ==
  /\ Serves("profile")
  /\ u \in Registered
  /\ Begins(r)
  /\ Goto(r, Working(IF n = rows[u].name THEN "save" ELSE "user",
                     "profile", u, rows[u], n, rows[u].avatar))
  /\ UNCHANGED <<load, rows, handles, tokens, objects, used, seen, excused>>

\* What follows when the queries have found nothing.
AfterCheck(t) ==
  CASE t.pc = "email" -> "user"
    [] t.pc = "user" -> "group"
    [] t.pc = "group" /\ t.op = "register" -> "insert"
    [] t.pc = "group" /\ t.op = "create" -> "handle"
    [] t.pc = "group" /\ t.op = "profile" -> "save"

Checking(r) == task[r].pc \in {"email", "user", "group"}

Found(t) == CASE t.pc = "email" -> t.user \in Registered
              [] t.pc = "user" -> TakenByUser(t.name)
              [] t.pc = "group" -> TakenByGroup(t.name)

\* FindByEmail, FindByUsername, FindByHandle.
Check(r) ==
  /\ Checking(r)
  /\ IF Found(task[r]) THEN Goto(r, Idle) ELSE To(r, AfterCheck(task[r]))
  /\ UNCHANGED <<load, rows, handles, tokens, objects, used, seen, excused>>

\* The query fails, which is taken for an answer that there is no such row.
CheckFails(r) ==
  /\ Faults
  /\ Checking(r)
  /\ Goto(r, [task[r] EXCEPT !.pc = AfterCheck(task[r]), !.unsure = TRUE])
  /\ UNCHANGED <<load, rows, handles, tokens, objects, used, seen, excused>>

\* The unique indexes compare names as they are spelled.
NameFree(u, n) == \A v \in Registered \ {u} : rows[v].name # n

\* Create, then issueSession.
Insert(r) ==
  /\ At(r, "insert")
  /\ LET t == task[r]
     IN  /\ t.user \notin Registered /\ NameFree(t.user, t.name)
         /\ rows' = [rows EXCEPT ![t.user] =
                       [name |-> t.name, avatar |-> None, online |-> FALSE]]
         /\ Claim(r, t.name, [pc |-> "issue", user |-> t.user, from |-> None])
         /\ Excuse("names", Shared(t))
  /\ UNCHANGED <<load, handles, tokens, objects, used, seen>>

\* groupRepo.Create; the members of the group are in Groups.
InsertHandle(r) ==
  /\ At(r, "handle")
  /\ task[r].name \notin handles
  /\ handles' = handles \cup {task[r].name}
  /\ Claim(r, task[r].name, Idle)
  /\ Excuse("names", Shared(task[r]))
  /\ UNCHANGED <<load, rows, tokens, objects, used, seen>>

\* An index rejects the row, or a statement fails: the request ends.
Fails(r) ==
  /\ \/ At(r, "insert") /\ (\/ task[r].user \in Registered
                            \/ ~NameFree(task[r].user, task[r].name))
     \/ At(r, "handle") /\ task[r].name \in handles
     \/ Faults /\ task[r].pc \in {"insert", "handle", "rotate", "issue"}
  /\ Goto(r, Idle)
  /\ UNCHANGED <<load, rows, handles, tokens, objects, used, seen, excused>>

-----------------------------------------------------------------------------
(***************************************************************************)
(* Avatars: UploadAvatar, DeleteAvatar, and the save of a whole row.       *)
(***************************************************************************)

Fresh == {k \in Keys \ used : \A j \in Keys \ used : k <= j}

\* FindByID.
UploadAvatar(r, u) ==
  /\ Serves("avatar")
  /\ u \in Registered
  /\ Begins(r)
  /\ Goto(r, Working("put", "upload", u, rows[u], rows[u].name, None))
  /\ UNCHANGED <<load, rows, handles, tokens, objects, used, seen, excused>>

DeleteAvatar(r, u) ==
  /\ Serves("avatar")
  /\ u \in Registered
  /\ Begins(r)
  /\ Goto(r, Working("save", "delete", u, rows[u], rows[u].name, None))
  /\ UNCHANGED <<load, rows, handles, tokens, objects, used, seen, excused>>

\* The image is processed, and stored under a key of its own.
PutObject(r, k) ==
  /\ At(r, "put")
  /\ k \in Fresh
  /\ used' = used \cup {k}
  /\ objects' = objects \cup {k}
  /\ Goto(r, [task[r] EXCEPT !.pc = "save", !.key = k])
  /\ UNCHANGED <<load, rows, handles, tokens, seen, excused>>

\* The image is refused, or the call fails; the object may be there.
PutFails(r, k) ==
  /\ At(r, "put")
  /\ Goto(r, Idle)
  /\ \/ UNCHANGED <<objects, used, excused>>
     \/ /\ Faults
        /\ k \in Fresh
        /\ used' = used \cup {k}
        /\ objects' = objects \cup {k}
        /\ Excuse("keys", {k})
  /\ UNCHANGED <<load, rows, handles, tokens, seen>>

DropAlways(k) == [pc |-> "drop", key |-> k]
DropOr(k) == IF k = None THEN Idle ELSE [pc |-> "drop", key |-> k]

\* The key is taken from the row when it has been changed already.
NewKey(t) == IF t.op \in {"upload", "delete"} THEN t.key ELSE None

\* The object to delete after the save: that of the row as it was read.
OldKey(t) == IF t.op \in {"upload", "delete"} THEN t.was.avatar ELSE None

\* History: the avatars a save of t leaves without a row, or a row without.
Crossed(t) ==
  LET now == rows[t.user].avatar
  IN  IF now = t.was.avatar THEN {}
      ELSE ({now} \ {None, t.key})
             \cup (IF t.key = t.was.avatar THEN {t.key} \ {None} ELSE {})

\* userRepo.Update: all columns of the row as it was read, and the changes.
Save(r) ==
  /\ At(r, "save")
  /\ LET t == task[r]
         u == t.user
         after == DropOr(OldKey(t))
     IN  /\ NameFree(u, t.name)
         /\ rows' = [rows EXCEPT ![u] = [t.was EXCEPT !.name = t.name,
                                                      !.avatar = t.key]]
         /\ IF rows[u].name = t.name THEN Goto(r, after)
            ELSE Claim(r, t.name, after)
         /\ excused' = [excused EXCEPT
              !.names = @ \cup (IF rows[u].name = t.name THEN {} ELSE Shared(t)),
              !.keys  = @ \cup Crossed(t),
              !.users = @ \cup (IF rows[u].online = t.was.online THEN {} ELSE {u})]
  /\ UNCHANGED <<load, handles, tokens, objects, used, seen>>

\* Update fails: an avatar that has been put is deleted.
SaveFails(r) ==
  /\ At(r, "save")
  /\ Faults \/ ~NameFree(task[r].user, task[r].name)
  /\ Goto(r, DropOr(IF task[r].op = "upload" THEN task[r].key ELSE None))
  /\ UNCHANGED <<load, rows, handles, tokens, objects, used, seen, excused>>

DeleteObject(r) ==
  /\ At(r, "drop")
  /\ objects' = objects \ {task[r].key}
  /\ Goto(r, Idle)
  /\ UNCHANGED <<load, rows, handles, tokens, used, seen, excused>>

\* The error is ignored.
DeleteObjectFails(r) ==
  /\ Faults
  /\ At(r, "drop")
  /\ Excuse("keys", {task[r].key})
  /\ Goto(r, Idle)
  /\ UNCHANGED <<load, rows, handles, tokens, objects, used, seen>>

-----------------------------------------------------------------------------
(***************************************************************************)
(* Sessions: Login, RefreshSession, Logout.                                *)
(***************************************************************************)

\* FindByEmail, and the password is right.
Login(r, u) ==
  /\ Serves("session")
  /\ u \in Registered
  /\ Begins(r)
  /\ Goto(r, [pc |-> "issue", user |-> u, from |-> None])
  /\ UNCHANGED <<load, rows, handles, tokens, objects, used, seen, excused>>

Rotating(t) == {q \in Requests : At(q, "rotate") /\ task[q].token = t}

\* Only expires_at is looked at.
NotExpired(t) == tokens[t] # None /\ tokens[t].state # "expired"
Valid(t) == tokens[t] # None /\ tokens[t].state = "valid"

\* FindValidByHash, FindByID.  History: another request has found it, too.
Refresh(r, t) ==
  /\ Serves("session")
  /\ Begins(r)
  /\ Valid(t)
  /\ Goto(r, [pc |-> "rotate", token |-> t])
  /\ Excuse("tokens", IF Rotating(t) = {} THEN {} ELSE {t})
  /\ UNCHANGED <<load, rows, handles, tokens, objects, used, seen>>

\* Whether it is null or not.
RevokedAnew(t, how) == [tokens EXCEPT ![t].state = how]

\* Where revoked_at is still null.
Revoked(t, how) ==
  [tokens EXCEPT ![t].state = IF @ \in {"valid", "expired"} THEN how ELSE @]

\* RevokeByHash: that it has found nothing to revoke is no error.
Rotate(r) ==
  /\ At(r, "rotate")
  /\ tokens' = Revoked(task[r].token, "rotated")
  /\ Goto(r, [pc |-> "issue", user |-> tokens[task[r].token].user,
              from |-> task[r].token])
  /\ UNCHANGED <<load, rows, handles, objects, used, seen, excused>>

\* issueSession.
Issue(r, t) ==
  /\ At(r, "issue")
  /\ tokens[t] = None
  /\ \A s \in Tokens : tokens[s] = None => t <= s
  /\ tokens' = [tokens EXCEPT ![t] = [user |-> task[r].user, from |-> task[r].from,
                                      state |-> "valid"]]
  /\ Goto(r, Idle)
  /\ UNCHANGED <<load, rows, handles, objects, used, seen, excused>>

\* RevokeByHash, in one statement.  History: somebody has found it valid.
Logout(t) ==
  /\ Serves("session")
  /\ tokens[t] # None
  /\ tokens' = Revoked(t, "out")
  /\ Excuse("tokens", IF Rotating(t) = {} THEN {} ELSE {t})
  /\ UNCHANGED <<load, rows, handles, objects, used, seen, task>>

\* Seven days later.
ExpireToken(t) ==
  /\ Valid(t)
  /\ tokens' = [tokens EXCEPT ![t].state = "expired"]
  /\ UNCHANGED <<load, rows, handles, objects, used, seen, task, excused>>

-----------------------------------------------------------------------------
(***************************************************************************)
(* Presence: a goroutine for every connection that opens or closes.        *)
(***************************************************************************)

Reporting(u) ==
  {r \in Requests : task[r].pc \in {"set", "key", "db"} /\ task[r].user = u}

Connected(u) == seen[u].conns > 0

\* A goroutine starts to report u.  History: alone, and in agreement with the
\* open connections, it settles what is reported; if it is not in agreement
\* with them, or another goroutine reports the opposite, nothing is settled.
Report(r, u, on) ==
  /\ Goto(r, [pc |-> "set", user |-> u, on |-> on])
  /\ excused' = [excused EXCEPT !.users =
       IF Connected(u)' # on \/ \E q \in Reporting(u) : task[q].on # on
       THEN @ \cup {u}
       ELSE IF Reporting(u) = {} THEN @ \ {u} ELSE @]
  /\ UNCHANGED <<load, rows, handles, tokens, objects, used>>

Connect(r, u) ==
  /\ Serves("presence")
  /\ u \in Registered
  /\ Begins(r)
  /\ seen[u].conns < MaxConns
  /\ seen' = [seen EXCEPT ![u].conns = @ + 1]
  /\ Report(r, u, TRUE)

\* The deferred call of the handler does not look for other connections.
Disconnect(r, u) ==
  /\ Begins(r)
  /\ Connected(u)
  /\ seen' = [seen EXCEPT ![u].conns = @ - 1]
  /\ Report(r, u, FALSE)

\* Nothing but the set is told.
SetOnly(r) ==
  /\ At(r, "set")
  /\ seen' = [seen EXCEPT ![task[r].user].set = task[r].on]
  /\ Goto(r, Idle)
  /\ UNCHANGED <<load, rows, handles, tokens, objects, used, excused>>

\* SAdd and SRem online:users.
ReportSet(r) ==
  /\ At(r, "set")
  /\ seen' = [seen EXCEPT ![task[r].user].set = task[r].on]
  /\ To(r, "key")
  /\ UNCHANGED <<load, rows, handles, tokens, objects, used, excused>>

\* Set and Delete online:<id>.
ReportKey(r) ==
  /\ At(r, "key")
  /\ seen' = [seen EXCEPT ![task[r].user].key = task[r].on]
  /\ To(r, "db")
  /\ UNCHANGED <<load, rows, handles, tokens, objects, used, excused>>

\* UpdateOnlineStatus.
ReportRow(r) ==
  /\ At(r, "db")
  /\ rows' = [rows EXCEPT ![task[r].user].online = task[r].on]
  /\ Goto(r, Idle)
  /\ UNCHANGED <<load, handles, tokens, objects, used, seen, excused>>

\* After an error of Redis the database is still told.
ReportFails(r) ==
  /\ Faults
  /\ task[r].pc \in {"set", "key", "db"}
  /\ IF At(r, "db") THEN Goto(r, Idle) ELSE To(r, "db")
  /\ Excuse("users", {task[r].user})
  /\ UNCHANGED <<load, rows, handles, tokens, objects, used, seen>>

\* OnlineUsersTTL: nothing refreshes the key.
KeyExpires(u) ==
  /\ seen[u].key
  /\ seen' = [seen EXCEPT ![u].key = FALSE]
  /\ UNCHANGED <<load, rows, handles, tokens, objects, used, task, excused>>

-----------------------------------------------------------------------------
\* The avatars a request is to refer to, or to delete.
Held(t) == IF t.pc = "drop" \/ (t.pc = "save" /\ t.op = "upload") THEN {t.key} ELSE {}

\* The process dies, with its tasks and connections: no deferred call runs, and
\* nobody reports the users who were connected.
Crash ==
  /\ Faults
  /\ task' = [r \in Requests |-> Idle]
  /\ seen' = [u \in Users |-> [seen[u] EXCEPT !.conns = 0]]
  /\ excused' = [excused EXCEPT
       !.keys  = @ \cup UNION {Held(task[r]) : r \in Requests},
       !.users = @ \cup {u \in Users : Connected(u) \/ Reporting(u) # {}}]
  /\ UNCHANGED <<load, rows, handles, tokens, objects, used>>

Step(r) ==
  \/ \E u \in load.users : \/ \E n \in load.names : \/ Register(r, u, n)
                                                    \/ CreateGroup(r, u, n)
                                                    \/ UpdateProfile(r, u, n)
                           \/ UploadAvatar(r, u) \/ DeleteAvatar(r, u)
                           \/ Login(r, u)
                           \/ Connect(r, u) \/ Disconnect(r, u)
  \/ Check(r) \/ CheckFails(r) \/ Insert(r) \/ InsertHandle(r) \/ Fails(r)
  \/ \E k \in Keys : PutObject(r, k) \/ PutFails(r, k)
  \/ Save(r) \/ SaveFails(r) \/ DeleteObject(r) \/ DeleteObjectFails(r)
  \/ \E t \in Tokens : Refresh(r, t) \/ Issue(r, t)
  \/ Rotate(r)
  \/ ReportSet(r) \/ ReportKey(r) \/ ReportRow(r) \/ ReportFails(r)

Next ==
  \/ \E r \in Requests : Step(r)
  \/ \E t \in Tokens : Logout(t) \/ ExpireToken(t)
  \/ \E u \in Users : KeyExpires(u)
  \/ Crash

Spec == Init /\ [][Next]_vars

-----------------------------------------------------------------------------
(***************************************************************************)
(* Properties.                                                             *)
(***************************************************************************)

\* However it is spelled, a name belongs to one user or to one group, unless
\* it was taken twice by requests that overlapped, a row read before or a
\* check that failed (auth_service.go:57-69, user_service.go:34-45,
\* group_service.go:60-68).
NamesDistinct ==
  \A n \in Names : Lower[n] \notin excused.names =>
    /\ \A u, v \in UsersCalled(n) : u = v
    /\ Lower[n] \in handles => UsersCalled(n) = {}

\* A refresh token is replaced once, never while it is valid, and not at all
\* after a logout, unless a request had found it valid before another revoked
\* it (auth_service.go:118-142).
RotatedOnce ==
  \A t \in Tokens :
    LET heirs == {h \in Tokens : tokens[h] # None /\ tokens[h].from = t}
    IN  /\ tokens[t] # None /\ tokens[t].state = "valid" => heirs = {}
        /\ t \notin excused.tokens =>
             /\ \A g, h \in heirs : g = h
             /\ tokens[t] # None /\ tokens[t].state = "out" => heirs = {}

\* Seen from the table, the refresh tokens are sessions: a token never comes
\* back once it is revoked, and whatever replaces it is for the same user and
\* alone, unless two requests had it before it was replaced
\* (auth_service.go:118-168, refresh_token_repository.go:22-35).
Lives == INSTANCE Sessions WITH shared <- excused.tokens

ImplementsSessions == Lives!Spec

\* Whatever overlaps, a row names an avatar that is in the store, and the store
\* keeps what a row names or a request is about to name or delete, except the
\* avatars two overlapping saves have crossed, and what failures left behind
\* (avatar_service.go:44-115, user_service.go:48-84).
AvatarsAgree ==
  /\ \A u \in Registered :
       rows[u].avatar \in objects \cup excused.keys \cup {None}
  /\ objects \subseteq {rows[u].avatar : u \in Registered}
                         \cup (UNION {Held(task[r]) : r \in Requests})
                         \cup excused.keys

\* When no presence goroutine of a user is under way, Redis and the database
\* say that the user is online exactly if a connection is open (the key may
\* have expired), unless, since a goroutine last ran alone and agreed with the
\* connections, goroutines with opposite reports overlapped, a connection was
\* closed while another stayed open, the process died with a connection or a
\* goroutine, a step failed, or a stale row was saved
\* (websocket_handler.go:50-81, user_cache.go:24-52, user_repository.go:38-52).
PresenceSettled ==
  \A u \in Registered \ excused.users :
    Reporting(u) = {} =>
      /\ seen[u].set = Connected(u)
      /\ seen[u].key => Connected(u)
      /\ rows[u].online = Connected(u)

=============================================================================
