--------------------------- MODULE AccountsProofs ---------------------------
(***************************************************************************)
(* Proofs about Accounts, for every set of users, names, tokens and tasks  *)
(* and all workloads: type correctness, and from it what the table of      *)
(* users, the refresh tokens, the avatars and presence promise.            *)
(***************************************************************************)
EXTENDS Accounts, TLAPS

-----------------------------------------------------------------------------
(***************************************************************************)
(* Type correctness: what a task holds depends on its operation.           *)
(***************************************************************************)

Changes == {"profile", "upload", "delete"}

\* How far an operation can be, and what it has by then.
Formed(t) ==
  /\ t.op = "register" => t.pc \in {"email", "user", "group", "insert"}
  /\ t.op = "create" => t.pc \in {"user", "group", "handle"} /\ Lower[t.name] = t.name
  /\ t.op = "profile" => /\ t.pc \in {"user", "group", "save"}
                         /\ t.was # None /\ t.key = t.was.avatar
  /\ t.op = "upload" => /\ t.pc \in {"put", "save"} /\ t.was # None
                        /\ t.pc = "save" => t.key \in Keys
  /\ t.op = "delete" => t.pc = "save" /\ t.was # None /\ t.key = None

\* What a task refers to is there: registered are the users, issued the tokens.
Sound(t, registered, issued) ==
  /\ t.pc \in WorkSteps => /\ Formed(t)
                           /\ t.op # "register" => t.user \in registered
  /\ t.pc = "rotate" => t.token \in issued
  /\ t.pc \in {"set", "key", "db"} => t.user \in registered

Issued == {t \in Tokens : tokens[t] # None}

Offline == [set |-> FALSE, key |-> FALSE, conns |-> 0]

TypeInv ==
  /\ TypeOK
  /\ \A q \in Requests : Sound(task[q], Registered, Issued)
  /\ \A u \in Users \ Registered : seen[u] = Offline

LEMMA TaskFields ==
  ASSUME NEW t \in Tasks
  PROVE  /\ t.pc = "idle" => t = Idle
         /\ t.pc \in WorkSteps => t \in Work
         /\ t.pc = "drop" => t.key \in Keys
         /\ t.pc = "rotate" => t.token \in Tokens
         /\ t.pc = "issue" => t.user \in Users /\ t.from \in Tokens \cup {None}
         /\ t.pc \in {"set", "key", "db"} => t.user \in Users /\ t.on \in BOOLEAN
         /\ t.pc \in WorkSteps
              \cup {"idle", "drop", "rotate", "issue", "set", "key", "db"}
  BY DEF Tasks, Work, WorkSteps, Idle

LEMMA TaskMaking ==
  /\ Idle \in Tasks /\ Work \subseteq Tasks
  /\ \A k \in Keys : [pc |-> "drop", key |-> k] \in Tasks
  /\ \A t \in Tokens : [pc |-> "rotate", token |-> t] \in Tasks
  /\ \A u \in Users, t \in Tokens \cup {None} :
       [pc |-> "issue", user |-> u, from |-> t] \in Tasks
  /\ \A u \in Users, on \in BOOLEAN, pc \in {"set", "key", "db"} :
       [pc |-> pc, user |-> u, on |-> on] \in Tasks
  BY DEF Tasks

\* Another name is claimed: nothing else of the task changes.
Like(a, b) ==
  \/ b = a
  \/ /\ a \in Work /\ b \in Work
     /\ b.pc = a.pc /\ b.op = a.op /\ b.user = a.user /\ b.was = a.was
     /\ b.name = a.name /\ b.key = a.key /\ b.unsure = a.unsure
     /\ a.since \subseteq b.since

LEMMA ClaimLike ==
  ASSUME TypeOK, NEW r \in Requests, NEW n \in Names, NEW t, Claim(r, n, t)
  PROVE  /\ task' = [q \in Requests |-> task'[q]]
         /\ \A q \in Requests :
              IF q = r THEN task'[q] = t
              ELSE /\ Like(task[q], task'[q])
                   /\ task[q].pc \in WorkSteps => Lower[n] \in task'[q].since
<1>1. Lower[n] \in Names
  BY AccountsAssumption
<1> SUFFICES ASSUME NEW q \in Requests, q # r
             PROVE  /\ Like(task[q], task'[q])
                    /\ task[q].pc \in WorkSteps => Lower[n] \in task'[q].since
  BY DEF Claim
<1>2. CASE task[q].pc \in WorkSteps
  <2>1. task[q] \in Work
    BY <1>2, TaskFields DEF TypeOK
  <2>2. task'[q] = [task[q] EXCEPT !.since = @ \cup {Lower[n]}]
    BY <1>2 DEF Claim
  <2>3. QED
    BY <1>1, <2>1, <2>2 DEF Work, Like
<1>3. CASE task[q].pc \notin WorkSteps
  BY <1>3 DEF Claim, Like
<1>4. QED
  BY <1>2, <1>3

LEMMA GoesLike ==
  ASSUME TypeOK, NEW r \in Requests, NEW t, Goto(r, t)
  PROVE  /\ task' = [q \in Requests |-> task'[q]]
         /\ \A q \in Requests : IF q = r THEN task'[q] = t ELSE Like(task[q], task'[q])
  BY DEF Goto, TypeOK, Like

\* The tasks, when one goes on to t and others stay as they are.
LEMMA TasksTyped ==
  ASSUME TypeInv, NEW r \in Requests, NEW t \in Tasks, Sound(t, Registered', Issued'),
         task' = [q \in Requests |-> task'[q]],
         \A q \in Requests : IF q = r THEN task'[q] = t ELSE Like(task[q], task'[q]),
         Registered \subseteq Registered', Issued \subseteq Issued'
  PROVE  /\ task' \in [Requests -> Tasks]
         /\ \A q \in Requests : Sound(task'[q], Registered', Issued')
<1>1. ASSUME NEW q \in Requests, q # r
      PROVE  task'[q] \in Tasks /\ Sound(task'[q], Registered', Issued')
  <2>1. task[q] \in Tasks /\ Sound(task[q], Registered, Issued)
    BY DEF TypeInv, TypeOK
  <2>2. CASE task'[q] = task[q]
    BY <2>1, <2>2 DEF Sound
  <2>3. CASE task'[q] # task[q]
    <3>1. task'[q] \in Work /\ Like(task[q], task'[q])
      BY <1>1, <2>3 DEF Like
    <3>2. Sound(task'[q], Registered', Issued')
      BY <2>1, <3>1 DEF Like, Sound, Formed, Work, WorkSteps
    <3>3. QED
      BY <3>1, <3>2, TaskMaking
  <2>4. QED
    BY <2>2, <2>3
<1>2. QED
  BY <1>1

\* A step that moves one task on, and changes nothing else.
LEMMA GoesTyped ==
  ASSUME TypeInv, NEW r \in Requests, NEW t \in Tasks, Sound(t, Registered, Issued),
         Goto(r, t), UNCHANGED <<load, rows, handles, tokens, objects, used, seen, excused>>
  PROVE  TypeInv'
<1>1. Registered' = Registered /\ Issued' = Issued
  BY DEF Registered, Issued
<1>2. /\ task' \in [Requests -> Tasks]
      /\ \A q \in Requests : Sound(task'[q], Registered', Issued')
  <2>1. TypeOK
    BY DEF TypeInv
  <2>2. QED
    BY <1>1, <2>1, GoesLike, TasksTyped
<1>3. QED
  BY <1>1, <1>2 DEF TypeInv, TypeOK

LEMMA RowsTyped ==
  ASSUME TypeOK, NEW u \in Registered
  PROVE  /\ u \in Users /\ rows[u] \in Rows /\ rows[u] # None
         /\ rows[u].name \in Names /\ rows[u].avatar \in Keys \cup {None}
         /\ rows[u].online \in BOOLEAN
  BY DEF TypeOK, Registered, Rows

LEMMA WorkingTyped ==
  ASSUME NEW pc \in WorkSteps, NEW op \in Operations, NEW u \in Users,
         NEW was \in Rows \cup {None}, NEW n \in Names, NEW k \in Keys \cup {None}
  PROVE  /\ Working(pc, op, u, was, n, k) \in Tasks
         /\ Working(pc, op, u, was, n, k).pc = pc /\ Working(pc, op, u, was, n, k).op = op
         /\ Working(pc, op, u, was, n, k).user = u
         /\ Working(pc, op, u, was, n, k).was = was
         /\ Working(pc, op, u, was, n, k).name = n /\ Working(pc, op, u, was, n, k).key = k
  BY TaskMaking DEF Working, Work

\* Requests begin.
LEMMA BeginTyped ==
  ASSUME TypeInv, NEW r \in Requests, NEW u \in Users,
         \/ \E n \in Names : Register(r, u, n) \/ CreateGroup(r, u, n) \/ UpdateProfile(r, u, n)
         \/ UploadAvatar(r, u) \/ DeleteAvatar(r, u) \/ Login(r, u)
  PROVE  TypeInv'
<1> USE DEF WorkSteps, Operations
<1>1. TypeOK
  BY DEF TypeInv
<1>2. ASSUME NEW n \in Names, Register(r, u, n) PROVE TypeInv'
  <2> DEFINE t == Working("email", "register", u, None, n, None)
  <2>1. t \in Tasks /\ t.pc = "email" /\ t.op = "register"
    BY WorkingTyped
  <2>2. Goto(r, t) /\ UNCHANGED <<load, rows, handles, tokens, objects, used, seen, excused>>
    BY <1>2 DEF Register
  <2> HIDE DEF t
  <2>3. QED
    BY <2>1, <2>2, GoesTyped DEF Sound, Formed
<1>3. ASSUME NEW n \in Names, CreateGroup(r, u, n) PROVE TypeInv'
  <2> DEFINE t == Working("user", "create", u, None, n, None)
  <2>1. /\ t \in Tasks /\ t.pc = "user" /\ t.op = "create" /\ t.user = u
        /\ Lower[t.name] = t.name /\ u \in Registered
    BY <1>3, WorkingTyped DEF CreateGroup
  <2>2. Goto(r, t) /\ UNCHANGED <<load, rows, handles, tokens, objects, used, seen, excused>>
    BY <1>3 DEF CreateGroup
  <2> HIDE DEF t
  <2>3. QED
    BY <2>1, <2>2, GoesTyped DEF Sound, Formed
<1>4. ASSUME NEW n \in Names, UpdateProfile(r, u, n) PROVE TypeInv'
  <2> DEFINE pc == IF n = rows[u].name THEN "save" ELSE "user"
             t == Working(pc, "profile", u, rows[u], n, rows[u].avatar)
  <2>1. u \in Registered /\ rows[u] \in Rows /\ rows[u] # None
        /\ rows[u].avatar \in Keys \cup {None}
    BY <1>1, <1>4, RowsTyped DEF UpdateProfile
  <2>2. /\ t \in Tasks /\ t.pc \in {"user", "save"} /\ t.op = "profile" /\ t.user = u
        /\ t.was = rows[u] /\ t.key = rows[u].avatar
    BY <2>1, WorkingTyped
  <2>3. Goto(r, t) /\ UNCHANGED <<load, rows, handles, tokens, objects, used, seen, excused>>
    BY <1>4 DEF UpdateProfile
  <2> HIDE DEF t
  <2>4. QED
    BY <2>1, <2>2, <2>3, GoesTyped DEF Sound, Formed
<1>5. CASE UploadAvatar(r, u)
  <2> DEFINE t == Working("put", "upload", u, rows[u], rows[u].name, None)
  <2>1. u \in Registered /\ rows[u] \in Rows /\ rows[u] # None /\ rows[u].name \in Names
    BY <1>1, <1>5, RowsTyped DEF UploadAvatar
  <2>2. t \in Tasks /\ t.pc = "put" /\ t.op = "upload" /\ t.user = u /\ t.was = rows[u]
    BY <2>1, WorkingTyped
  <2>3. Goto(r, t) /\ UNCHANGED <<load, rows, handles, tokens, objects, used, seen, excused>>
    BY <1>5 DEF UploadAvatar
  <2> HIDE DEF t
  <2>4. QED
    BY <2>1, <2>2, <2>3, GoesTyped DEF Sound, Formed
<1>6. CASE DeleteAvatar(r, u)
  <2> DEFINE t == Working("save", "delete", u, rows[u], rows[u].name, None)
  <2>1. u \in Registered /\ rows[u] \in Rows /\ rows[u] # None /\ rows[u].name \in Names
    BY <1>1, <1>6, RowsTyped DEF DeleteAvatar
  <2>2. /\ t \in Tasks /\ t.pc = "save" /\ t.op = "delete" /\ t.user = u
        /\ t.was = rows[u] /\ t.key = None
    BY <2>1, WorkingTyped
  <2>3. Goto(r, t) /\ UNCHANGED <<load, rows, handles, tokens, objects, used, seen, excused>>
    BY <1>6 DEF DeleteAvatar
  <2> HIDE DEF t
  <2>4. QED
    BY <2>1, <2>2, <2>3, GoesTyped DEF Sound, Formed
<1>7. CASE Login(r, u)
  <2> DEFINE t == [pc |-> "issue", user |-> u, from |-> None]
  <2>1. t \in Tasks /\ t.pc = "issue"
    BY TaskMaking
  <2>2. Goto(r, t) /\ UNCHANGED <<load, rows, handles, tokens, objects, used, seen, excused>>
    BY <1>7 DEF Login
  <2> HIDE DEF t
  <2>3. QED
    BY <2>1, <2>2, GoesTyped DEF Sound
<1>8. QED
  BY <1>2, <1>3, <1>4, <1>5, <1>6, <1>7

LEMMA IdleSound == Sound(Idle, Registered, Issued)
  BY DEF Sound, Idle, WorkSteps

\* A checked task goes on: it has the next step, and is unsure if a query failed.
LEMMA CheckedTask ==
  ASSUME TypeInv, NEW r \in Requests, Checking(r), NEW t,
         \/ t = [task[r] EXCEPT !.pc = AfterCheck(task[r])]
         \/ t = [task[r] EXCEPT !.pc = AfterCheck(task[r]), !.unsure = TRUE]
  PROVE  /\ task[r] \in Work /\ t \in Work /\ Sound(t, Registered, Issued)
         /\ t.op = task[r].op /\ t.user = task[r].user /\ t.was = task[r].was
         /\ t.name = task[r].name /\ t.key = task[r].key /\ t.since = task[r].since
         /\ t.pc = AfterCheck(task[r])
         /\ t.unsure \in {task[r].unsure, TRUE}
<1> DEFINE a == task[r]
           next == AfterCheck(a)
<1>1. a \in Work /\ a.pc \in {"email", "user", "group"} /\ Sound(a, Registered, Issued)
  BY TaskFields DEF Checking, TypeInv, TypeOK, WorkSteps
<1>2. a.op \in {"register", "create", "profile"}
  BY <1>1 DEF Sound, Formed, Work, Operations, WorkSteps
<1>3. /\ a.pc = "email" => next = "user"
      /\ a.pc = "user" => next = "group"
      /\ a.pc = "group" => next = IF a.op = "register" THEN "insert"
                                  ELSE IF a.op = "create" THEN "handle" ELSE "save"
  BY <1>1, <1>2 DEF AfterCheck
<1>4. next \in WorkSteps
  BY <1>1, <1>3 DEF WorkSteps
<1> HIDE DEF next
<1>5. /\ t \in Work
      /\ t.op = a.op /\ t.user = a.user /\ t.was = a.was
      /\ t.name = a.name /\ t.key = a.key /\ t.since = a.since
      /\ t.pc = next /\ t.unsure \in {a.unsure, TRUE}
  BY <1>1, <1>4 DEF Work, next
<1>6. Sound(t, Registered, Issued)
  BY <1>1, <1>2, <1>3, <1>5 DEF Sound, Formed, WorkSteps
<1>7. QED
  BY <1>1, <1>5, <1>6 DEF next

LEMMA SharedTyped ==
  ASSUME NEW t \in Work
  PROVE  Shared(t) \subseteq Names /\ Lower[t.name] \in Names
  BY AccountsAssumption DEF Shared, Work

LEMMA DropTyped ==
  ASSUME NEW k \in Keys \cup {None}
  PROVE  /\ DropOr(k) \in Tasks /\ Sound(DropOr(k), Registered, Issued)
         /\ Sound(DropOr(k), Registered', Issued')
         /\ DropOr(k).pc \in {"idle", "drop"}
         /\ DropOr(k).pc = "drop" => k # None /\ DropOr(k).key = k
  BY TaskMaking DEF DropOr, Sound, Idle, WorkSteps

\* What a save has in its hands.
LEMMA SaveFields ==
  ASSUME TypeInv, NEW r \in Requests, At(r, "save")
  PROVE  /\ task[r] \in Work /\ task[r].op \in Changes
         /\ task[r].user \in Registered /\ task[r].was \in Rows
         /\ task[r].was.avatar \in Keys \cup {None} /\ task[r].key \in Keys \cup {None}
         /\ task[r].op = "upload" => task[r].key \in Keys
         /\ task[r].op = "profile" => task[r].key = task[r].was.avatar
         /\ task[r].op = "delete" => task[r].key = None
<1> DEFINE t == task[r]
<1>1. t \in Work /\ Sound(t, Registered, Issued) /\ t.pc = "save"
  BY TaskFields DEF At, TypeInv, TypeOK, WorkSteps
<1>2. t.op \in Changes /\ t.user \in Registered /\ t.was # None
  BY <1>1 DEF Sound, Formed, WorkSteps, Work, Operations, Changes
<1>3. t.was \in Rows /\ t.key \in Keys \cup {None}
  BY <1>1, <1>2 DEF Work
<1>4. QED
  BY <1>1, <1>2, <1>3 DEF Sound, Formed, WorkSteps, Rows

\* Checks, and requests that end.
LEMMA CheckTyped ==
  ASSUME TypeInv, NEW r \in Requests, Check(r) \/ CheckFails(r) \/ Fails(r)
  PROVE  TypeInv'
<1>1. CASE Check(r) /\ ~Found(task[r])
  <2> DEFINE t == [task[r] EXCEPT !.pc = AfterCheck(task[r])]
  <2>1. Checking(r) /\ Goto(r, t)
        /\ UNCHANGED <<load, rows, handles, tokens, objects, used, seen, excused>>
    BY <1>1 DEF Check, To
  <2>2. t \in Tasks /\ Sound(t, Registered, Issued)
    BY <2>1, CheckedTask, TaskMaking
  <2> HIDE DEF t
  <2>3. QED
    BY <2>1, <2>2, GoesTyped
<1>2. CASE CheckFails(r)
  <2> DEFINE t == [task[r] EXCEPT !.pc = AfterCheck(task[r]), !.unsure = TRUE]
  <2>1. Checking(r) /\ Goto(r, t)
        /\ UNCHANGED <<load, rows, handles, tokens, objects, used, seen, excused>>
    BY <1>2 DEF CheckFails
  <2>2. t \in Tasks /\ Sound(t, Registered, Issued)
    BY <2>1, CheckedTask, TaskMaking
  <2> HIDE DEF t
  <2>3. QED
    BY <2>1, <2>2, GoesTyped
<1>3. CASE Fails(r) \/ (Check(r) /\ Found(task[r]))
  <2>1. Goto(r, Idle)
        /\ UNCHANGED <<load, rows, handles, tokens, objects, used, seen, excused>>
    BY <1>3 DEF Fails, Check
  <2>2. QED
    BY <2>1, GoesTyped, IdleSound, TaskMaking
<1>4. QED
  BY <1>1, <1>2, <1>3

LEMMA InsertTyped ==
  ASSUME TypeInv, NEW r \in Requests, Insert(r)
  PROVE  TypeInv'
<1> DEFINE m == task[r]
           t == [pc |-> "issue", user |-> m.user, from |-> None]
           row == [name |-> m.name, avatar |-> None, online |-> FALSE]
<1>1. m \in Work /\ m.user \in Users /\ m.name \in Names /\ TypeOK
  BY TaskFields DEF Insert, At, TypeInv, TypeOK, WorkSteps, Work
<1>2. /\ rows' = [rows EXCEPT ![m.user] = row] /\ Claim(r, m.name, t)
      /\ excused' = [excused EXCEPT !["names"] = @ \cup Shared(m)]
      /\ UNCHANGED <<load, handles, tokens, objects, used, seen>>
  BY DEF Insert, Excuse
<1>3. row \in Rows /\ row # None
  <2>1. row \in Rows
    BY <1>1 DEF Rows
  <2> HIDE DEF row
  <2>2. QED
    BY <2>1, NoneAssumption
<1>4. /\ rows' \in [Users -> Rows \cup {None}]
      /\ Registered \subseteq Registered' /\ Issued' = Issued
  BY <1>1, <1>2, <1>3 DEF TypeOK, Registered, Issued
<1>5. t \in Tasks /\ Sound(t, Registered', Issued')
  BY <1>1, TaskMaking DEF Sound, WorkSteps
<1>6. /\ task' \in [Requests -> Tasks]
      /\ \A q \in Requests : Sound(task'[q], Registered', Issued')
  <2> HIDE DEF t, m
  <2>1. QED
    BY <1>1, <1>2, <1>4, <1>5, ClaimLike, TasksTyped
<1>7. excused' \in [names : SUBSET Names, tokens : SUBSET Tokens,
                    keys : SUBSET Keys, users : SUBSET Users]
  BY <1>1, <1>2, SharedTyped DEF TypeOK
<1>8. TypeOK'
  BY <1>1, <1>2, <1>4, <1>6, <1>7 DEF TypeOK
<1>9. QED
  BY <1>2, <1>4, <1>6, <1>8 DEF TypeInv

LEMMA InsertHandleTyped ==
  ASSUME TypeInv, NEW r \in Requests, InsertHandle(r)
  PROVE  TypeInv'
<1> DEFINE m == task[r]
<1>1. m \in Work /\ m.name \in Names /\ TypeOK
  BY TaskFields DEF InsertHandle, At, TypeInv, TypeOK, WorkSteps, Work
<1>2. /\ handles' = handles \cup {m.name} /\ Claim(r, m.name, Idle)
      /\ excused' = [excused EXCEPT !["names"] = @ \cup Shared(m)]
      /\ UNCHANGED <<load, rows, tokens, objects, used, seen>>
  BY DEF InsertHandle, Excuse
<1>3. Registered' = Registered /\ Issued' = Issued
  BY <1>2 DEF Registered, Issued
<1>4. /\ task' \in [Requests -> Tasks]
      /\ \A q \in Requests : Sound(task'[q], Registered', Issued')
  <2>1. Sound(Idle, Registered', Issued') /\ Idle \in Tasks
    BY <1>3, IdleSound, TaskMaking
  <2> HIDE DEF m
  <2>2. QED
    BY <1>1, <1>2, <1>3, <2>1, ClaimLike, TasksTyped
<1>5. excused' \in [names : SUBSET Names, tokens : SUBSET Tokens,
                    keys : SUBSET Keys, users : SUBSET Users]
  BY <1>1, <1>2, SharedTyped DEF TypeOK
<1>6. TypeOK'
  BY <1>1, <1>2, <1>4, <1>5 DEF TypeOK
<1>7. QED
  BY <1>2, <1>3, <1>4, <1>6 DEF TypeInv

\* Avatars, and the rows that name them.
LEMMA AvatarTyped ==
  ASSUME TypeInv, NEW r \in Requests,
         \/ \E k \in Keys : PutObject(r, k) \/ PutFails(r, k)
         \/ SaveFails(r) \/ DeleteObject(r) \/ DeleteObjectFails(r)
  PROVE  TypeInv'
<1>1. TypeOK
  BY DEF TypeInv
<1>2. ASSUME NEW k \in Keys, PutObject(r, k) PROVE TypeInv'
  <2> DEFINE t == [task[r] EXCEPT !.pc = "save", !.key = k]
  <2>1. /\ Goto(r, t) /\ used' = used \cup {k} /\ objects' = objects \cup {k}
        /\ task[r].pc = "put" /\ UNCHANGED <<load, rows, handles, tokens, seen, excused>>
    BY <1>2 DEF PutObject, At
  <2>2. task[r] \in Work /\ Sound(task[r], Registered, Issued)
    BY <2>1, TaskFields DEF TypeInv, TypeOK, WorkSteps
  <2>3. task[r].op = "upload"
    BY <2>1, <2>2 DEF Sound, Formed, WorkSteps, Work, Operations
  <2>4. t \in Work /\ t.op = "upload" /\ t.pc = "save" /\ t.key = k
        /\ t.user = task[r].user /\ t.was = task[r].was
    BY <2>2, <2>3 DEF Work, WorkSteps
  <2>5. Registered' = Registered /\ Issued' = Issued
    BY <2>1 DEF Registered, Issued
  <2>6. Sound(t, Registered', Issued')
    BY <2>1, <2>2, <2>3, <2>4, <2>5 DEF Sound, Formed, WorkSteps
  <2>7. /\ task' \in [Requests -> Tasks]
        /\ \A q \in Requests : Sound(task'[q], Registered', Issued')
    <3> HIDE DEF t
    <3>1. QED
      BY <1>1, <2>1, <2>4, <2>5, <2>6, GoesLike, TasksTyped, TaskMaking
  <2>8. QED
    BY <2>1, <2>5, <2>7 DEF TypeInv, TypeOK
<1>3. ASSUME Goto(r, Idle), UNCHANGED <<load, rows, handles, tokens, seen>>,
             objects' \subseteq used', used' \subseteq Keys,
             excused' \in [names : SUBSET Names, tokens : SUBSET Tokens,
                           keys : SUBSET Keys, users : SUBSET Users]
      PROVE  TypeInv'
  <2>1. Registered' = Registered /\ Issued' = Issued
    BY <1>3 DEF Registered, Issued
  <2>2. Idle \in Tasks /\ Sound(Idle, Registered', Issued')
    BY <2>1, IdleSound, TaskMaking
  <2>3. /\ task' \in [Requests -> Tasks]
        /\ \A q \in Requests : Sound(task'[q], Registered', Issued')
    BY <1>1, <1>3, <2>1, <2>2, GoesLike, TasksTyped
  <2>4. QED
    BY <1>3, <2>1, <2>3 DEF TypeInv, TypeOK
<1>4. \A k \in Keys : Excuse("keys", {k}) =>
        excused' \in [names : SUBSET Names, tokens : SUBSET Tokens,
                      keys : SUBSET Keys, users : SUBSET Users]
  BY <1>1 DEF Excuse, TypeOK
<1>5. ASSUME NEW k \in Keys, PutFails(r, k) PROVE TypeInv'
  BY <1>1, <1>3, <1>4, <1>5 DEF PutFails, TypeOK
<1>6. CASE SaveFails(r)
  <2> DEFINE k == IF task[r].op = "upload" THEN task[r].key ELSE None
  <2>1. k \in Keys \cup {None}
    BY <1>6, SaveFields DEF SaveFails
  <2>2. Goto(r, DropOr(k))
        /\ UNCHANGED <<load, rows, handles, tokens, objects, used, seen, excused>>
    BY <1>6 DEF SaveFails
  <2> HIDE DEF k
  <2>3. QED
    BY <2>1, <2>2, DropTyped, GoesTyped
<1>7. CASE DeleteObject(r)
  BY <1>1, <1>3, <1>7 DEF DeleteObject, TypeOK
<1>8. CASE DeleteObjectFails(r)
  <2>1. task[r].key \in Keys
    BY <1>1, <1>8, TaskFields DEF DeleteObjectFails, At, TypeOK
  <2>2. QED
    BY <1>1, <1>3, <1>4, <1>8, <2>1 DEF DeleteObjectFails, TypeOK
<1>9. QED
  BY <1>2, <1>5, <1>6, <1>7, <1>8

\* What a save does, in plain terms.
LEMMA SaveEffect ==
  ASSUME TypeInv, NEW r \in Requests, Save(r)
  PROVE  LET m == task[r]
             u == m.user
             t == DropOr(OldKey(m))
         IN  /\ NameFree(u, m.name)
             /\ m \in Work /\ m.pc = "save" /\ u \in Registered
             /\ OldKey(m) = IF m.op = "profile" THEN None ELSE m.was.avatar
             /\ OldKey(m) \in Keys \cup {None}
             /\ rows' \in [Users -> Rows \cup {None}] /\ Registered' = Registered
             /\ \A v \in Registered \ {u} : rows'[v] = rows[v]
             /\ rows'[u].name = m.name /\ rows'[u].avatar = m.key
             /\ rows'[u].online = m.was.online
             /\ task' = [q \in Requests |-> task'[q]]
             /\ \A q \in Requests :
                  IF q = r THEN task'[q] = t
                  ELSE /\ Like(task[q], task'[q])
                       /\ (rows[u].name # m.name /\ task[q].pc \in WorkSteps)
                            => Lower[m.name] \in task'[q].since
<1> DEFINE m == task[r]
           u == m.user
           t == DropOr(OldKey(m))
           row == [m.was EXCEPT !.name = m.name, !.avatar = m.key]
<1>1. TypeOK /\ m.pc = "save"
  BY DEF TypeInv, Save, At
<1>2. /\ m \in Work /\ m.op \in Changes /\ u \in Registered /\ m.was \in Rows
      /\ m.was.avatar \in Keys \cup {None} /\ m.key \in Keys \cup {None}
      /\ u \in Users /\ m.name \in Names
  BY SaveFields DEF Save, Work
<1>3. OldKey(m) = IF m.op = "profile" THEN None ELSE m.was.avatar
  BY <1>2 DEF OldKey, Changes
<1>4. /\ row \in Rows /\ row.name = m.name /\ row.avatar = m.key
      /\ row.online = m.was.online
  BY <1>2 DEF Rows
<1>5. row # None
  <2> HIDE DEF row
  <2>1. QED
    BY <1>4, NoneAssumption
<1>6. rows' = [rows EXCEPT ![u] = row] /\ NameFree(u, m.name)
      /\ (IF rows[u].name = m.name THEN Goto(r, t) ELSE Claim(r, m.name, t))
  BY DEF Save
<1>7. /\ rows' \in [Users -> Rows \cup {None}] /\ rows'[u] = row
      /\ \A v \in Users \ {u} : rows'[v] = rows[v]
  <2> HIDE DEF row, u
  <2>1. QED
    BY <1>1, <1>2, <1>4, <1>6 DEF TypeOK
<1>8. Registered' = Registered
  <2> HIDE DEF row, u
  <2>1. QED
    BY <1>2, <1>5, <1>7 DEF Registered
<1>9. /\ task' = [q \in Requests |-> task'[q]]
      /\ \A q \in Requests :
           IF q = r THEN task'[q] = t
           ELSE /\ Like(task[q], task'[q])
                /\ (rows[u].name # m.name /\ task[q].pc \in WorkSteps)
                     => Lower[m.name] \in task'[q].since
  <2> HIDE DEF t, u, m
  <2>1. CASE rows[u].name = m.name
    BY <1>1, <1>6, <2>1, GoesLike
  <2>2. CASE rows[u].name # m.name
    BY <1>1, <1>2, <1>6, <2>2, ClaimLike
  <2>3. QED
    BY <2>1, <2>2
<1>10. OldKey(m) \in Keys \cup {None}
  BY <1>2, <1>3
<1> HIDE DEF row
<1>11. QED
  BY <1>1, <1>2, <1>3, <1>4, <1>6, <1>7, <1>8, <1>9, <1>10 DEF Registered

LEMMA CrossedTyped ==
  ASSUME TypeInv, NEW r \in Requests, At(r, "save")
  PROVE  Crossed(task[r]) \subseteq Keys
  BY SaveFields, RowsTyped DEF TypeInv, Crossed

LEMMA SaveTyped ==
  ASSUME TypeInv, NEW r \in Requests, Save(r)
  PROVE  TypeInv'
<1> DEFINE m == task[r]
           u == m.user
           t == DropOr(OldKey(m))
<1>1. /\ m \in Work /\ m.pc = "save" /\ u \in Registered
      /\ OldKey(m) \in Keys \cup {None}
      /\ rows' \in [Users -> Rows \cup {None}] /\ Registered' = Registered
      /\ task' = [q \in Requests |-> task'[q]]
      /\ \A q \in Requests : IF q = r THEN task'[q] = t ELSE Like(task[q], task'[q])
  BY SaveEffect
<1>2. UNCHANGED <<load, handles, tokens, objects, used, seen>>
  BY DEF Save
<1>3. Issued' = Issued
  BY <1>2 DEF Issued
<1>4. t \in Tasks /\ Sound(t, Registered', Issued')
  BY <1>1, DropTyped
<1>5. /\ task' \in [Requests -> Tasks]
      /\ \A q \in Requests : Sound(task'[q], Registered', Issued')
  <2> HIDE DEF t
  <2>1. QED
    BY <1>1, <1>3, <1>4, TasksTyped
<1>6. excused' \in [names : SUBSET Names, tokens : SUBSET Tokens,
                    keys : SUBSET Keys, users : SUBSET Users]
  <2>1. Shared(m) \subseteq Names /\ Crossed(m) \subseteq Keys /\ u \in Users
    BY <1>1, SharedTyped, CrossedTyped DEF At, Registered
  <2>2. excused' = [excused EXCEPT
              !.names = @ \cup (IF rows[u].name = m.name THEN {} ELSE Shared(m)),
              !.keys  = @ \cup Crossed(m),
              !.users = @ \cup (IF rows[u].online = m.was.online THEN {} ELSE {u})]
    BY DEF Save
  <2> HIDE DEF m, u
  <2>3. QED
    BY <2>1, <2>2 DEF TypeInv, TypeOK
<1>7. QED
  BY <1>1, <1>2, <1>3, <1>5, <1>6 DEF TypeInv, TypeOK

\* What happens to refresh tokens.
LEMMA RevokedTyped ==
  ASSUME TypeOK, NEW t \in Issued, NEW how \in {"rotated", "out"}
  PROVE  /\ Revoked(t, how) \in [Tokens -> RefreshTokens \cup {None}]
         /\ \A s \in Tokens \ {t} : Revoked(t, how)[s] = tokens[s]
         /\ Revoked(t, how)[t] \in RefreshTokens
         /\ Revoked(t, how)[t].from = tokens[t].from
         /\ Revoked(t, how)[t].state = IF tokens[t].state \in {"valid", "expired"}
                                       THEN how ELSE tokens[t].state
         /\ {s \in Tokens : Revoked(t, how)[s] # None} = Issued
<1>1. t \in Tokens /\ tokens[t] \in RefreshTokens
  BY DEF Issued, TypeOK
<1> DEFINE new == [tokens[t] EXCEPT !.state = IF @ \in {"valid", "expired"}
                                              THEN how ELSE @]
<1>2. Revoked(t, how) = [tokens EXCEPT ![t] = new]
  BY <1>1 DEF Revoked, TypeOK
<1>3. /\ new \in RefreshTokens /\ new.from = tokens[t].from
      /\ new.state = IF tokens[t].state \in {"valid", "expired"}
                     THEN how ELSE tokens[t].state
  BY <1>1 DEF RefreshTokens
<1> HIDE DEF new
<1>4. new # None
  BY <1>3, NoneAssumption
<1>5. /\ \A s \in Tokens \ {t} : Revoked(t, how)[s] = tokens[s]
      /\ Revoked(t, how)[t] = new
      /\ Revoked(t, how) \in [Tokens -> RefreshTokens \cup {None}]
  BY <1>1, <1>2, <1>3 DEF TypeOK
<1>6. QED
  BY <1>1, <1>3, <1>4, <1>5 DEF Issued

LEMMA IssueFields ==
  ASSUME TypeInv, NEW r \in Requests, At(r, "issue")
  PROVE  task[r].user \in Users /\ task[r].from \in Tokens \cup {None}
  BY TaskFields DEF At, TypeInv, TypeOK

LEMMA RotateFields ==
  ASSUME TypeInv, NEW r \in Requests, At(r, "rotate")
  PROVE  task[r].token \in Issued /\ tokens[task[r].token] \in RefreshTokens
  BY DEF At, TypeInv, TypeOK, Sound, Issued

LEMMA SessionTyped ==
  ASSUME TypeInv, NEW r \in Requests,
         (\E t \in Tokens : Refresh(r, t) \/ Issue(r, t)) \/ Rotate(r)
  PROVE  TypeInv'
<1>1. TypeOK
  BY DEF TypeInv
<1>2. ASSUME NEW s \in Tokens, Refresh(r, s) PROVE TypeInv'
  <2> DEFINE t == [pc |-> "rotate", token |-> s]
  <2>1. /\ Goto(r, t) /\ s \in Issued
        /\ excused' = [excused EXCEPT !["tokens"] = @ \cup IF Rotating(s) = {} THEN {} ELSE {s}]
        /\ UNCHANGED <<load, rows, handles, tokens, objects, used, seen>>
    BY <1>2 DEF Refresh, Valid, Issued, Excuse
  <2>2. Registered' = Registered /\ Issued' = Issued
    BY <2>1 DEF Registered, Issued
  <2>3. t \in Tasks /\ Sound(t, Registered', Issued')
    BY <2>1, <2>2, TaskMaking DEF Sound, WorkSteps
  <2>4. excused' \in [names : SUBSET Names, tokens : SUBSET Tokens,
                      keys : SUBSET Keys, users : SUBSET Users]
    BY <1>1, <2>1 DEF TypeOK
  <2>5. /\ task' \in [Requests -> Tasks]
        /\ \A q \in Requests : Sound(task'[q], Registered', Issued')
    <3> HIDE DEF t
    <3>1. QED
      BY <1>1, <2>1, <2>2, <2>3, GoesLike, TasksTyped
  <2>6. QED
    BY <2>1, <2>2, <2>4, <2>5 DEF TypeInv, TypeOK
<1>3. CASE Rotate(r)
  <2> DEFINE s == task[r].token
             t == [pc |-> "issue", user |-> tokens[s].user, from |-> s]
  <2>1. /\ At(r, "rotate") /\ tokens' = Revoked(s, "rotated") /\ Goto(r, t)
        /\ UNCHANGED <<load, rows, handles, objects, used, seen, excused>>
    BY <1>3 DEF Rotate
  <2>2. s \in Issued /\ s \in Tokens /\ tokens[s].user \in Users
    BY <2>1, RotateFields DEF Issued, RefreshTokens
  <2>3. tokens' \in [Tokens -> RefreshTokens \cup {None}] /\ Issued' = Issued
    <3> HIDE DEF s
    <3>1. QED
      BY <1>1, <2>1, <2>2, RevokedTyped DEF Issued
  <2>4. Registered' = Registered
    BY <2>1 DEF Registered
  <2>5. t \in Tasks /\ Sound(t, Registered', Issued')
    BY <2>2, TaskMaking DEF Sound, WorkSteps
  <2>6. /\ task' \in [Requests -> Tasks]
        /\ \A q \in Requests : Sound(task'[q], Registered', Issued')
    <3> HIDE DEF t
    <3>1. QED
      BY <1>1, <2>1, <2>3, <2>4, <2>5, GoesLike, TasksTyped
  <2>7. QED
    BY <2>1, <2>3, <2>4, <2>6 DEF TypeInv, TypeOK
<1>4. ASSUME NEW s \in Tokens, Issue(r, s) PROVE TypeInv'
  <2> DEFINE new == [user |-> task[r].user, from |-> task[r].from, state |-> "valid"]
  <2>1. /\ At(r, "issue") /\ tokens' = [tokens EXCEPT ![s] = new] /\ Goto(r, Idle)
        /\ UNCHANGED <<load, rows, handles, objects, used, seen, excused>>
    BY <1>4 DEF Issue
  <2>2. new \in RefreshTokens
    BY <2>1, IssueFields DEF RefreshTokens
  <2> HIDE DEF new
  <2>3. new # None
    BY <2>2, NoneAssumption
  <2>4. /\ tokens' \in [Tokens -> RefreshTokens \cup {None}]
        /\ Issued \subseteq Issued' /\ Registered' = Registered
    BY <1>1, <2>1, <2>2, <2>3 DEF TypeOK, Issued, Registered
  <2>5. Idle \in Tasks /\ Sound(Idle, Registered', Issued')
    BY TaskMaking DEF Sound, Idle, WorkSteps
  <2>6. /\ task' \in [Requests -> Tasks]
        /\ \A q \in Requests : Sound(task'[q], Registered', Issued')
    BY <1>1, <2>1, <2>4, <2>5, GoesLike, TasksTyped
  <2>7. QED
    BY <2>1, <2>4, <2>6 DEF TypeInv, TypeOK
<1>5. QED
  BY <1>2, <1>3, <1>4

\* Steps of no request.
LEMMA OtherTyped ==
  ASSUME TypeInv,
         \/ \E t \in Tokens : Logout(t) \/ ExpireToken(t)
         \/ \E u \in Users : KeyExpires(u)
         \/ Crash \/ UNCHANGED vars
  PROVE  TypeInv'
<1>1. TypeOK
  BY DEF TypeInv
<1>2. ASSUME task' = task, Registered' = Registered, Issued' = Issued, TypeOK',
             \A u \in Users \ Registered : seen'[u] = seen[u]
      PROVE  TypeInv'
  BY <1>2 DEF TypeInv
<1>3. ASSUME NEW t \in Tokens, Logout(t) PROVE TypeInv'
  <2>1. /\ t \in Issued /\ tokens' = Revoked(t, "out")
        /\ excused' = [excused EXCEPT !["tokens"] = @ \cup IF Rotating(t) = {} THEN {} ELSE {t}]
        /\ UNCHANGED <<load, rows, handles, objects, used, seen, task>>
    BY <1>3 DEF Logout, Issued, Excuse
  <2>2. tokens' \in [Tokens -> RefreshTokens \cup {None}] /\ Issued' = Issued
    BY <1>1, <2>1, RevokedTyped DEF Issued
  <2>3. TypeOK'
    BY <1>1, <2>1, <2>2 DEF TypeOK
  <2>4. QED
    BY <1>2, <2>1, <2>2, <2>3 DEF Registered
<1>4. ASSUME NEW t \in Tokens, ExpireToken(t) PROVE TypeInv'
  <2> DEFINE new == [tokens[t] EXCEPT !.state = "expired"]
  <2>1. /\ tokens' = [tokens EXCEPT ![t] = new] /\ tokens[t] \in RefreshTokens
        /\ UNCHANGED <<load, rows, handles, objects, used, seen, task, excused>>
    BY <1>1, <1>4 DEF ExpireToken, Valid, TypeOK
  <2>2. new \in RefreshTokens
    BY <2>1 DEF RefreshTokens
  <2> HIDE DEF new
  <2>3. new # None /\ tokens[t] # None
    BY <2>1, <2>2, NoneAssumption
  <2>4. tokens' \in [Tokens -> RefreshTokens \cup {None}] /\ Issued' = Issued
    BY <1>1, <2>1, <2>2, <2>3 DEF TypeOK, Issued
  <2>5. TypeOK'
    BY <1>1, <2>1, <2>4 DEF TypeOK
  <2>6. QED
    BY <1>2, <2>1, <2>4, <2>5 DEF Registered
<1>5. ASSUME NEW u \in Users, KeyExpires(u) PROVE TypeInv'
  <2>1. /\ seen' = [seen EXCEPT ![u].key = FALSE] /\ seen[u].key
        /\ UNCHANGED <<load, rows, handles, tokens, objects, used, task, excused>>
    BY <1>5 DEF KeyExpires
  <2>2. u \in Registered
    BY <2>1 DEF TypeInv, Offline
  <2>3. seen' \in [Users -> Presence] /\ \A v \in Users \ {u} : seen'[v] = seen[v]
    BY <1>1, <2>1 DEF TypeOK, Presence
  <2>4. TypeOK'
    BY <1>1, <2>1, <2>3 DEF TypeOK
  <2>5. QED
    BY <1>2, <2>1, <2>2, <2>3, <2>4 DEF Registered, Issued
<1>6. CASE Crash
  <2>1. /\ task' = [r \in Requests |-> Idle]
        /\ seen' = [u \in Users |-> [seen[u] EXCEPT !.conns = 0]]
        /\ excused' = [excused EXCEPT
             !.keys  = @ \cup UNION {Held(task[r]) : r \in Requests},
             !.users = @ \cup {u \in Users : Connected(u) \/ Reporting(u) # {}}]
        /\ UNCHANGED <<load, rows, handles, tokens, objects, used>>
    BY <1>6 DEF Crash
  <2>2. Registered' = Registered /\ Issued' = Issued
    BY <2>1 DEF Registered, Issued
  <2>3. /\ task' \in [Requests -> Tasks]
        /\ \A q \in Requests : Sound(task'[q], Registered', Issued')
    BY <2>1, <2>2, TaskMaking, IdleSound
  <2>4. /\ seen' \in [Users -> Presence]
        /\ \A u \in Users \ Registered : seen'[u] = Offline
    <3>1. 0 \in 0 .. MaxConns
      BY AccountsAssumption
    <3>2. \A u \in Users : [seen[u] EXCEPT !.conns = 0] \in Presence
      BY <1>1, <3>1 DEF TypeOK, Presence
    <3>3. [Offline EXCEPT !.conns = 0] = Offline
      BY DEF Offline
    <3>4. QED
      BY <2>1, <3>2, <3>3 DEF TypeInv
  <2>5. \A r \in Requests : Held(task[r]) \subseteq Keys
    <3> TAKE r \in Requests
    <3>1. task[r] \in Tasks /\ Sound(task[r], Registered, Issued)
      BY DEF TypeInv, TypeOK
    <3>2. CASE task[r].pc = "drop"
      BY <3>1, <3>2, TaskFields DEF Held
    <3>3. CASE task[r].pc = "save" /\ task[r].op = "upload"
      BY <3>1, <3>3 DEF Held, Sound, Formed, WorkSteps
    <3>4. QED
      BY <3>2, <3>3 DEF Held
  <2>6. excused' \in [names : SUBSET Names, tokens : SUBSET Tokens,
                      keys : SUBSET Keys, users : SUBSET Users]
    <3>1. UNION {Held(task[r]) : r \in Requests} \subseteq Keys
      BY <2>5
    <3>2. {u \in Users : Connected(u) \/ Reporting(u) # {}} \subseteq Users
      OBVIOUS
    <3>3. QED
      BY <1>1, <2>1, <3>1, <3>2 DEF TypeOK
  <2>7. QED
    BY <1>1, <2>1, <2>2, <2>3, <2>4, <2>6 DEF TypeInv, TypeOK
<1>7. CASE UNCHANGED vars
  BY <1>7 DEF vars, TypeInv, TypeOK, Registered, Issued
<1>8. QED
  BY <1>3, <1>4, <1>5, <1>6, <1>7

LEMMA ReportFields ==
  ASSUME TypeInv, NEW r \in Requests, task[r].pc \in {"set", "key", "db"}
  PROVE  /\ task[r].user \in Registered /\ task[r].user \in Users
         /\ task[r].on \in BOOLEAN
         /\ \A pc \in {"set", "key", "db"} :
              /\ [task[r] EXCEPT !.pc = pc]
                   = [pc |-> pc, user |-> task[r].user, on |-> task[r].on]
              /\ [task[r] EXCEPT !.pc = pc] \in Tasks
              /\ Sound([task[r] EXCEPT !.pc = pc], Registered, Issued)
<1>1. task[r] \in Tasks /\ Sound(task[r], Registered, Issued)
  BY DEF TypeInv, TypeOK
<1>2. task[r].user \in Registered /\ task[r].user \in Users /\ task[r].on \in BOOLEAN
  BY <1>1, TaskFields DEF Sound
<1>3. task[r] \in [pc : {"set", "key", "db"}, user : Users, on : BOOLEAN]
  BY <1>1 DEF Tasks, Work, WorkSteps, Idle
<1>4. ASSUME NEW pc \in {"set", "key", "db"}
      PROVE  [task[r] EXCEPT !.pc = pc]
               = [pc |-> pc, user |-> task[r].user, on |-> task[r].on]
  BY <1>3
<1>5. QED
  BY <1>2, <1>4, TaskMaking DEF Sound, WorkSteps

\* What a step of a presence goroutine does.
LEMMA PresenceTyped ==
  ASSUME TypeInv, NEW r \in Requests,
         \/ \E u \in Users : Connect(r, u) \/ Disconnect(r, u)
         \/ ReportSet(r) \/ ReportKey(r) \/ ReportRow(r) \/ ReportFails(r)
  PROVE  TypeInv'
<1>1. TypeOK
  BY DEF TypeInv
<1>2. ASSUME NEW t \in Tasks, Sound(t, Registered, Issued), Goto(r, t),
             Registered' = Registered, rows' \in [Users -> Rows \cup {None}],
             seen' \in [Users -> Presence], \A u \in Users \ Registered : seen'[u] = seen[u],
             excused' \in [names : SUBSET Names, tokens : SUBSET Tokens,
                           keys : SUBSET Keys, users : SUBSET Users],
             UNCHANGED <<load, handles, tokens, objects, used>>
      PROVE  TypeInv'
  <2>1. Issued' = Issued
    BY <1>2 DEF Issued
  <2>2. /\ task' \in [Requests -> Tasks]
        /\ \A q \in Requests : Sound(task'[q], Registered', Issued')
    BY <1>1, <1>2, <2>1, GoesLike, TasksTyped
  <2>3. QED
    BY <1>1, <1>2, <2>1, <2>2 DEF TypeInv, TypeOK
<1>3. \A u \in Users : Excuse("users", {u}) =>
        excused' \in [names : SUBSET Names, tokens : SUBSET Tokens,
                      keys : SUBSET Keys, users : SUBSET Users]
  BY <1>1 DEF Excuse, TypeOK
<1>4. ASSUME NEW u \in Users, NEW on \in BOOLEAN, Report(r, u, on), u \in Registered,
             seen' \in [Users -> Presence], \A v \in Users \ {u} : seen'[v] = seen[v]
      PROVE  TypeInv'
  <2> DEFINE t == [pc |-> "set", user |-> u, on |-> on]
  <2>1. /\ Goto(r, t) /\ UNCHANGED <<load, rows, handles, tokens, objects, used>>
        /\ \E users \in SUBSET Users : excused' = [excused EXCEPT !.users = users]
    BY <1>1, <1>4 DEF Report, TypeOK
  <2>2. t \in Tasks /\ Sound(t, Registered, Issued)
    BY <1>4, TaskMaking DEF Sound, WorkSteps
  <2>3. excused' \in [names : SUBSET Names, tokens : SUBSET Tokens,
                      keys : SUBSET Keys, users : SUBSET Users]
    BY <1>1, <2>1 DEF TypeOK
  <2>4. Registered' = Registered /\ rows' \in [Users -> Rows \cup {None}]
    BY <1>1, <2>1 DEF Registered, TypeOK
  <2> HIDE DEF t
  <2>5. QED
    BY <1>2, <1>4, <2>1, <2>2, <2>3, <2>4
<1>5. ASSUME NEW u \in Users, Connect(r, u) PROVE TypeInv'
  <2>1. /\ u \in Registered /\ Report(r, u, TRUE) /\ seen[u].conns < MaxConns
        /\ seen' = [seen EXCEPT ![u].conns = @ + 1]
    BY <1>5 DEF Connect
  <2>2. seen' \in [Users -> Presence] /\ \A v \in Users \ {u} : seen'[v] = seen[v]
    <3> DEFINE p == [seen[u] EXCEPT !.conns = @ + 1]
    <3>1. seen[u] \in Presence /\ MaxConns \in Nat
      BY <1>1, AccountsAssumption DEF TypeOK
    <3>2. seen[u].conns + 1 \in 0 .. MaxConns
      BY <2>1, <3>1 DEF Presence
    <3>3. p \in Presence
      BY <3>1, <3>2 DEF Presence
    <3>4. seen' = [seen EXCEPT ![u] = p]
      BY <1>1, <2>1 DEF TypeOK
    <3> HIDE DEF p
    <3>5. QED
      BY <1>1, <3>3, <3>4 DEF TypeOK
  <2>3. QED
    BY <1>4, <2>1, <2>2
<1>6. ASSUME NEW u \in Users, Disconnect(r, u) PROVE TypeInv'
  <2>1. /\ Report(r, u, FALSE) /\ Connected(u)
        /\ seen' = [seen EXCEPT ![u].conns = @ - 1]
    BY <1>6 DEF Disconnect
  <2>2. u \in Registered
    BY <2>1 DEF TypeInv, Offline, Connected
  <2>3. seen' \in [Users -> Presence] /\ \A v \in Users \ {u} : seen'[v] = seen[v]
    <3> DEFINE p == [seen[u] EXCEPT !.conns = @ - 1]
    <3>1. seen[u] \in Presence /\ MaxConns \in Nat
      BY <1>1, AccountsAssumption DEF TypeOK
    <3>2. seen[u].conns - 1 \in 0 .. MaxConns
      BY <2>1, <3>1 DEF Presence, Connected
    <3>3. p \in Presence
      BY <3>1, <3>2 DEF Presence
    <3>4. seen' = [seen EXCEPT ![u] = p]
      BY <1>1, <2>1 DEF TypeOK
    <3> HIDE DEF p
    <3>5. QED
      BY <1>1, <3>3, <3>4 DEF TypeOK
  <2>4. QED
    BY <1>4, <2>1, <2>2, <2>3
<1>7. ASSUME At(r, "set") /\ ReportSet(r) PROVE TypeInv'
  <2> DEFINE t == [task[r] EXCEPT !.pc = "key"]
  <2>1. /\ seen' = [seen EXCEPT ![task[r].user].set = task[r].on] /\ Goto(r, t)
        /\ UNCHANGED <<load, rows, handles, tokens, objects, used, excused>>
    BY <1>7 DEF ReportSet, To
  <2>2. /\ task[r].user \in Registered /\ task[r].on \in BOOLEAN
        /\ t \in Tasks /\ Sound(t, Registered, Issued)
    BY <1>7, ReportFields DEF At
  <2> HIDE DEF t
  <2>3. seen' \in [Users -> Presence] /\ \A v \in Users \ Registered : seen'[v] = seen[v]
    BY <1>1, <2>1, <2>2 DEF TypeOK, Presence
  <2>4. QED
    BY <1>1, <1>2, <2>1, <2>2, <2>3 DEF TypeOK, Registered
<1>8. ASSUME At(r, "key") /\ ReportKey(r) PROVE TypeInv'
  <2> DEFINE t == [task[r] EXCEPT !.pc = "db"]
  <2>1. /\ seen' = [seen EXCEPT ![task[r].user].key = task[r].on] /\ Goto(r, t)
        /\ UNCHANGED <<load, rows, handles, tokens, objects, used, excused>>
    BY <1>8 DEF ReportKey, To
  <2>2. /\ task[r].user \in Registered /\ task[r].on \in BOOLEAN
        /\ t \in Tasks /\ Sound(t, Registered, Issued)
    BY <1>8, ReportFields DEF At
  <2> HIDE DEF t
  <2>3. seen' \in [Users -> Presence] /\ \A v \in Users \ Registered : seen'[v] = seen[v]
    BY <1>1, <2>1, <2>2 DEF TypeOK, Presence
  <2>4. QED
    BY <1>1, <1>2, <2>1, <2>2, <2>3 DEF TypeOK, Registered
<1>9. ASSUME ReportRow(r) PROVE TypeInv'
  <2> DEFINE u == task[r].user
             row == [rows[u] EXCEPT !.online = task[r].on]
  <2>1. /\ rows' = [rows EXCEPT ![u] = row] /\ Goto(r, Idle) /\ task[r].pc = "db"
        /\ UNCHANGED <<load, handles, tokens, objects, used, seen, excused>>
    BY <1>9 DEF ReportRow, At
  <2>2. u \in Registered /\ u \in Users /\ task[r].on \in BOOLEAN
    BY <2>1, ReportFields
  <2>3. row \in Rows
    BY <1>1, <2>2, RowsTyped DEF Rows
  <2>4. row # None
    <3> HIDE DEF row
    <3>1. QED
      BY <2>3, NoneAssumption
  <2> HIDE DEF row, u
  <2>5. rows' \in [Users -> Rows \cup {None}] /\ Registered' = Registered
    BY <1>1, <2>1, <2>2, <2>3, <2>4 DEF TypeOK, Registered
  <2>6. QED
    BY <1>1, <1>2, <2>1, <2>5, IdleSound, TaskMaking DEF TypeOK
<1>10. ASSUME ReportFails(r) PROVE TypeInv'
  <2>1. /\ task[r].pc \in {"set", "key", "db"} /\ Excuse("users", {task[r].user})
        /\ Goto(r, Idle) \/ Goto(r, [task[r] EXCEPT !.pc = "db"])
        /\ UNCHANGED <<load, rows, handles, tokens, objects, used, seen>>
    BY <1>10 DEF ReportFails, To
  <2>2. \E t \in Tasks : Sound(t, Registered, Issued) /\ Goto(r, t)
    BY <2>1, ReportFields, IdleSound, TaskMaking
  <2>3. excused' \in [names : SUBSET Names, tokens : SUBSET Tokens,
                      keys : SUBSET Keys, users : SUBSET Users]
    BY <1>3, <2>1, ReportFields
  <2>4. QED
    BY <1>1, <1>2, <2>1, <2>2, <2>3 DEF TypeOK, Registered
<1>11. QED
  BY <1>5, <1>6, <1>7, <1>8, <1>9, <1>10 DEF ReportSet, ReportKey

LEMMA InitTyped == Init => TypeInv
<1> SUFFICES ASSUME Init PROVE TypeInv
  OBVIOUS
<1>1. TypeOK
  BY AccountsAssumption, TaskMaking DEF Init, TypeOK, Presence
<1>2. Registered = {} /\ \A q \in Requests : task[q] = Idle
  BY DEF Init, Registered
<1>3. QED
  BY <1>1, <1>2, IdleSound DEF TypeInv, Init, Offline

LEMMA NextTyped ==
  ASSUME TypeInv, [Next]_vars
  PROVE  TypeInv'
<1>1. load.users \subseteq Users /\ load.names \subseteq Names
  BY AccountsAssumption DEF TypeInv, TypeOK
<1>2. ASSUME NEW r \in Requests, Step(r) PROVE TypeInv'
  <2>1. \/ \E u \in Users :
             \/ \E n \in Names : \/ Register(r, u, n) \/ CreateGroup(r, u, n)
                                 \/ UpdateProfile(r, u, n)
             \/ UploadAvatar(r, u) \/ DeleteAvatar(r, u) \/ Login(r, u)
        \/ \E u \in Users : Connect(r, u) \/ Disconnect(r, u)
        \/ Check(r) \/ CheckFails(r) \/ Fails(r)
        \/ Insert(r) \/ InsertHandle(r)
        \/ \E k \in Keys : PutObject(r, k) \/ PutFails(r, k)
        \/ SaveFails(r) \/ DeleteObject(r) \/ DeleteObjectFails(r)
        \/ Save(r)
        \/ (\E t \in Tokens : Refresh(r, t) \/ Issue(r, t)) \/ Rotate(r)
        \/ ReportSet(r) \/ ReportKey(r) \/ ReportRow(r) \/ ReportFails(r)
    BY <1>1, <1>2 DEF Step
  <2>2. QED
    BY <2>1, BeginTyped, CheckTyped, InsertTyped, InsertHandleTyped, AvatarTyped, SaveTyped,
       SessionTyped, PresenceTyped
<1>3. QED
  BY <1>2, OtherTyped DEF Next

LEMMA TypedAlways == Spec => []TypeInv
  BY InitTyped, NextTyped, PTL DEF Spec

\* Whatever requests overlap, and whatever fails: rows, tokens, objects and
\* tasks keep their types; in particular a row that is saved is always a row
\* that was read.
THEOREM AccountsTypeCorrect == Spec => []TypeOK
<1>1. TypeInv => TypeOK
  BY DEF TypeInv
<1>2. QED
  BY <1>1, TypedAlways, PTL

=============================================================================
