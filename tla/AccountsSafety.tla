--------------------------- MODULE AccountsSafety ---------------------------
(***************************************************************************)
(* Proofs about what Accounts promises: refresh tokens, presence, names    *)
(* and avatars, each from an inductive invariant.                          *)
(***************************************************************************)
EXTENDS AccountsProofs, FiniteSetTheorems

-----------------------------------------------------------------------------
(***************************************************************************)
(* Which steps change what.                                                *)
(***************************************************************************)

\* Requests on rows, names and avatars, and what such a step leaves alone.
WorkStep(r) ==
  \/ \E u \in Users :
       \/ \E n \in Names : Register(r, u, n) \/ CreateGroup(r, u, n) \/ UpdateProfile(r, u, n)
       \/ UploadAvatar(r, u) \/ DeleteAvatar(r, u) \/ Login(r, u)
  \/ Check(r) \/ CheckFails(r) \/ Insert(r) \/ InsertHandle(r) \/ Fails(r)
  \/ \E k \in Keys : PutObject(r, k) \/ PutFails(r, k)
  \/ Save(r) \/ SaveFails(r) \/ DeleteObject(r) \/ DeleteObjectFails(r)

WorkOnly(r) ==
  /\ tokens' = tokens /\ seen' = seen
  /\ excused'.tokens = excused.tokens
  /\ \A q \in Requests \ {r} : Like(task[q], task'[q])
  /\ task[r].pc \notin {"set", "key", "db"}
  /\ task'[r].pc \notin {"rotate", "set", "key", "db"}
  /\ task'[r].pc = "issue" => task'[r].from = None

\* Sessions, and presence.
SessionStep ==
  \/ \E r \in Requests : Rotate(r) \/ \E t \in Tokens : Refresh(r, t) \/ Issue(r, t)
  \/ \E t \in Tokens : Logout(t) \/ ExpireToken(t)

PresenceStep(r) ==
  \/ \E u \in Users : Connect(r, u) \/ Disconnect(r, u)
  \/ ReportSet(r) \/ ReportKey(r) \/ ReportRow(r) \/ ReportFails(r)

LEMMA StepKinds ==
  ASSUME TypeInv, [Next]_vars
  PROVE  \/ \E r \in Requests : WorkStep(r) \/ PresenceStep(r)
         \/ SessionStep
         \/ \E u \in Users : KeyExpires(u)
         \/ Crash \/ UNCHANGED vars
<1>1. load.users \subseteq Users /\ load.names \subseteq Names
  BY AccountsAssumption DEF TypeInv, TypeOK
<1>2. QED
  BY <1>1 DEF Next, Step, WorkStep, PresenceStep, SessionStep

LEMMA ExcuseField ==
  ASSUME TypeOK, NEW S
  PROVE  /\ Excuse("names", S) =>
              /\ excused'.names = excused.names \cup S /\ excused'.tokens = excused.tokens
              /\ excused'.keys = excused.keys /\ excused'.users = excused.users
         /\ Excuse("tokens", S) =>
              /\ excused'.names = excused.names /\ excused'.tokens = excused.tokens \cup S
              /\ excused'.keys = excused.keys /\ excused'.users = excused.users
         /\ Excuse("keys", S) =>
              /\ excused'.names = excused.names /\ excused'.tokens = excused.tokens
              /\ excused'.keys = excused.keys \cup S /\ excused'.users = excused.users
         /\ Excuse("users", S) =>
              /\ excused'.names = excused.names /\ excused'.tokens = excused.tokens
              /\ excused'.keys = excused.keys /\ excused'.users = excused.users \cup S
  BY DEF Excuse, TypeOK

LEMMA SaveExcuses ==
  ASSUME TypeInv, NEW r \in Requests, Save(r)
  PROVE  LET m == task[r]
             u == m.user
         IN  /\ excused'.names = excused.names
                  \cup (IF rows[u].name = m.name THEN {} ELSE Shared(m))
             /\ excused'.tokens = excused.tokens
             /\ excused'.keys = excused.keys \cup Crossed(m)
             /\ excused'.users = excused.users
                  \cup (IF rows[u].online = m.was.online THEN {} ELSE {u})
<1>1. excused \in [names : SUBSET Names, tokens : SUBSET Tokens,
                   keys : SUBSET Keys, users : SUBSET Users]
  BY DEF TypeInv, TypeOK
<1>2. QED
  BY <1>1 DEF Save

LEMMA WorkStepOnly ==
  ASSUME TypeInv, NEW r \in Requests, WorkStep(r)
  PROVE  WorkOnly(r) /\ (rows' = rows \/ Insert(r) \/ Save(r))
<1>1. TypeOK
  BY DEF TypeInv
<1>2. ASSUME NEW t, Goto(r, t), tokens' = tokens, seen' = seen,
             excused'.tokens = excused.tokens,
             task[r].pc \notin {"set", "key", "db"},
             t.pc \notin {"rotate", "set", "key", "db"},
             t.pc = "issue" => t.from = None
      PROVE  WorkOnly(r)
  BY <1>1, <1>2, GoesLike DEF WorkOnly
<1> HIDE DEF WorkOnly
<1>3. ASSUME NEW u \in Users, NEW n \in Names,
             Register(r, u, n) \/ CreateGroup(r, u, n) \/ UpdateProfile(r, u, n)
      PROVE  WorkOnly(r) /\ rows' = rows
  BY <1>2, <1>3 DEF Register, CreateGroup, UpdateProfile, Working, Begins, Idle
<1>4. ASSUME NEW u \in Users, UploadAvatar(r, u) \/ DeleteAvatar(r, u) \/ Login(r, u)
      PROVE  WorkOnly(r) /\ rows' = rows
  BY <1>2, <1>4 DEF UploadAvatar, DeleteAvatar, Login, Working, Begins, Idle
<1>5. ASSUME NEW t, Checking(r), Goto(r, t), UNCHANGED <<rows, tokens, seen, excused>>,
             \/ t = [task[r] EXCEPT !.pc = AfterCheck(task[r])]
             \/ t = [task[r] EXCEPT !.pc = AfterCheck(task[r]), !.unsure = TRUE]
      PROVE  WorkOnly(r) /\ rows' = rows
  <2>1. t \in Work
    BY <1>5, CheckedTask
  <2>2. t.pc \notin {"rotate", "set", "key", "db", "issue"}
    BY <2>1 DEF Work, WorkSteps
  <2>3. QED
    BY <1>2, <1>5, <2>2 DEF Checking
<1>6. ASSUME Check(r) \/ CheckFails(r) \/ Fails(r) PROVE WorkOnly(r) /\ rows' = rows
  <2>1. CASE Fails(r) \/ (Check(r) /\ Found(task[r]))
    BY <1>2, <2>1 DEF Fails, Check, Checking, At, Idle
  <2>2. CASE (Check(r) /\ ~Found(task[r])) \/ CheckFails(r)
    BY <1>5, <2>2 DEF Check, CheckFails, To
  <2>3. QED
    BY <1>6, <2>1, <2>2
<1>7. ASSUME Insert(r) PROVE WorkOnly(r)
  <2>1. task[r].name \in Names
    BY <1>1, <1>7, TaskFields DEF Insert, At, TypeOK, WorkSteps, Work
  <2>2. excused'.tokens = excused.tokens
    BY <1>1, <1>7, ExcuseField DEF Insert
  <2>3. QED
    BY <1>1, <1>7, <2>1, <2>2, ClaimLike DEF Insert, At, WorkOnly
<1>8. ASSUME InsertHandle(r) PROVE WorkOnly(r) /\ rows' = rows
  <2>1. task[r].name \in Names
    BY <1>1, <1>8, TaskFields DEF InsertHandle, At, TypeOK, WorkSteps, Work
  <2>2. excused'.tokens = excused.tokens
    BY <1>1, <1>8, ExcuseField DEF InsertHandle
  <2>3. QED
    BY <1>1, <1>8, <2>1, <2>2, ClaimLike DEF InsertHandle, At, WorkOnly, Idle
<1>9. ASSUME Save(r) PROVE WorkOnly(r)
  <2> DEFINE t == DropOr(OldKey(task[r]))
  <2>1. \A q \in Requests : IF q = r THEN task'[q] = t ELSE Like(task[q], task'[q])
    BY <1>9, SaveEffect
  <2>2. t.pc \in {"idle", "drop"}
    BY <1>9, SaveEffect, DropTyped
  <2>3. tokens' = tokens /\ seen' = seen /\ excused'.tokens = excused.tokens
        /\ task[r].pc = "save"
    BY <1>9, SaveExcuses DEF Save, At
  <2> HIDE DEF t
  <2>4. QED
    BY <2>1, <2>2, <2>3 DEF WorkOnly
<1>10. ASSUME NEW k \in Keys, PutObject(r, k) PROVE WorkOnly(r) /\ rows' = rows
  <2>1. task[r] \in Work
    BY <1>1, <1>10, TaskFields DEF PutObject, At, TypeOK, WorkSteps
  <2>2. [task[r] EXCEPT !.pc = "save", !.key = k].pc = "save"
    BY <2>1 DEF Work
  <2>3. QED
    BY <1>2, <1>10, <2>2 DEF PutObject, At
<1>11. ASSUME NEW k \in Keys, PutFails(r, k) PROVE WorkOnly(r) /\ rows' = rows
  <2>1. excused'.tokens = excused.tokens
    BY <1>1, <1>11, ExcuseField DEF PutFails
  <2>2. QED
    BY <1>2, <1>11, <2>1 DEF PutFails, At, Idle
<1>12. ASSUME SaveFails(r) PROVE WorkOnly(r) /\ rows' = rows
  <2> DEFINE k == IF task[r].op = "upload" THEN task[r].key ELSE None
  <2>1. DropOr(k).pc \in {"idle", "drop"}
    BY DEF DropOr, Idle
  <2>2. QED
    BY <1>2, <1>12, <2>1 DEF SaveFails, At
<1>13. ASSUME DeleteObject(r) \/ DeleteObjectFails(r) PROVE WorkOnly(r) /\ rows' = rows
  <2>1. excused'.tokens = excused.tokens
    BY <1>1, <1>13, ExcuseField DEF DeleteObject, DeleteObjectFails
  <2>2. QED
    BY <1>2, <1>13, <2>1 DEF DeleteObject, DeleteObjectFails, At, Idle
<1>14. QED
  BY <1>3, <1>4, <1>6, <1>7, <1>8, <1>9, <1>10, <1>11, <1>12, <1>13 DEF WorkStep

\* Requests on rows go on where they were, and names and avatars are left alone.
WorkQuiet ==
  /\ handles' = handles /\ objects' = objects /\ used' = used
  /\ Registered' = Registered
  /\ \A u \in Registered : rows'[u].name = rows[u].name /\ rows'[u].avatar = rows[u].avatar
  /\ excused'.names = excused.names /\ excused'.keys = excused.keys
  /\ \A q \in Requests :
       (task[q].pc \in WorkSteps \cup {"drop"} \/ task'[q].pc \in WorkSteps \cup {"drop"})
         => task'[q] = task[q]

LEMMA ElseQuiet ==
  ASSUME TypeInv,
         \/ SessionStep \/ (\E r \in Requests : PresenceStep(r)) \/ (\E u \in Users : KeyExpires(u))
         \/ UNCHANGED vars
  PROVE  WorkQuiet
<1>1. TypeOK
  BY DEF TypeInv
<1>2. ASSUME NEW q \in Requests, NEW t, Goto(q, t),
             task[q].pc \notin WorkSteps \cup {"drop"}, t.pc \notin WorkSteps \cup {"drop"},
             UNCHANGED <<handles, objects, used, rows>>,
             excused'.names = excused.names /\ excused'.keys = excused.keys
      PROVE  WorkQuiet
  BY <1>1, <1>2 DEF WorkQuiet, Goto, TypeOK, Registered
<1>3. ASSUME task' = task, UNCHANGED <<handles, objects, used, rows>>,
             excused'.names = excused.names /\ excused'.keys = excused.keys
      PROVE  WorkQuiet
  BY <1>3 DEF WorkQuiet, Registered
<1> HIDE DEF WorkQuiet
<1>4. ASSUME NEW q \in Requests, NEW t \in Tokens, Refresh(q, t) PROVE WorkQuiet
  <2>1. excused'.names = excused.names /\ excused'.keys = excused.keys
    BY <1>1, <1>4, ExcuseField DEF Refresh
  <2>2. QED
    BY <1>2, <1>4, <2>1 DEF Refresh, Begins, Idle, WorkSteps
<1>5. ASSUME NEW q \in Requests, NEW t \in Tokens, Issue(q, t) PROVE WorkQuiet
  BY <1>2, <1>5 DEF Issue, At, Idle, WorkSteps
<1>6. ASSUME NEW q \in Requests, Rotate(q) PROVE WorkQuiet
  BY <1>2, <1>6 DEF Rotate, At, WorkSteps
<1>7. ASSUME NEW t \in Tokens, Logout(t) \/ ExpireToken(t) PROVE WorkQuiet
  <2>1. excused'.names = excused.names /\ excused'.keys = excused.keys
    BY <1>1, <1>7, ExcuseField DEF Logout, ExpireToken
  <2>2. QED
    BY <1>3, <1>7, <2>1 DEF Logout, ExpireToken
<1>8. ASSUME NEW r \in Requests, NEW u \in Users, Connect(r, u) \/ Disconnect(r, u) PROVE WorkQuiet
  <2>1. \E on : Report(r, u, on) /\ rows' = rows /\ Begins(r)
    BY <1>8 DEF Connect, Disconnect, Report
  <2>2. excused'.names = excused.names /\ excused'.keys = excused.keys
    BY <1>1, <2>1 DEF Report, TypeOK
  <2>3. QED
    BY <1>2, <2>1, <2>2 DEF Report, Begins, Idle, WorkSteps
<1>9. ASSUME NEW r \in Requests, task[r].pc \in {"set", "key", "db"},
             \/ Goto(r, Idle) \/ Goto(r, [task[r] EXCEPT !.pc = "key"])
             \/ Goto(r, [task[r] EXCEPT !.pc = "db"])
      PROVE  \E t : /\ Goto(r, t) /\ t.pc \notin WorkSteps \cup {"drop"}
                    /\ task[r].pc \notin WorkSteps \cup {"drop"}
  <2>1. \A pc \in {"key", "db"} : [task[r] EXCEPT !.pc = pc].pc = pc
    BY <1>9, ReportFields
  <2>2. QED
    BY <1>9, <2>1 DEF Idle, WorkSteps
<1>10. ASSUME NEW r \in Requests, ReportSet(r) \/ ReportKey(r) \/ ReportFails(r) PROVE WorkQuiet
  <2>1. excused'.names = excused.names /\ excused'.keys = excused.keys
    BY <1>1, <1>10, ExcuseField DEF ReportSet, ReportKey, ReportFails
  <2>2. UNCHANGED <<handles, objects, used, rows>>
    BY <1>10 DEF ReportSet, ReportKey, ReportFails
  <2>3. QED
    BY <1>2, <1>9, <1>10, <2>1, <2>2 DEF ReportSet, ReportKey, ReportFails, At, To
<1>11. ASSUME NEW r \in Requests, ReportRow(r) PROVE WorkQuiet
  <2> DEFINE u == task[r].user
             row == [rows[u] EXCEPT !.online = task[r].on]
  <2>1. /\ rows' = [rows EXCEPT ![u] = row] /\ Goto(r, Idle) /\ task[r].pc = "db"
        /\ UNCHANGED <<handles, objects, used, excused>>
    BY <1>11 DEF ReportRow, At
  <2>2. u \in Registered /\ task[r].on \in BOOLEAN
    BY <2>1, ReportFields
  <2>3. row \in Rows /\ row.name = rows[u].name /\ row.avatar = rows[u].avatar
    BY <1>1, <2>2, RowsTyped DEF Rows
  <2> HIDE DEF row, u
  <2>4. row # None
    BY <2>3, NoneAssumption
  <2>5. \A v \in Users : rows'[v] = IF v = u THEN row ELSE rows[v]
    BY <1>1, <2>1 DEF TypeOK
  <2>6. /\ Registered' = Registered
        /\ \A v \in Registered : rows'[v].name = rows[v].name /\ rows'[v].avatar = rows[v].avatar
    BY <2>2, <2>3, <2>4, <2>5 DEF Registered
  <2>7. QED
    BY <1>1, <2>1, <2>6 DEF WorkQuiet, Goto, TypeOK, Idle, WorkSteps
<1>12. ASSUME (\E u \in Users : KeyExpires(u)) \/ UNCHANGED vars PROVE WorkQuiet
  BY <1>3, <1>12 DEF KeyExpires, vars
<1>13. QED
  BY <1>4, <1>5, <1>6, <1>7, <1>8, <1>10, <1>11, <1>12 DEF SessionStep, PresenceStep

-----------------------------------------------------------------------------
(***************************************************************************)
(* Refresh tokens.                                                         *)
(***************************************************************************)

\* A request that has found t valid and is to revoke it; one that has revoked
\* it and is to issue its successor; and a successor.
Turns(a, t) == task[a].pc = "rotate" /\ task[a].token = t
Renews(a, t) == task[a].pc = "issue" /\ task[a].from = t
Heir(h, t) == h \in Issued /\ tokens[h].from = t

Unspent(t) ==
  tokens[t].state \in {"valid", "expired"} =>
    /\ \A h \in Tokens : ~Heir(h, t)
    /\ \A a \in Requests : ~Renews(a, t)

\* One request, or one successor, and neither after a logout.
SpentOnce(t) ==
  /\ \A a, b \in Requests :
       (Turns(a, t) \/ Renews(a, t)) /\ (Turns(b, t) \/ Renews(b, t)) => a = b
  /\ \A g, h \in Tokens : Heir(g, t) /\ Heir(h, t) => g = h
  /\ \A h \in Tokens, a \in Requests : Heir(h, t) => ~Turns(a, t) /\ ~Renews(a, t)
  /\ tokens[t].state = "out" =>
       /\ \A h \in Tokens : ~Heir(h, t)
       /\ \A a \in Requests : ~Turns(a, t) /\ ~Renews(a, t)

\* What is replaced has been issued.
FromIssued ==
  /\ \A h \in Issued : tokens[h].from \in Issued \cup {None}
  /\ \A a \in Requests : task[a].pc = "issue" => task[a].from \in Issued \cup {None}

TokenInv ==
  /\ FromIssued
  /\ \A t \in Issued : Unspent(t)
  /\ \A t \in Issued \ excused.tokens : SpentOnce(t)

\* Steps that leave the table alone and let no new request turn or renew.
TokensQuiet ==
  /\ tokens' = tokens
  /\ excused'.tokens = excused.tokens
  /\ \A a \in Requests :
       /\ task'[a].pc = "rotate" => task'[a] = task[a]
       /\ task'[a].pc = "issue" => task'[a] = task[a] \/ task'[a].from = None

LEMMA TokensQuietKept ==
  ASSUME TypeInv, TokenInv, TokensQuiet
  PROVE  TokenInv'
<1>1. Issued' = Issued /\ \A h, t \in Tokens : Heir(h, t)' = Heir(h, t)
  BY DEF TokensQuiet, Issued, Heir
<1>2. \A a \in Requests, t \in Tokens :
        (Turns(a, t)' => Turns(a, t)) /\ (Renews(a, t)' => Renews(a, t))
  BY AccountsAssumption DEF TokensQuiet, Turns, Renews
<1>3. FromIssued'
  BY <1>1 DEF TokensQuiet, TokenInv, FromIssued
<1>4. \A t \in Issued : Unspent(t)'
  BY <1>1, <1>2 DEF TokensQuiet, TokenInv, Unspent, Issued
<1>5. \A t \in Issued \ excused.tokens : SpentOnce(t)'
  BY <1>1, <1>2 DEF TokensQuiet, TokenInv, SpentOnce, Issued
<1>6. QED
  BY <1>1, <1>3, <1>4, <1>5 DEF TokenInv, TokensQuiet

LEMMA QuietTokens ==
  ASSUME TypeInv, NEW r \in Requests,
         \/ WorkStep(r) \/ PresenceStep(r) \/ (\E u \in Users : KeyExpires(u))
         \/ Crash \/ UNCHANGED vars
  PROVE  TokensQuiet
<1>1. TypeOK
  BY DEF TypeInv
<1>2. CASE WorkStep(r)
  <2>1. WorkOnly(r)
    BY <1>2, WorkStepOnly
  <2>2. \A a \in Requests \ {r} : task'[a].pc \in {"rotate", "issue"} => task'[a] = task[a]
    BY <2>1 DEF WorkOnly, Like, Work, WorkSteps
  <2>3. QED
    BY <2>1, <2>2 DEF WorkOnly, TokensQuiet
<1>3. ASSUME NEW t, Goto(r, t), t.pc \notin {"rotate", "issue"}, tokens' = tokens,
             excused'.tokens = excused.tokens
      PROVE  TokensQuiet
  BY <1>1, <1>3 DEF Goto, TypeOK, TokensQuiet
<1>4. CASE PresenceStep(r)
  <2>1. tokens' = tokens
    BY <1>4 DEF PresenceStep, Connect, Disconnect, Report, ReportSet, ReportKey, ReportRow,
                ReportFails
  <2>2. ASSUME NEW u \in Users, NEW on, Report(r, u, on) PROVE TokensQuiet
    <3>1. excused'.tokens = excused.tokens
      BY <1>1, <2>2 DEF Report, TypeOK
    <3>2. QED
      BY <1>3, <2>1, <2>2, <3>1 DEF Report
  <2>3. CASE ReportSet(r) \/ ReportKey(r) \/ ReportRow(r) \/ ReportFails(r)
    <3>1. excused'.tokens = excused.tokens
      BY <1>1, <2>3, ExcuseField DEF ReportSet, ReportKey, ReportRow, ReportFails
    <3>2. task[r].pc \in {"set", "key", "db"}
      BY <2>3 DEF ReportSet, ReportKey, ReportRow, ReportFails, At
    <3>3. \A pc \in {"key", "db"} : [task[r] EXCEPT !.pc = pc].pc = pc
      BY <3>2, ReportFields
    <3>4. \/ Goto(r, Idle) \/ Goto(r, [task[r] EXCEPT !.pc = "key"])
          \/ Goto(r, [task[r] EXCEPT !.pc = "db"])
      BY <2>3 DEF ReportSet, ReportKey, ReportRow, ReportFails, To
    <3>5. Idle.pc = "idle"
      BY DEF Idle
    <3>6. QED
      BY <1>3, <2>1, <3>1, <3>3, <3>4, <3>5
  <2>4. QED
    BY <1>4, <2>2, <2>3 DEF PresenceStep, Connect, Disconnect
<1>5. CASE (\E u \in Users : KeyExpires(u)) \/ UNCHANGED vars
  BY <1>5 DEF KeyExpires, vars, TokensQuiet
<1>6. CASE Crash
  BY <1>1, <1>6 DEF Crash, TypeOK, TokensQuiet, Idle
<1>7. QED
  BY <1>2, <1>4, <1>5, <1>6

\* Tokens that are found, revoked, and expire.
LEMMA TokensFound ==
  ASSUME TypeInv, TokenInv, NEW r \in Requests, NEW t \in Tokens, Refresh(r, t)
  PROVE  TokenInv'
<1>1. TypeOK
  BY DEF TypeInv
<1>2. /\ tokens' = tokens /\ task[r] = Idle /\ t \in Issued /\ tokens[t].state = "valid"
      /\ excused'.tokens = excused.tokens \cup (IF Rotating(t) = {} THEN {} ELSE {t})
  BY <1>1, ExcuseField DEF Refresh, Begins, Valid, Issued
<1>3. /\ task'[r].pc = "rotate" /\ task'[r].token = t
      /\ \A a \in Requests \ {r} : task'[a] = task[a]
  BY <1>1 DEF Refresh, Goto, TypeOK
<1>4. Issued' = Issued /\ \A g, h \in Tokens : Heir(g, h)' = Heir(g, h)
  BY <1>2 DEF Issued, Heir
<1>5. \A a \in Requests, s \in Tokens : Renews(a, s)' => Renews(a, s)
  BY <1>3 DEF Renews
<1>6. \A a \in Requests, s \in Tokens : Turns(a, s)' => Turns(a, s) \/ (a = r /\ s = t)
  BY <1>3 DEF Turns
<1>7. FromIssued'
  <2>1. \A a \in Requests : task'[a].pc = "issue" => task'[a] = task[a]
    BY <1>3
  <2>2. QED
    BY <1>2, <1>4, <2>1 DEF TokenInv, FromIssued
<1>8. \A s \in Issued : Unspent(s)'
  BY <1>2, <1>4, <1>5 DEF TokenInv, Unspent, Issued
<1>9. ASSUME NEW s \in Issued, s \notin excused'.tokens PROVE SpentOnce(s)'
  <2>1. SpentOnce(s) /\ s \in Tokens
    BY <1>2, <1>9 DEF TokenInv, Issued
  <2>2. CASE s # t
    BY <1>2, <1>4, <1>5, <1>6, <2>1, <2>2 DEF SpentOnce
  <2>3. CASE s = t
    <3>1. \A a \in Requests : ~Turns(a, t)
      BY <1>2, <1>9, <2>3 DEF Rotating, At, Turns
    <3>2. \A h \in Tokens, a \in Requests : ~Heir(h, t) /\ ~Renews(a, t)
      BY <1>2 DEF TokenInv, Unspent
    <3>3. QED
      BY <1>2, <1>4, <1>5, <1>6, <2>3, <3>1, <3>2 DEF SpentOnce
  <2>4. QED
    BY <2>2, <2>3
<1>10. QED
  BY <1>4, <1>7, <1>8, <1>9 DEF TokenInv

LEMMA TokensRotated ==
  ASSUME TypeInv, TokenInv, NEW r \in Requests, Rotate(r)
  PROVE  TokenInv'
<1> DEFINE t == task[r].token
<1>1. TypeOK
  BY DEF TypeInv
<1>2. t \in Issued /\ t \in Tokens /\ task[r].pc = "rotate"
  BY RotateFields DEF Rotate, Issued, At
<1>3. /\ Issued' = Issued
      /\ \A s \in Tokens \ {t} : tokens'[s] = tokens[s]
      /\ tokens'[t].from = tokens[t].from
      /\ tokens'[t].state = IF tokens[t].state \in {"valid", "expired"}
                            THEN "rotated" ELSE tokens[t].state
  BY <1>1, <1>2, RevokedTyped DEF Rotate, Issued
<1>4. /\ task'[r].pc = "issue" /\ task'[r].from = t
      /\ \A a \in Requests \ {r} : task'[a] = task[a]
      /\ excused' = excused
  BY <1>1 DEF Rotate, Goto, TypeOK
<1> HIDE DEF t
<1>5. \A g, h \in Tokens : Heir(g, h)' = Heir(g, h)
  BY <1>2, <1>3 DEF Heir
<1>6. \A a \in Requests, s \in Tokens :
        /\ Turns(a, s)' => Turns(a, s) /\ a # r
        /\ Renews(a, s)' => Renews(a, s) \/ (a = r /\ s = t)
  BY <1>4 DEF Renews, Turns
<1>7. FromIssued'
  <2>1. \A h \in Issued : tokens'[h].from = tokens[h].from
    BY <1>2, <1>3 DEF Issued
  <2>2. QED
    BY <1>2, <1>3, <1>4, <2>1 DEF TokenInv, FromIssued
<1>8. ASSUME NEW s \in Issued PROVE Unspent(s)'
  <2>1. CASE s = t
    <3>1. tokens'[t].state \notin {"valid", "expired"}
      BY <1>3
    <3>2. QED
      BY <2>1, <3>1 DEF Unspent
  <2>2. CASE s # t
    BY <1>3, <1>5, <1>6, <2>2 DEF TokenInv, Unspent, Issued
  <2>3. QED
    BY <2>1, <2>2
<1>9. ASSUME NEW s \in Issued, s \notin excused'.tokens PROVE SpentOnce(s)'
  <2>1. SpentOnce(s) /\ s \in Tokens
    BY <1>4, <1>9 DEF TokenInv, Issued
  <2>2. CASE s # t
    BY <1>3, <1>5, <1>6, <2>1, <2>2 DEF SpentOnce
  <2>3. CASE s = t
    <3>1. Turns(r, t)
      BY <1>2 DEF Turns, t
    <3>2. tokens[t].state # "out" /\ tokens'[t].state # "out"
      BY <1>3, <2>1, <2>3, <3>1 DEF SpentOnce
    <3>3. \A h \in Tokens : ~Heir(h, t)
      BY <2>1, <2>3, <3>1 DEF SpentOnce
    <3>4. \A a \in Requests : Turns(a, t) \/ Renews(a, t) => a = r
      BY <2>1, <2>3, <3>1 DEF SpentOnce
    <3>5. QED
      BY <1>2, <1>5, <1>6, <2>3, <3>2, <3>3, <3>4 DEF SpentOnce
  <2>4. QED
    BY <2>2, <2>3
<1>10. QED
  BY <1>3, <1>7, <1>8, <1>9 DEF TokenInv

LEMMA TokensIssued ==
  ASSUME TypeInv, TokenInv, NEW r \in Requests, NEW h \in Tokens, Issue(r, h)
  PROVE  TokenInv'
<1> DEFINE t == task[r].from
<1>1. TypeOK
  BY DEF TypeInv
<1>2. /\ task[r].pc = "issue" /\ t \in Issued \cup {None} /\ t \in Tokens \cup {None}
      /\ h \notin Issued /\ task[r].user \in Users
  BY IssueFields DEF Issue, At, Issued, TokenInv, FromIssued
<1>3. /\ \A s \in Tokens \ {h} : tokens'[s] = tokens[s]
      /\ tokens'[h] # None /\ tokens'[h].from = t /\ tokens'[h].state = "valid"
  <2> DEFINE new == [user |-> task[r].user, from |-> t, state |-> "valid"]
  <2>1. new \in RefreshTokens
    BY <1>2 DEF RefreshTokens
  <2>2. tokens' = [tokens EXCEPT ![h] = new]
    BY DEF Issue
  <2>3. new # None /\ new.from = t /\ new.state = "valid"
    BY <2>1, NoneAssumption
  <2> HIDE DEF new
  <2>4. QED
    BY <1>1, <2>2, <2>3 DEF TypeOK
<1>4. Issued' = Issued \cup {h}
  BY <1>3 DEF Issued
<1>5. /\ task'[r].pc = "idle" /\ excused' = excused
      /\ \A a \in Requests \ {r} : task'[a] = task[a]
  BY <1>1 DEF Issue, Goto, TypeOK, Idle
<1> HIDE DEF t
<1>6. \A g, s \in Tokens : Heir(g, s)' => Heir(g, s) \/ (g = h /\ s = t)
  BY <1>2, <1>3, <1>4 DEF Heir
<1>7. \A a \in Requests, s \in Tokens :
        /\ Turns(a, s)' => Turns(a, s) /\ a # r
        /\ Renews(a, s)' => Renews(a, s) /\ a # r
  BY <1>5 DEF Renews, Turns
<1>8. t \in Issued => Renews(r, t) /\ t # h /\ tokens[t].state \notin {"valid", "expired"}
  BY <1>2 DEF Renews, t, TokenInv, Unspent
<1>9. \A g \in Tokens : ~Heir(g, h)'
  <2>1. t # h
    BY <1>2, AccountsAssumption
  <2>2. \A g \in Issued : tokens[g].from # h
    BY <1>2, AccountsAssumption DEF TokenInv, FromIssued
  <2>3. QED
    BY <1>6, <2>1, <2>2 DEF Heir
<1>10. \A a \in Requests : ~Renews(a, h) /\ ~Turns(a, h)
  <2>1. \A a \in Requests : task[a].pc = "rotate" => task[a].token \in Issued
    BY RotateFields DEF At
  <2>2. QED
    BY <1>2, <2>1, AccountsAssumption DEF TokenInv, FromIssued, Renews, Turns
<1>11. FromIssued'
  BY <1>2, <1>3, <1>4, <1>5 DEF TokenInv, FromIssued, Issued
<1>12. ASSUME NEW s \in Issued' PROVE Unspent(s)'
  <2>1. CASE s = h
    BY <1>7, <1>9, <1>10, <2>1 DEF Unspent
  <2>2. CASE s # h
    BY <1>3, <1>4, <1>6, <1>7, <1>8, <2>2 DEF TokenInv, Unspent, Issued
  <2>3. QED
    BY <2>1, <2>2
<1>13. ASSUME NEW s \in Issued', s \notin excused'.tokens PROVE SpentOnce(s)'
  <2>1. CASE s = h
    BY <1>7, <1>9, <1>10, <2>1 DEF SpentOnce
  <2>2. CASE s # h
    <3>1. SpentOnce(s) /\ s \in Issued /\ s \in Tokens
      BY <1>4, <1>5, <1>13, <2>2 DEF TokenInv, Issued
    <3>2. CASE s # t
      BY <1>3, <1>6, <1>7, <2>2, <3>1, <3>2 DEF SpentOnce
    <3>3. CASE s = t
      <4>1. Renews(r, t) /\ tokens[t].state # "out" /\ \A g \in Tokens : ~Heir(g, t)
        BY <1>8, <3>1, <3>3 DEF SpentOnce
      <4>2. \A a \in Requests : Turns(a, t) \/ Renews(a, t) => a = r
        BY <3>1, <3>3, <4>1 DEF SpentOnce
      <4>3. QED
        BY <1>3, <1>6, <1>7, <2>2, <3>1, <3>3, <4>1, <4>2 DEF SpentOnce
    <3>4. QED
      BY <3>2, <3>3
  <2>3. QED
    BY <2>1, <2>2
<1>14. QED
  BY <1>11, <1>12, <1>13 DEF TokenInv

LEMMA TokensEnded ==
  ASSUME TypeInv, TokenInv, NEW t \in Tokens, Logout(t) \/ ExpireToken(t)
  PROVE  TokenInv'
<1>1. TypeOK /\ task' = task /\ t \in Issued
  BY DEF TypeInv, Logout, ExpireToken, Valid, Issued
<1>2. /\ Issued' = Issued
      /\ \A s \in Tokens \ {t} : tokens'[s] = tokens[s]
      /\ tokens'[t].from = tokens[t].from
      /\ \/ tokens'[t].state = tokens[t].state
         \/ /\ tokens[t].state \in {"valid", "expired"}
            /\ tokens'[t].state = "expired" \/ (Logout(t) /\ tokens'[t].state = "out")
  <2>1. CASE Logout(t)
    BY <1>1, <2>1, RevokedTyped DEF Logout, Issued
  <2>2. CASE ExpireToken(t)
    <3> DEFINE new == [tokens[t] EXCEPT !.state = "expired"]
    <3>1. tokens[t] \in RefreshTokens
      BY <1>1 DEF TypeOK, Issued
    <3>2. new \in RefreshTokens /\ new.from = tokens[t].from /\ new.state = "expired"
      BY <3>1 DEF RefreshTokens
    <3>3. tokens' = [tokens EXCEPT ![t] = new] /\ tokens[t].state = "valid"
      BY <2>2 DEF ExpireToken, Valid
    <3> HIDE DEF new
    <3>4. new # None
      BY <3>2, NoneAssumption
    <3>5. QED
      BY <1>1, <3>2, <3>3, <3>4 DEF TypeOK, Issued
  <2>3. QED
    BY <2>1, <2>2
<1>3. /\ excused.tokens \subseteq excused'.tokens
      /\ Logout(t) /\ t \notin excused'.tokens => Rotating(t) = {}
  <2>1. CASE Logout(t)
    BY <1>1, <2>1, ExcuseField DEF Logout
  <2>2. CASE ExpireToken(t) /\ ~Logout(t)
    BY <2>2 DEF ExpireToken
  <2>3. QED
    BY <2>1, <2>2
<1>4. \A g, h \in Tokens : Heir(g, h)' = Heir(g, h)
  BY <1>2 DEF Heir
<1>5. \A a \in Requests, s \in Tokens :
        Turns(a, s)' = Turns(a, s) /\ Renews(a, s)' = Renews(a, s)
  BY <1>1 DEF Turns, Renews
<1>6. FromIssued'
  BY <1>1, <1>2 DEF TokenInv, FromIssued, Issued
<1>7. \A s \in Issued : Unspent(s)'
  BY <1>2, <1>4, <1>5 DEF TokenInv, Unspent, Issued
<1>8. ASSUME NEW s \in Issued, s \notin excused'.tokens PROVE SpentOnce(s)'
  <2>1. SpentOnce(s) /\ Unspent(s) /\ s \in Tokens
    BY <1>3, <1>8 DEF TokenInv, Issued
  <2>2. CASE s # t \/ tokens'[t].state = tokens[t].state \/ tokens'[t].state = "expired"
    BY <1>2, <1>4, <1>5, <2>1, <2>2 DEF SpentOnce
  <2>3. CASE s = t /\ tokens[t].state \in {"valid", "expired"} /\ Logout(t)
    <3>1. \A a \in Requests : ~Turns(a, t)
      BY <1>3, <1>8, <2>3 DEF Rotating, At, Turns
    <3>2. QED
      BY <1>4, <1>5, <2>1, <2>3, <3>1 DEF SpentOnce, Unspent
  <2>4. QED
    BY <1>2, <2>2, <2>3
<1>9. QED
  BY <1>2, <1>6, <1>7, <1>8 DEF TokenInv

\* All other steps are quiet.
LEMMA TokensQuietNext ==
  ASSUME TypeInv, [Next]_vars
  PROVE  TokensQuiet \/ SessionStep
<1>1. ASSUME NEW r \in Requests, WorkStep(r) \/ PresenceStep(r) PROVE TokensQuiet
  BY <1>1, QuietTokens
<1>2. CASE Crash
  BY <1>2 DEF Crash, TypeInv, TypeOK, TokensQuiet, Idle
<1>3. CASE (\E u \in Users : KeyExpires(u)) \/ UNCHANGED vars
  BY <1>3 DEF KeyExpires, vars, TokensQuiet
<1>4. QED
  BY <1>1, <1>2, <1>3, StepKinds

LEMMA TokensNext == TypeInv /\ TokenInv /\ [Next]_vars => TokenInv'
  BY TokensQuietNext, TokensQuietKept, TokensFound, TokensRotated, TokensIssued, TokensEnded
     DEF SessionStep

LEMMA TokensAlways == Spec => [](TypeInv /\ TokenInv)
<1>1. Init => TokenInv
  <2> SUFFICES ASSUME Init PROVE TokenInv
    OBVIOUS
  <2>1. Issued = {} /\ \A a \in Requests : task[a].pc = "idle"
    BY DEF Init, Issued, Idle
  <2>2. QED
    BY <2>1 DEF TokenInv, FromIssued
<1>2. QED
  BY <1>1, TokensNext, TypedAlways, PTL DEF Spec

\* A refresh token is replaced once, never while it is valid, and not after a
\* logout, but for the requests that had found it valid before: for every
\* number of requests, tokens and users (auth_service.go:118-142).
THEOREM TokensRotatedOnce == Spec => []RotatedOnce
<1>1. TypeInv /\ TokenInv => RotatedOnce
  <2> SUFFICES ASSUME TypeInv, TokenInv, NEW t \in Tokens
               PROVE  /\ t \in Issued /\ tokens[t].state = "valid" =>
                           \A h \in Tokens : ~Heir(h, t)
                      /\ t \notin excused.tokens =>
                           /\ \A g, h \in Tokens : Heir(g, t) /\ Heir(h, t) => g = h
                           /\ t \in Issued /\ tokens[t].state = "out" =>
                                \A h \in Tokens : ~Heir(h, t)
    BY DEF RotatedOnce, Heir, Issued
  <2>1. t \notin Issued => \A h \in Tokens : ~Heir(h, t)
    BY AccountsAssumption DEF TokenInv, FromIssued, Heir
  <2>2. QED
    BY <2>1 DEF TokenInv, Unspent, SpentOnce
<1>2. QED
  BY <1>1, TokensAlways, PTL

-----------------------------------------------------------------------------
(***************************************************************************)
(* Sessions: the abstract module that the table of tokens implements.      *)
(***************************************************************************)

LifeSteps == Lives!Next \/ UNCHANGED <<tokens, excused.tokens>>

LEMMA LivesNames ==
  /\ Lives!Issued = Issued
  /\ \A t \in Tokens : Lives!Heirs(t) = {h \in Tokens : Heir(h, t)}
<1>1. Lives!Issued = Issued
  BY DEF Lives!Issued, Issued
<1>2. QED
  BY <1>1 DEF Lives!Heirs, Heir, Issued

\* Whoever is to get the successor of a token owns the token.
SameUser ==
  \A a \in Requests : task[a].pc = "issue" /\ task[a].from \in Tokens =>
    task[a].user = tokens[task[a].from].user

\* What a token becomes.
Turned(t, state) == [user |-> tokens[t].user, from |-> tokens[t].from, state |-> state]

LEMMA RevokedAs ==
  ASSUME TypeOK, NEW t \in Issued, NEW how
  PROVE  Revoked(t, how) = IF tokens[t].state \in {"valid", "expired"}
                           THEN [tokens EXCEPT ![t] = Turned(t, how)] ELSE tokens
<1>1. t \in Tokens /\ tokens[t] \in RefreshTokens
  BY DEF TypeOK, Issued
<1>2. tokens[t] = Turned(t, tokens[t].state)
  BY <1>1 DEF RefreshTokens, Turned
<1>3. \A s : [tokens[t] EXCEPT !.state = s] = Turned(t, s)
  BY <1>1 DEF RefreshTokens, Turned
<1>4. Revoked(t, how)
        = [tokens EXCEPT ![t] = [tokens[t] EXCEPT !.state =
             IF tokens[t].state \in {"valid", "expired"} THEN how ELSE tokens[t].state]]
  BY DEF Revoked
<1>5. CASE tokens[t].state \in {"valid", "expired"}
  BY <1>3, <1>4, <1>5
<1>6. CASE tokens[t].state \notin {"valid", "expired"}
  <2>1. Revoked(t, how) = [tokens EXCEPT ![t] = tokens[t]]
    BY <1>2, <1>3, <1>4, <1>6
  <2>2. [tokens EXCEPT ![t] = tokens[t]] = tokens
    BY <1>1 DEF TypeOK
  <2>3. QED
    BY <1>6, <2>1, <2>2
<1>7. QED
  BY <1>5, <1>6

\* A token is revoked, or was before.
LEMMA LivesRevoked ==
  ASSUME TypeOK, NEW t \in Issued, NEW how \in {"rotated", "out"},
         tokens' = Revoked(t, how),
         excused'.tokens \in {excused.tokens, excused.tokens \cup {t}},
         \/ excused'.tokens = excused.tokens
         \/ tokens[t].state \in {"valid", "expired"}
         \/ \A h \in Tokens : ~Heir(h, t)
  PROVE  LifeSteps
<1>1. t \in Lives!Issued /\ t \in Tokens
  BY LivesNames DEF Issued
<1>2. CASE tokens[t].state \in {"valid", "expired"}
  <2>1. tokens' = [tokens EXCEPT ![t] = Turned(t, how)]
    BY <1>2, RevokedAs
  <2>2. Lives!Revoke(t, how)
    BY <1>2, <2>1 DEF Lives!Revoke, Lives!Become, Turned
  <2>3. QED
    BY <1>1, <2>2 DEF LifeSteps, Lives!Next
<1>3. CASE tokens[t].state \notin {"valid", "expired"}
  <2>1. tokens' = tokens
    BY <1>3, RevokedAs
  <2>2. Lives!Use(t)
    BY <1>1, <1>3, <2>1, LivesNames DEF Lives!Use
  <2>3. QED
    BY <1>1, <2>2 DEF LifeSteps, Lives!Next
<1>4. QED
  BY <1>2, <1>3

LEMMA LivesFound ==
  ASSUME TypeInv, TokenInv, NEW r \in Requests, NEW t \in Tokens, Refresh(r, t)
  PROVE  LifeSteps
<1>1. /\ tokens' = tokens /\ t \in Issued /\ tokens[t].state = "valid"
      /\ excused'.tokens = excused.tokens \cup (IF Rotating(t) = {} THEN {} ELSE {t})
  BY ExcuseField DEF Refresh, Valid, Issued, TypeInv
<1>2. \A h \in Tokens : ~Heir(h, t)
  BY <1>1 DEF TokenInv, Unspent
<1>3. Lives!Use(t)
  BY <1>1, <1>2, LivesNames DEF Lives!Use
<1>4. QED
  BY <1>1, <1>3, LivesNames DEF LifeSteps, Lives!Next

LEMMA LivesRotated ==
  ASSUME TypeInv, NEW r \in Requests, Rotate(r)
  PROVE  LifeSteps
<1>1. PICK t \in Issued : t = task[r].token
  BY RotateFields DEF Rotate
<1>2. tokens' = Revoked(t, "rotated") /\ excused' = excused
  BY <1>1 DEF Rotate
<1>3. QED
  BY <1>2, LivesRevoked DEF TypeInv

LEMMA LivesIssued ==
  ASSUME TypeInv, TokenInv, SameUser, NEW r \in Requests, NEW h \in Tokens, Issue(r, h)
  PROVE  LifeSteps
<1>1. PICK f : f = task[r].from
  OBVIOUS
<1>2. PICK u \in Users : u = task[r].user
  BY IssueFields DEF Issue
<1>3. /\ f \in Issued \cup {None} /\ task[r].pc = "issue" /\ excused' = excused
      /\ h \notin Issued
      /\ tokens' = [tokens EXCEPT ![h] = [user |-> u, from |-> f, state |-> "valid"]]
  BY <1>1, <1>2 DEF Issue, At, TokenInv, FromIssued, Issued
<1>4. Lives!Issue(h, u, f) /\ UNCHANGED excused.tokens
  BY <1>3, LivesNames DEF Lives!Issue
<1>5. CASE f = None
  <2>1. Lives!Start(h, u)
    BY <1>4, <1>5 DEF Lives!Start
  <2>2. QED
    BY <2>1 DEF LifeSteps, Lives!Next
<1>6. CASE f \in Issued
  <2>1. f \in Tokens /\ Renews(r, f) /\ u = tokens[f].user
    BY <1>1, <1>2, <1>3, <1>6 DEF Renews, SameUser, Issued
  <2>2. tokens[f].state \in {"rotated", "out"}
    BY <1>6, <2>1 DEF TokenInv, Unspent, TypeInv, TypeOK, RefreshTokens, Issued
  <2>3. ASSUME f \notin excused.tokens
        PROVE  tokens[f].state = "rotated" /\ Lives!Heirs(f) = {}
    BY <1>6, <2>1, <2>2, <2>3, LivesNames DEF TokenInv, SpentOnce
  <2>4. Lives!Replace(f, h)
    BY <1>4, <2>1, <2>2, <2>3 DEF Lives!Replace
  <2>5. QED
    BY <1>6, <2>4, LivesNames DEF LifeSteps, Lives!Next
<1>7. QED
  BY <1>3, <1>5, <1>6

LEMMA LivesEnded ==
  ASSUME TypeInv, TokenInv, NEW t \in Tokens, Logout(t) \/ ExpireToken(t)
  PROVE  LifeSteps
<1>1. t \in Issued /\ TypeOK
  BY DEF TypeInv, Logout, ExpireToken, Valid, Issued
<1>2. CASE Logout(t)
  <2>1. /\ tokens' = Revoked(t, "out")
        /\ excused'.tokens = excused.tokens \cup (IF Rotating(t) = {} THEN {} ELSE {t})
    BY <1>1, <1>2, ExcuseField DEF Logout
  <2>2. ASSUME excused'.tokens # excused.tokens PROVE \A h \in Tokens : ~Heir(h, t)
    <3>1. t \notin excused.tokens /\ \E a \in Requests : Turns(a, t)
      BY <2>1, <2>2 DEF Rotating, At, Turns
    <3>2. QED
      BY <1>1, <3>1 DEF TokenInv, SpentOnce
  <2>3. QED
    BY <1>1, <2>1, <2>2, LivesRevoked
<1>3. CASE ExpireToken(t)
  <2>1. /\ tokens[t].state = "valid" /\ excused' = excused
        /\ tokens' = [tokens EXCEPT ![t] = [tokens[t] EXCEPT !.state = "expired"]]
    BY <1>3 DEF ExpireToken, Valid
  <2>2. [tokens[t] EXCEPT !.state = "expired"] = Turned(t, "expired")
    BY <1>1 DEF TypeOK, Issued, RefreshTokens, Turned
  <2>3. Lives!Expire(t)
    BY <2>1, <2>2 DEF Lives!Expire, Lives!Become, Turned
  <2>4. QED
    BY <1>1, <2>3, LivesNames DEF LifeSteps, Lives!Next
<1>4. QED
  BY <1>2, <1>3

LEMMA SameUserKept ==
  ASSUME TypeInv, TokenInv, SameUser, TokensQuiet \/ SessionStep
  PROVE  SameUser'
<1>1. TypeOK
  BY DEF TypeInv
<1>2. CASE TokensQuiet
  BY <1>2, AccountsAssumption DEF TokensQuiet, SameUser
<1>3. ASSUME NEW t \in Issued, NEW how,
             tokens' \in {tokens, Revoked(t, how), [tokens EXCEPT ![t].state = how]}
      PROVE  \A s \in Tokens : tokens'[s].user = tokens[s].user
  <2>1. t \in Tokens /\ tokens[t] \in RefreshTokens
    BY <1>1 DEF TypeOK, Issued
  <2>2. Turned(t, how).user = tokens[t].user
    BY DEF Turned
  <2>3. [tokens[t] EXCEPT !.state = how].user = tokens[t].user
    BY <2>1 DEF RefreshTokens
  <2>4. CASE tokens' = [tokens EXCEPT ![t].state = how]
    <3>1. tokens' = [tokens EXCEPT ![t] = [tokens[t] EXCEPT !.state = how]]
      BY <2>4
    <3>2. QED
      BY <1>1, <2>1, <2>3, <3>1 DEF TypeOK
  <2>5. CASE tokens' = [tokens EXCEPT ![t] = Turned(t, how)]
    BY <1>1, <2>1, <2>2, <2>5 DEF TypeOK
  <2>6. QED
    BY <1>1, <1>3, <2>4, <2>5, RevokedAs
<1>4. ASSUME \A s \in Tokens : tokens'[s].user = tokens[s].user,
             \A a \in Requests : task'[a].pc = "issue" =>
               \/ task'[a] = task[a]
               \/ task'[a].from \in Tokens =>
                    task'[a].user = tokens[task'[a].from].user
      PROVE  SameUser'
  BY <1>4 DEF SameUser
<1>5. ASSUME NEW r \in Requests, NEW t \in Tokens, Refresh(r, t) PROVE SameUser'
  <2>1. t \in Issued /\ tokens' = tokens /\ Goto(r, [pc |-> "rotate", token |-> t])
    BY <1>5 DEF Refresh, Valid, Issued
  <2>2. \A a \in Requests : task'[a].pc = "issue" => task'[a] = task[a]
    BY <1>1, <2>1 DEF Goto, TypeOK
  <2>3. QED
    BY <1>4, <2>1, <2>2
<1>6. ASSUME NEW r \in Requests, Rotate(r) PROVE SameUser'
  <2>1. PICK t \in Issued : t = task[r].token
    BY <1>6, RotateFields DEF Rotate
  <2>2. /\ tokens' = Revoked(t, "rotated")
        /\ Goto(r, [pc |-> "issue", user |-> tokens[t].user, from |-> t])
    BY <1>6, <2>1 DEF Rotate
  <2>3. \A a \in Requests : \/ task'[a] = task[a]
                            \/ task'[a].from = t /\ task'[a].user = tokens[t].user
    BY <1>1, <2>2 DEF Goto, TypeOK
  <2>4. QED
    BY <1>3, <1>4, <2>2, <2>3
<1>7. ASSUME NEW r \in Requests, NEW h \in Tokens, Issue(r, h) PROVE SameUser'
  <2>1. \A s \in Tokens \ {h} : tokens'[s] = tokens[s]
    BY <1>1, <1>7 DEF Issue, TypeOK
  <2>2. \A a \in Requests : task'[a].pc = "issue" => task'[a] = task[a]
    BY <1>1, <1>7 DEF Issue, Goto, TypeOK, Idle
  <2>3. h \notin Issued /\ \A a \in Requests : task[a].pc = "issue" => task[a].from # h
    BY <1>7, AccountsAssumption DEF Issue, Issued, TokenInv, FromIssued
  <2>4. QED
    BY <2>1, <2>2, <2>3 DEF SameUser
<1>8. ASSUME NEW t \in Tokens, Logout(t) \/ ExpireToken(t) PROVE SameUser'
  <2>1. /\ t \in Issued /\ task' = task
        /\ \/ tokens' = Revoked(t, "out")
           \/ tokens' = [tokens EXCEPT ![t].state = "expired"]
    BY <1>8 DEF Logout, ExpireToken, Valid, Issued
  <2>2. QED
    BY <1>3, <1>4, <2>1
<1>9. QED
  BY <1>2, <1>5, <1>6, <1>7, <1>8 DEF SessionStep

\* The table of refresh tokens implements Sessions: a token never comes back
\* once it is revoked; what replaces it is for the same user, and alone unless
\* two requests had it before it was replaced. For every number of requests,
\* tokens and users, with failing statements and restarts (auth_service.go:113-168).
THEOREM AccountsImplementSessions == Spec => ImplementsSessions
<1>1. Init => SameUser /\ Lives!Init
  BY DEF Init, SameUser, Lives!Init, Idle
<1>2. TypeInv /\ TokenInv /\ SameUser /\ [Next]_vars => SameUser' /\ [Lives!Next]_(Lives!vars)
  <2> SUFFICES ASSUME TypeInv, TokenInv, SameUser, [Next]_vars
               PROVE  SameUser' /\ LifeSteps
    BY DEF LifeSteps, Lives!vars
  <2>1. TokensQuiet \/ SessionStep
    BY TokensQuietNext
  <2>2. CASE TokensQuiet
    BY <2>2, SameUserKept DEF TokensQuiet, LifeSteps
  <2>3. CASE SessionStep
    BY <2>3, SameUserKept, LivesFound, LivesRotated, LivesIssued, LivesEnded DEF SessionStep
  <2>4. QED
    BY <2>1, <2>2, <2>3
<1>3. QED
  BY <1>1, <1>2, TokensAlways, PTL DEF Spec, ImplementsSessions, Lives!Spec

-----------------------------------------------------------------------------
(***************************************************************************)
(* Presence.                                                               *)
(***************************************************************************)

\* What each goroutine of u under way has told of the open connections, or what
\* all that have ended have told.
Told(u) ==
  /\ \A q \in Reporting(u) :
       /\ task[q].on = Connected(u)
       /\ task[q].pc \in {"key", "db"} => seen[u].set = Connected(u)
       /\ task[q].pc = "db" => (seen[u].key => Connected(u))
  /\ Reporting(u) = {} =>
       /\ seen[u].set = Connected(u)
       /\ seen[u].key => Connected(u)
       /\ rows[u].online = Connected(u)

PresenceInv == \A u \in Registered \ excused.users : Told(u)

\* Nothing is told of u; in Redis a key may expire.
QuietOf(u) ==
  /\ seen'[u].set = seen[u].set /\ Connected(u)' = Connected(u)
  /\ seen'[u].key => seen[u].key
  /\ \A q \in Requests : q \in Reporting(u) \/ q \in Reporting(u)' => task'[q] = task[q]
  /\ \/ u \in Registered \ excused.users /\ rows'[u].online = rows[u].online
     \/ seen[u] = Offline /\ rows'[u].online = FALSE /\ Reporting(u) = {}

LEMMA QuietKept ==
  ASSUME TypeInv, NEW u \in Users, QuietOf(u),
         u \in Registered \ excused.users => Told(u)
  PROVE  Told(u)'
<1>1. Reporting(u)' = Reporting(u) /\ \A q \in Reporting(u) : task'[q] = task[q]
  BY DEF QuietOf, Reporting
<1>2. CASE u \in Registered \ excused.users /\ rows'[u].online = rows[u].online
  BY <1>1, <1>2 DEF QuietOf, Told
<1>3. CASE seen[u] = Offline /\ rows'[u].online = FALSE /\ Reporting(u) = {}
  <2>1. seen[u].set = FALSE /\ Connected(u) = FALSE /\ ~seen[u].key
    BY <1>3 DEF Offline, Connected
  <2>2. seen'[u].set = FALSE /\ Connected(u)' = FALSE /\ ~seen'[u].key
    BY <2>1 DEF QuietOf
  <2>3. QED
    BY <1>1, <1>3, <2>2 DEF Told
<1>4. QED
  BY <1>2, <1>3 DEF QuietOf

\* Requests on rows: a stale row that is saved excuses its user.
LEMMA WorkUsers ==
  ASSUME TypeInv, NEW r \in Requests, WorkStep(r)
  PROVE  excused.users \subseteq excused'.users
<1>1. TypeOK
  BY DEF TypeInv
<1>2. CASE Insert(r) \/ InsertHandle(r) \/ (\E k \in Keys : PutObject(r, k) \/ PutFails(r, k))
           \/ SaveFails(r) \/ DeleteObject(r) \/ DeleteObjectFails(r)
  BY <1>1, <1>2, ExcuseField
     DEF Insert, InsertHandle, PutObject, PutFails, SaveFails, DeleteObject, DeleteObjectFails
<1>3. CASE Save(r)
  BY <1>3, SaveExcuses
<1>4. CASE Check(r) \/ CheckFails(r) \/ Fails(r)
  BY <1>4 DEF Check, CheckFails, Fails
<1>5. ASSUME NEW u \in Users,
             \/ \E n \in Names : Register(r, u, n) \/ CreateGroup(r, u, n) \/ UpdateProfile(r, u, n)
             \/ UploadAvatar(r, u) \/ DeleteAvatar(r, u) \/ Login(r, u)
      PROVE  excused' = excused
  BY <1>5 DEF Register, CreateGroup, UpdateProfile, UploadAvatar, DeleteAvatar, Login
<1>6. QED
  BY <1>2, <1>3, <1>4, <1>5 DEF WorkStep

LEMMA WorkRows ==
  ASSUME TypeInv, NEW r \in Requests, WorkStep(r), NEW u \in Registered' \ excused'.users
  PROVE  \/ u \in Registered /\ rows'[u].online = rows[u].online
         \/ u \notin Registered /\ rows'[u].online = FALSE
<1>1. rows' = rows \/ Insert(r) \/ Save(r)
  BY WorkStepOnly
<1>2. CASE rows' = rows
  BY <1>2 DEF Registered
<1>3. CASE Save(r)
  BY <1>3, SaveEffect, SaveExcuses
<1>4. CASE Insert(r)
  <2> DEFINE row == [name |-> task[r].name, avatar |-> None, online |-> FALSE]
  <2>1. rows' = [rows EXCEPT ![task[r].user] = row] /\ task[r].user \notin Registered
    BY <1>4 DEF Insert
  <2>2. row.online = FALSE
    OBVIOUS
  <2> HIDE DEF row
  <2>3. QED
    BY <2>1, <2>2 DEF TypeInv, TypeOK, Registered
<1>5. QED
  BY <1>1, <1>2, <1>3, <1>4

LEMMA WorkPresence ==
  ASSUME TypeInv, PresenceInv, NEW r \in Requests, WorkStep(r)
  PROVE  PresenceInv'
<1> SUFFICES ASSUME NEW u \in Registered' \ excused'.users
             PROVE  Told(u)'
  BY DEF PresenceInv
<1>1. u \in Users /\ u \notin excused.users /\ WorkOnly(r)
  BY WorkUsers, WorkStepOnly DEF Registered
<1>2. \A q \in Requests : q \in Reporting(u) \/ q \in Reporting(u)' => task'[q] = task[q]
  BY <1>1 DEF WorkOnly, Like, Work, WorkSteps, Reporting
<1>3. u \notin Registered => seen[u] = Offline /\ Reporting(u) = {}
  <2>1. \A q \in Requests : task[q].pc \in {"set", "key", "db"} => task[q].user \in Registered
    BY ReportFields
  <2>2. QED
    BY <1>1, <2>1 DEF TypeInv, Reporting
<1>4. seen' = seen /\ Connected(u)' = Connected(u)
  BY <1>1 DEF WorkOnly, Connected
<1>5. QuietOf(u)
  BY <1>1, <1>2, <1>3, <1>4, WorkRows DEF QuietOf
<1>6. QED
  BY <1>1, <1>5, QuietKept DEF PresenceInv

\* A goroutine starts: those of other users are not concerned.
LEMMA ReportStarts ==
  ASSUME TypeInv, PresenceInv, NEW r \in Requests, NEW u \in Users,
         Connect(r, u) \/ Disconnect(r, u)
  PROVE  PresenceInv'
<1>1. TypeOK
  BY DEF TypeInv
<1>2. \E on \in BOOLEAN :
        /\ Report(r, u, on) /\ Begins(r)
        /\ seen'[u].set = seen[u].set /\ seen'[u].key = seen[u].key
        /\ \A v \in Users \ {u} : seen'[v] = seen[v]
  <2>1. seen[u] \in Presence
    BY <1>1 DEF TypeOK
  <2>2. CASE Connect(r, u)
    BY <1>1, <2>1, <2>2 DEF Connect, TypeOK, Presence
  <2>3. CASE Disconnect(r, u)
    BY <1>1, <2>1, <2>3 DEF Disconnect, TypeOK, Presence
  <2>4. QED
    BY <2>2, <2>3
<1>3. PICK on \in BOOLEAN :
        /\ Report(r, u, on) /\ Begins(r)
        /\ seen'[u].set = seen[u].set /\ seen'[u].key = seen[u].key
        /\ \A v \in Users \ {u} : seen'[v] = seen[v]
  BY <1>2
<1>4. /\ task'[r].pc = "set" /\ task'[r].user = u /\ task'[r].on = on
      /\ \A q \in Requests \ {r} : task'[q] = task[q]
      /\ task[r].pc = "idle" /\ rows' = rows /\ Registered' = Registered
  BY <1>1, <1>3 DEF Report, Goto, TypeOK, Begins, Idle, Registered
<1>5. /\ excused.users \ {u} \subseteq excused'.users
      /\ u \notin excused'.users =>
           /\ Connected(u)' = on /\ \A q \in Reporting(u) : task[q].on = on
           /\ Reporting(u) = {} \/ u \notin excused.users
  BY <1>1, <1>3 DEF Report, TypeOK
<1>6. Reporting(u)' = Reporting(u) \cup {r}
  BY <1>4 DEF Reporting
<1>7. ASSUME NEW v \in Registered \ excused'.users, v # u PROVE Told(v)'
  <2>1. v \in Users /\ v \notin excused.users
    BY <1>5, <1>7 DEF Registered
  <2>2. Connected(v)' = Connected(v)
    BY <1>3, <1>7, <2>1 DEF Connected
  <2>3. QuietOf(v)
    BY <1>3, <1>4, <1>7, <2>1, <2>2 DEF QuietOf, Reporting
  <2>4. QED
    BY <1>7, <2>1, <2>3, QuietKept DEF PresenceInv
<1>8. ASSUME u \in Registered \ excused'.users PROVE Told(u)'
  <2>1. Connected(u)' = on /\ Reporting(u)' # {}
    BY <1>5, <1>6, <1>8
  <2>2. ASSUME NEW q \in Reporting(u), q # r
        PROVE  /\ task'[q].on = on
               /\ task'[q].pc \in {"key", "db"} => seen'[u].set = on
               /\ task'[q].pc = "db" => (seen'[u].key => on)
    <3>1. Told(u) /\ task[q].on = on /\ task[q].on = Connected(u)
      BY <1>5, <1>8, <2>2 DEF PresenceInv, Told
    <3>2. q \in Requests /\ task'[q] = task[q]
      BY <1>4, <2>2 DEF Reporting
    <3>3. QED
      BY <1>3, <2>2, <3>1, <3>2 DEF Told
  <2>3. QED
    BY <1>4, <1>6, <2>1, <2>2 DEF Told
<1>9. QED
  BY <1>4, <1>7, <1>8 DEF PresenceInv

\* A goroutine goes on.
LEMMA ReportGoes ==
  ASSUME TypeInv, PresenceInv, NEW r \in Requests,
         ReportSet(r) \/ ReportKey(r) \/ ReportRow(r) \/ ReportFails(r)
  PROVE  PresenceInv'
<1>1. TypeOK /\ task[r].pc \in {"set", "key", "db"}
  BY DEF TypeInv, ReportSet, ReportKey, ReportRow, ReportFails, At
<1>1a. PICK u \in Users, on \in BOOLEAN : task[r].user = u /\ task[r].on = on
  BY <1>1, ReportFields
<1>2. /\ task[r].pc \in {"set", "key", "db"} /\ task[r].user = u /\ task[r].on = on
      /\ u \in Registered /\ r \in Reporting(u)
  BY <1>1, <1>1a, ReportFields DEF Reporting
<1>3. \A pc \in {"key", "db"} :
        [task[r] EXCEPT !.pc = pc] = [pc |-> pc, user |-> u, on |-> on]
  BY <1>2, ReportFields
<1>4. /\ \A q \in Requests \ {r} : task'[q] = task[q]
      /\ \/ task'[r].pc = "idle"
         \/ task'[r].pc \in {"key", "db"} /\ task'[r].user = u /\ task'[r].on = on
  <2>1. \/ Goto(r, Idle) \/ Goto(r, [task[r] EXCEPT !.pc = "key"])
        \/ Goto(r, [task[r] EXCEPT !.pc = "db"])
    BY DEF ReportSet, ReportKey, ReportRow, ReportFails, To
  <2>2. QED
    BY <1>1, <1>3, <2>1 DEF Goto, TypeOK, Idle
<1>5. /\ rows' = rows \/ (ReportRow(r) /\ rows' = [rows EXCEPT ![u].online = on])
      /\ excused.users \subseteq excused'.users
      /\ ReportFails(r) => u \in excused'.users
  BY <1>1, <1>2, ExcuseField DEF ReportSet, ReportKey, ReportRow, ReportFails
<1>6. /\ \A v \in Users \ {u} : seen'[v] = seen[v]
      /\ seen'[u].conns = seen[u].conns
      /\ ReportSet(r) => seen'[u].set = on /\ seen'[u].key = seen[u].key
      /\ ReportKey(r) => seen'[u].key = on /\ seen'[u].set = seen[u].set
      /\ ReportRow(r) => seen' = seen
  <2>1. seen[u] \in Presence
    BY <1>1, <1>2 DEF TypeOK
  <2>2. CASE ReportSet(r)
    <3>1. seen' = [seen EXCEPT ![u].set = on] /\ task[r].pc = "set"
      BY <1>2, <2>2 DEF ReportSet, At
    <3>2. QED
      BY <1>1, <1>2, <2>1, <3>1 DEF TypeOK, Presence, ReportKey, ReportRow, At
  <2>3. CASE ReportKey(r)
    <3>1. seen' = [seen EXCEPT ![u].key = on] /\ task[r].pc = "key"
      BY <1>2, <2>3 DEF ReportKey, At
    <3>2. QED
      BY <1>1, <1>2, <2>1, <3>1 DEF TypeOK, Presence, ReportSet, ReportRow, At
  <2>4. CASE (ReportRow(r) \/ ReportFails(r)) /\ ~ReportSet(r) /\ ~ReportKey(r)
    BY <2>4 DEF ReportRow, ReportFails
  <2>5. QED
    BY <2>2, <2>3, <2>4
<1>7. /\ ReportSet(r) => task'[r].pc = "key"
      /\ ReportKey(r) => task'[r].pc = "db" /\ task[r].pc = "key"
      /\ ReportRow(r) => task'[r].pc = "idle" /\ task[r].pc = "db"
  BY <1>1, <1>3 DEF ReportSet, ReportKey, ReportRow, At, To, Goto, TypeOK, Idle
<1>8. ReportRow(r) => rows'[u].online = on
  <2>1. rows[u] \in Rows
    BY <1>1, <1>2, RowsTyped
  <2>2. QED
    BY <1>1, <1>2, <2>1 DEF ReportRow, TypeOK, Rows
<1>9. \A v \in Users \ {u} : rows'[v] = rows[v]
  BY <1>1, <1>5 DEF TypeOK
<1>10. Registered' = Registered
  BY <1>1, ElseQuiet DEF PresenceStep, WorkQuiet
<1>11. ASSUME NEW v \in Registered \ excused'.users, v # u PROVE Told(v)'
  <2>1. v \in Users /\ v \in Registered \ excused.users
    BY <1>5, <1>11 DEF Registered
  <2>2. r \notin Reporting(v) /\ r \notin Reporting(v)'
    BY <1>2, <1>4, <1>11 DEF Reporting
  <2>3. seen'[v] = seen[v] /\ Connected(v)' = Connected(v)
    BY <1>6, <1>11, <2>1 DEF Connected
  <2>4. QuietOf(v)
    BY <1>4, <1>9, <1>11, <2>1, <2>2, <2>3 DEF QuietOf, Reporting
  <2>5. QED
    BY <2>1, <2>4, QuietKept DEF PresenceInv
<1>12. ASSUME u \in Registered \ excused'.users PROVE Told(u)'
  <2>1. Told(u) /\ ~ReportFails(r)
    BY <1>5, <1>12 DEF PresenceInv
  <2>2. on = Connected(u) /\ Connected(u)' = on
    <3>1. Connected(u)' = Connected(u)
      BY <1>6 DEF Connected
    <3>2. QED
      BY <1>2, <2>1, <3>1 DEF Told
  <2>3. /\ Reporting(u)' = IF task'[r].pc = "idle" THEN Reporting(u) \ {r} ELSE Reporting(u)
        /\ \A q \in Reporting(u) \ {r} : task'[q] = task[q]
    BY <1>2, <1>4 DEF Reporting
  <2>4. /\ task[r].pc \in {"key", "db"} => seen[u].set = on
        /\ task[r].pc = "db" => (seen[u].key => on)
        /\ \A q \in Reporting(u) :
             /\ task[q].on = on
             /\ task[q].pc \in {"key", "db"} => seen[u].set = on
             /\ task[q].pc = "db" => (seen[u].key => on)
    BY <1>2, <2>1, <2>2 DEF Told
  <2>5. CASE ReportSet(r)
    BY <1>2, <1>4, <1>6, <1>7, <2>2, <2>3, <2>4, <2>5 DEF Told
  <2>6. CASE ReportKey(r)
    BY <1>2, <1>4, <1>6, <1>7, <2>2, <2>3, <2>4, <2>6 DEF Told
  <2>7. CASE ReportRow(r)
    BY <1>2, <1>4, <1>6, <1>7, <1>8, <2>2, <2>3, <2>4, <2>7 DEF Told
  <2>8. QED
    BY <2>1, <2>5, <2>6, <2>7
<1>13. QED
  BY <1>10, <1>11, <1>12 DEF PresenceInv

\* Whatever else happens, presence is left alone, or the process has died.
LEMMA ElsePresence ==
  ASSUME TypeInv, PresenceInv,
         SessionStep \/ (\E u \in Users : KeyExpires(u)) \/ Crash \/ UNCHANGED vars
  PROVE  PresenceInv'
<1>1. TypeOK
  BY DEF TypeInv
<1>2. /\ rows' = rows /\ Registered' = Registered
  BY DEF SessionStep, Rotate, Refresh, Issue, Logout, ExpireToken, KeyExpires, Crash, vars,
         Registered
<1>3. excused.users \subseteq excused'.users
  <2>1. CASE SessionStep
    BY <1>1, <2>1, ExcuseField DEF SessionStep, Rotate, Refresh, Issue, Logout, ExpireToken
  <2>2. CASE (\E u \in Users : KeyExpires(u)) \/ UNCHANGED vars
    BY <2>2 DEF KeyExpires, vars
  <2>3. CASE Crash
    BY <1>1, <2>3 DEF Crash, TypeOK
  <2>4. QED
    BY <2>1, <2>2, <2>3
<1> SUFFICES ASSUME NEW v \in Registered \ excused'.users
             PROVE  Told(v)'
  BY <1>2 DEF PresenceInv
<1>4. v \in Users /\ v \in Registered \ excused.users
  BY <1>3 DEF Registered
<1>5. /\ seen'[v].set = seen[v].set /\ seen'[v].conns = seen[v].conns
      /\ seen'[v].key => seen[v].key
  <2>1. seen[v] \in Presence
    BY <1>1, <1>4 DEF TypeOK
  <2>2. CASE SessionStep \/ UNCHANGED vars
    BY <2>2 DEF SessionStep, Rotate, Refresh, Issue, Logout, ExpireToken, vars
  <2>3. ASSUME NEW u \in Users, KeyExpires(u)
        PROVE  /\ seen'[v].set = seen[v].set /\ seen'[v].conns = seen[v].conns
               /\ seen'[v].key => seen[v].key
    BY <1>1, <1>4, <2>1, <2>3 DEF KeyExpires, TypeOK, Presence
  <2>4. CASE Crash
    <3>1. ~Connected(v)
      BY <1>1, <1>4, <2>4 DEF Crash, TypeOK
    <3>2. seen[v].conns = 0
      BY <2>1, <3>1, AccountsAssumption DEF Connected, Presence
    <3>3. QED
      BY <1>1, <1>4, <2>1, <2>4, <3>2 DEF Crash, TypeOK, Presence
  <2>5. QED
    BY <2>2, <2>3, <2>4
<1>6. \A q \in Requests : q \in Reporting(v) \/ q \in Reporting(v)' => task'[q] = task[q]
  <2>1. CASE Crash
    <3>1. Reporting(v) = {}
      BY <1>1, <1>4, <2>1 DEF Crash, TypeOK
    <3>2. QED
      BY <2>1, <3>1 DEF Crash, Idle, Reporting
  <2>2. ASSUME NEW q \in Requests, NEW t, Goto(q, t), task[q].pc \notin {"set", "key", "db"},
               t.pc \notin {"set", "key", "db"}
        PROVE  \A p \in Requests : p \in Reporting(v) \/ p \in Reporting(v)' => task'[p] = task[p]
    BY <1>1, <2>2 DEF Goto, TypeOK, Reporting
  <2>3. ASSUME NEW q \in Requests, Rotate(q) \/ \E t \in Tokens : Refresh(q, t) \/ Issue(q, t)
        PROVE  \A p \in Requests : p \in Reporting(v) \/ p \in Reporting(v)' => task'[p] = task[p]
    <3>1. CASE Rotate(q)
      BY <2>2, <3>1 DEF Rotate, At
    <3>2. ASSUME NEW t \in Tokens, Refresh(q, t)
          PROVE  \E b : /\ Goto(q, b) /\ b.pc = "rotate" /\ task[q].pc = "idle"
      BY <3>2 DEF Refresh, Begins, Idle
    <3>3. ASSUME NEW t \in Tokens, Issue(q, t)
          PROVE  Goto(q, Idle) /\ Idle.pc = "idle" /\ task[q].pc = "issue"
      BY <3>3 DEF Issue, At, Idle
    <3>4. QED
      BY <2>2, <2>3, <3>1, <3>2, <3>3
  <2>4. CASE \/ \E t \in Tokens : Logout(t) \/ ExpireToken(t)
             \/ (\E u \in Users : KeyExpires(u)) \/ UNCHANGED vars
    BY <2>4 DEF Logout, ExpireToken, KeyExpires, vars
  <2>5. QED
    BY <2>1, <2>3, <2>4 DEF SessionStep
<1>7. Connected(v)' = Connected(v)
  BY <1>5 DEF Connected
<1>8. QED
  BY <1>2, <1>4, <1>5, <1>6, <1>7, QuietKept DEF QuietOf, PresenceInv

\* When no goroutine of a user is under way, Redis and the database say that the
\* user is online exactly if a connection is open, but for what is excused: for
\* every number of connections and users (websocket_handler.go:50-81).
THEOREM PresenceAgrees == Spec => []PresenceSettled
<1>1. Init => PresenceInv
  BY DEF Init, PresenceInv, Registered
<1>2. TypeInv /\ PresenceInv /\ [Next]_vars => PresenceInv'
  BY StepKinds, WorkPresence, ReportStarts, ReportGoes, ElsePresence DEF PresenceStep
<1>3. PresenceInv => PresenceSettled
  BY DEF PresenceInv, Told, PresenceSettled
<1>4. QED
  BY <1>1, <1>2, <1>3, TypedAlways, PTL DEF Spec

-----------------------------------------------------------------------------
(***************************************************************************)
(* Names.                                                                  *)
(***************************************************************************)

\* The steps at which a request has found its name free, or its own.
Takers == {"group", "insert", "handle", "put", "save"}

Holder(t) == IF t.op \in {"register", "create"} THEN {} ELSE {t.user}

\* Nobody else has the name of t, or there is an excuse.
Cleared(t) ==
  \/ Lower[t.name] \in t.since \cup excused.names
  \/ t.unsure
  \/ /\ UsersCalled(t.name) \subseteq Holder(t)
     /\ t.pc # "group" => Lower[t.name] \notin handles

NamesInv ==
  /\ NamesDistinct
  /\ \A q \in Requests : task[q].pc \in Takers => Cleared(task[q])

LEMMA CalledTyped ==
  /\ \A m \in Names : Lower[m] \in Names
  /\ \A m, n \in Names : Lower[m] = Lower[n] => UsersCalled(m) = UsersCalled(n)
  BY AccountsAssumption DEF UsersCalled

\* A step that takes no name.
LEMMA NamesQuiet ==
  ASSUME TypeInv, NamesInv,
         \A m \in Names : UsersCalled(m)' \subseteq UsersCalled(m),
         handles' \subseteq handles, excused.names \subseteq excused'.names,
         \A q \in Requests : task'[q].pc \in Takers =>
           Like(task[q], task'[q]) \/ (Cleared(task'[q]) /\ task'[q].name \in Names)
  PROVE  NamesInv'
<1>1. NamesDistinct'
  BY DEF NamesInv, NamesDistinct
<1>2. ASSUME NEW q \in Requests, task'[q].pc \in Takers PROVE Cleared(task[q])'
  <2>1. PICK t : t = task'[q]
    OBVIOUS
  <2>2. ASSUME Cleared(t), t.name \in Names PROVE Cleared(t)'
    BY <2>2 DEF Cleared
  <2>3. CASE Like(task[q], t)
    <3>1. task[q].pc \in Takers /\ task[q] \in Tasks
      BY <1>2, <2>1, <2>3 DEF Like, TypeInv, TypeOK
    <3>2. task[q] \in Work
      BY <3>1, TaskFields DEF Takers, WorkSteps
    <3>3. t \in Work /\ t.name \in Names
      BY <2>3, <3>2 DEF Like, Work
    <3>4. Cleared(task[q])
      BY <3>1 DEF NamesInv
    <3>5. /\ t.pc = task[q].pc /\ t.op = task[q].op /\ t.user = task[q].user
          /\ t.name = task[q].name /\ t.unsure = task[q].unsure
          /\ task[q].since \subseteq t.since
      BY <2>3 DEF Like
    <3>6. Cleared(t)
      BY <3>4, <3>5 DEF Cleared, Holder
    <3>7. QED
      BY <2>1, <2>2, <3>3, <3>6
  <2>4. CASE Cleared(t) /\ t.name \in Names
    BY <1>2, <2>1, <2>2, <2>4
  <2>5. QED
    BY <1>2, <2>1, <2>3, <2>4
<1>3. QED
  BY <1>1, <1>2 DEF NamesInv

\* A step of r that takes the name x: the others hear of it.
LEMMA NamesTaken ==
  ASSUME TypeInv, NamesInv, NEW r \in Requests, NEW x \in Names,
         \A m \in Names : Lower[m] # x => UsersCalled(m)' \subseteq UsersCalled(m),
         handles' \subseteq handles \cup {x}, excused.names \subseteq excused'.names,
         x \notin excused'.names => \A m \in Names : Lower[m] = x =>
           /\ \A u, v \in UsersCalled(m)' : u = v
           /\ x \in handles' => UsersCalled(m)' = {},
         \A q \in Requests \ {r} : /\ Like(task[q], task'[q])
                                   /\ task[q].pc \in WorkSteps => x \in task'[q].since,
         task'[r].pc \notin Takers
  PROVE  NamesInv'
<1>1. NamesDistinct'
  <2> SUFFICES ASSUME NEW m \in Names, Lower[m] \notin excused'.names
               PROVE  /\ \A u, v \in UsersCalled(m)' : u = v
                      /\ Lower[m] \in handles' => UsersCalled(m)' = {}
    BY DEF NamesDistinct
  <2>1. CASE Lower[m] = x
    BY <2>1
  <2>2. CASE Lower[m] # x
    <3>1. UsersCalled(m)' \subseteq UsersCalled(m) /\ Lower[m] \notin excused.names
      BY <2>2
    <3>2. /\ \A u, v \in UsersCalled(m) : u = v
          /\ Lower[m] \in handles => UsersCalled(m) = {}
      BY <3>1 DEF NamesInv, NamesDistinct
    <3>3. QED
      BY <2>2, <3>1, <3>2
  <2>3. QED
    BY <2>1, <2>2
<1>2. ASSUME NEW q \in Requests, task'[q].pc \in Takers PROVE Cleared(task[q])'
  <2>1. PICK t : t = task'[q]
    OBVIOUS
  <2>2. q # r /\ Like(task[q], t)
    BY <1>2, <2>1
  <2>3. task[q].pc \in Takers /\ task[q] \in Tasks
    BY <1>2, <2>1, <2>2 DEF Like, TypeInv, TypeOK
  <2>4. task[q] \in Work /\ task[q].pc \in WorkSteps
    BY <2>3, TaskFields DEF Takers, WorkSteps
  <2>5. x \in t.since /\ t.name \in Names
    BY <2>1, <2>2, <2>4 DEF Like, Work
  <2>6. /\ t.pc = task[q].pc /\ t.op = task[q].op /\ t.user = task[q].user
        /\ t.name = task[q].name /\ t.unsure = task[q].unsure
        /\ task[q].since \subseteq t.since
    BY <2>2 DEF Like
  <2>7. Cleared(t)
    BY <2>3, <2>6 DEF NamesInv, Cleared, Holder
  <2>8. Cleared(t)'
    BY <2>5, <2>7 DEF Cleared
  <2>9. QED
    BY <2>1, <2>8
<1>3. QED
  BY <1>1, <1>2 DEF NamesInv

\* The table of users, when r inserts or saves a row with the name n.
LEMMA CalledAfter ==
  ASSUME TypeInv, NEW u \in Users, NEW n \in Names,
         Registered' = Registered \cup {u}, rows'[u].name = n,
         \A v \in Registered \ {u} : rows'[v] = rows[v]
  PROVE  \A m \in Names :
           UsersCalled(m)' = (UsersCalled(m) \ {u}) \cup (IF Lower[m] = Lower[n] THEN {u} ELSE {})
  BY DEF UsersCalled, TypeInv, TypeOK

LEMMA NamesInserted ==
  ASSUME TypeInv, NamesInv, NEW r \in Requests, Insert(r)
  PROVE  NamesInv'
<1>1. TypeOK
  BY DEF TypeInv
<1>2. PICK t : t = task[r]
  OBVIOUS
<1>3. t \in Work /\ t.pc = "insert" /\ t.op = "register"
      /\ t.user \in Users \ Registered /\ t.name \in Names /\ Lower[t.name] \in Names
  <2>1. t \in Work /\ t.pc = "insert" /\ Sound(t, Registered, Issued)
    BY <1>1, <1>2, TaskFields DEF Insert, At, TypeInv, TypeOK, WorkSteps
  <2>2. t.op = "register"
    BY <2>1 DEF Sound, Formed, Work, Operations, WorkSteps
  <2>3. QED
    BY <1>2, <2>1, <2>2, AccountsAssumption DEF Insert, Work
<1>4. /\ Registered' = Registered \cup {t.user} /\ rows'[t.user].name = t.name
      /\ \A v \in Registered \ {t.user} : rows'[v] = rows[v]
  <2> DEFINE row == [name |-> t.name, avatar |-> None, online |-> FALSE]
  <2>1. row \in Rows /\ row.name = t.name
    BY <1>3 DEF Rows
  <2>2. rows' = [rows EXCEPT ![t.user] = row]
    BY <1>2 DEF Insert
  <2> HIDE DEF row
  <2>3. QED
    BY <1>1, <1>3, <2>1, <2>2, NoneAssumption DEF TypeOK, Registered
<1>5. \A m \in Names : UsersCalled(m)'
        = UsersCalled(m) \cup (IF Lower[m] = Lower[t.name] THEN {t.user} ELSE {})
  BY <1>3, <1>4, CalledAfter DEF UsersCalled
<1>6. excused'.names = excused.names \cup Shared(t) /\ handles' = handles
  BY <1>1, <1>2, ExcuseField DEF Insert
<1>7. Lower[t.name] \notin excused'.names =>
        UsersCalled(t.name) = {} /\ Lower[t.name] \notin handles
  <2>1. Cleared(t) /\ Holder(t) = {}
    BY <1>2, <1>3 DEF NamesInv, Takers, Holder
  <2>2. QED
    BY <1>3, <1>6, <2>1 DEF Cleared, Shared
<1>8. Claim(r, t.name, [pc |-> "issue", user |-> t.user, from |-> None])
  BY <1>2 DEF Insert
<1>9. /\ \A q \in Requests \ {r} :
           /\ Like(task[q], task'[q])
           /\ task[q].pc \in WorkSteps => Lower[t.name] \in task'[q].since
      /\ task'[r].pc = "issue"
  BY <1>1, <1>3, <1>8, ClaimLike
<1>10. \A m \in Names : Lower[m] = Lower[t.name] => UsersCalled(m) = UsersCalled(t.name)
  BY <1>3, CalledTyped
<1>11. QED
  BY <1>3, <1>5, <1>6, <1>7, <1>9, <1>10, NamesTaken DEF Takers

LEMMA NamesHandled ==
  ASSUME TypeInv, NamesInv, NEW r \in Requests, InsertHandle(r)
  PROVE  NamesInv'
<1>1. TypeOK
  BY DEF TypeInv
<1>2. PICK t : t = task[r]
  OBVIOUS
<1>3. t \in Work /\ t.pc = "handle" /\ t.op = "create"
      /\ t.name \in Names /\ Lower[t.name] = t.name
  <2>1. t \in Work /\ t.pc = "handle" /\ Sound(t, Registered, Issued)
    BY <1>1, <1>2, TaskFields DEF InsertHandle, At, TypeInv, TypeOK, WorkSteps
  <2>2. t.op = "create"
    BY <2>1 DEF Sound, Formed, Work, Operations, WorkSteps
  <2>3. QED
    BY <2>1, <2>2 DEF Work, Sound, Formed, WorkSteps
<1>4. \A m \in Names : UsersCalled(m)' = UsersCalled(m)
  BY DEF InsertHandle, UsersCalled, Registered
<1>5. excused'.names = excused.names \cup Shared(t) /\ handles' = handles \cup {t.name}
  BY <1>1, <1>2, ExcuseField DEF InsertHandle
<1>6. Lower[t.name] \notin excused'.names => UsersCalled(t.name) = {}
  <2>1. Cleared(t) /\ Holder(t) = {}
    BY <1>2, <1>3 DEF NamesInv, Takers, Holder
  <2>2. QED
    BY <1>3, <1>5, <2>1 DEF Cleared, Shared
<1>7. Claim(r, t.name, Idle)
  BY <1>2 DEF InsertHandle
<1>8. /\ \A q \in Requests \ {r} :
           /\ Like(task[q], task'[q])
           /\ task[q].pc \in WorkSteps => Lower[t.name] \in task'[q].since
      /\ task'[r].pc = "idle"
  BY <1>1, <1>3, <1>7, ClaimLike DEF Idle
<1>9. \A m \in Names : Lower[m] = Lower[t.name] => UsersCalled(m) = UsersCalled(t.name)
  BY <1>3, CalledTyped
<1>10. QED
  BY <1>3, <1>4, <1>5, <1>6, <1>8, <1>9, NamesTaken DEF Takers

LEMMA NamesSaved ==
  ASSUME TypeInv, NamesInv, NEW r \in Requests, Save(r)
  PROVE  NamesInv'
<1>1. TypeOK
  BY DEF TypeInv
<1>2. PICK t : t = task[r]
  OBVIOUS
<1>3. t \in Work /\ t.pc = "save" /\ t.op \in Changes
      /\ t.user \in Registered /\ t.user \in Users
      /\ t.name \in Names /\ Lower[t.name] \in Names
  BY <1>2, SaveFields, AccountsAssumption DEF Save, At, Registered, Work
<1>4. /\ Registered' = Registered /\ rows'[t.user].name = t.name
      /\ \A v \in Registered \ {t.user} : rows'[v] = rows[v]
      /\ handles' = handles
  BY <1>2, SaveEffect DEF Save
<1>5. \A m \in Names : UsersCalled(m)' = (UsersCalled(m) \ {t.user})
                         \cup (IF Lower[m] = Lower[t.name] THEN {t.user} ELSE {})
  BY <1>3, <1>4, CalledAfter
<1>6. excused'.names = excused.names
        \cup (IF rows[t.user].name = t.name THEN {} ELSE Shared(t))
  BY <1>2, SaveExcuses
<1>7. /\ \A q \in Requests \ {r} :
           /\ Like(task[q], task'[q])
           /\ (rows[t.user].name # t.name /\ task[q].pc \in WorkSteps)
                => Lower[t.name] \in task'[q].since
      /\ task'[r].pc \in {"idle", "drop"}
  BY <1>2, SaveEffect, DropTyped
<1>8. CASE rows[t.user].name = t.name
  <2>1. \A m \in Names : UsersCalled(m)' \subseteq UsersCalled(m)
    BY <1>3, <1>5, <1>8 DEF UsersCalled
  <2>2. QED
    BY <1>4, <1>6, <1>7, <2>1, NamesQuiet DEF Takers
<1>9. CASE rows[t.user].name # t.name
  <2>1. Lower[t.name] \notin excused'.names =>
          UsersCalled(t.name) \subseteq {t.user} /\ Lower[t.name] \notin handles
    <3>1. Cleared(t) /\ Holder(t) = {t.user}
      BY <1>2, <1>3 DEF NamesInv, Takers, Holder, Changes
    <3>2. QED
      BY <1>3, <1>6, <1>9, <3>1 DEF Cleared, Shared
  <2>2. \A m \in Names : Lower[m] = Lower[t.name] => UsersCalled(m) = UsersCalled(t.name)
    BY <1>3, CalledTyped
  <2>3. QED
    BY <1>3, <1>4, <1>5, <1>6, <1>7, <1>9, <2>1, <2>2, NamesTaken DEF Takers
<1>10. QED
  BY <1>8, <1>9

\* A request goes on to t, and takes no name.
LEMMA NamesGo ==
  ASSUME TypeInv, NamesInv, NEW r \in Requests, NEW t, Goto(r, t),
         rows' = rows, handles' = handles, excused.names \subseteq excused'.names,
         t.pc \in Takers => Cleared(t) /\ t.name \in Names
  PROVE  NamesInv'
<1>1. \A m \in Names : UsersCalled(m)' = UsersCalled(m)
  BY DEF UsersCalled, Registered
<1>2. \A q \in Requests : IF q = r THEN task'[q] = t ELSE Like(task[q], task'[q])
  BY GoesLike DEF TypeInv
<1>3. QED
  BY <1>1, <1>2, NamesQuiet

\* A user's own name is free, or excused.
LEMMA OwnName ==
  ASSUME TypeInv, NamesInv, NEW u \in Registered, NEW t,
         t.name = rows[u].name, t.user = u, t.op \in Changes
  PROVE  Cleared(t) /\ t.name \in Names
<1>1. t.name \in Names /\ u \in UsersCalled(t.name)
  BY RowsTyped DEF TypeInv, UsersCalled
<1>2. Lower[t.name] \notin excused.names =>
        UsersCalled(t.name) = {u} /\ Lower[t.name] \notin handles
  BY <1>1 DEF NamesInv, NamesDistinct
<1>3. Holder(t) = {u}
  BY DEF Holder, Changes
<1>4. QED
  BY <1>1, <1>2, <1>3 DEF Cleared

\* The steps of requests that take no name.
LEMMA NamesWork ==
  ASSUME TypeInv, NamesInv, NEW r \in Requests, WorkStep(r)
  PROVE  NamesInv'
<1>1. TypeOK
  BY DEF TypeInv
<1>2. ASSUME NEW u \in Users, NEW n \in Names, UpdateProfile(r, u, n) PROVE NamesInv'
  <2> DEFINE t == Working(IF n = rows[u].name THEN "save" ELSE "user",
                          "profile", u, rows[u], n, rows[u].avatar)
  <2>1. /\ t.op = "profile" /\ t.user = u /\ t.name = n
        /\ t.pc = IF n = rows[u].name THEN "save" ELSE "user"
    BY DEF Working
  <2>2. /\ Goto(r, t) /\ u \in Registered
        /\ UNCHANGED <<load, rows, handles, tokens, objects, used, seen, excused>>
    BY <1>2 DEF UpdateProfile
  <2> HIDE DEF t
  <2>3. t.pc \in Takers => Cleared(t) /\ t.name \in Names
    BY <2>1, <2>2, OwnName DEF Takers, Changes
  <2>4. QED
    BY <2>2, <2>3, NamesGo
<1>3. ASSUME NEW u \in Users, UploadAvatar(r, u) \/ DeleteAvatar(r, u) PROVE NamesInv'
  <2>1. PICK t : /\ Goto(r, t) /\ u \in Registered
                 /\ t.op \in Changes /\ t.user = u /\ t.name = rows[u].name
                 /\ rows' = rows /\ handles' = handles /\ excused' = excused
    <3>1. CASE UploadAvatar(r, u)
      BY <3>1 DEF UploadAvatar, Working, Changes
    <3>2. CASE DeleteAvatar(r, u)
      BY <3>2 DEF DeleteAvatar, Working, Changes
    <3>3. QED
      BY <1>3, <3>1, <3>2
  <2>2. QED
    BY <2>1, OwnName, NamesGo
<1>4. ASSUME Checking(r), NEW t, rows' = rows, handles' = handles, excused' = excused,
             \/ t = [task[r] EXCEPT !.pc = AfterCheck(task[r])] /\ ~Found(task[r])
             \/ t = [task[r] EXCEPT !.pc = AfterCheck(task[r]), !.unsure = TRUE],
             Goto(r, t)
      PROVE  NamesInv'
  <2>1. PICK a : a = task[r]
    OBVIOUS
  <2>2. /\ a \in Work /\ t \in Work /\ t.op = a.op /\ t.user = a.user /\ t.name = a.name
        /\ t.since = a.since /\ t.pc = AfterCheck(a) /\ a.pc \in {"email", "user", "group"}
        /\ t.name \in Names /\ t.op \in {"register", "create", "profile"}
    <3>1. Sound(a, Registered, Issued) /\ a \in Work
      BY <1>4, <2>1, CheckedTask DEF TypeInv
    <3>2. a.pc \in {"email", "user", "group"}
      BY <1>4, <2>1 DEF Checking
    <3>3. a.op \in {"register", "create", "profile"}
      BY <3>1, <3>2 DEF Sound, Formed, Work, Operations, WorkSteps
    <3>4. /\ t \in Work /\ t.op = a.op /\ t.user = a.user /\ t.name = a.name
          /\ t.since = a.since /\ t.pc = AfterCheck(a)
      BY <1>4, <2>1, CheckedTask
    <3>5. t.name \in Names
      BY <3>4 DEF Work
    <3>6. QED
      BY <3>1, <3>2, <3>3, <3>4, <3>5
  <2>3. CASE t = [a EXCEPT !.pc = AfterCheck(a), !.unsure = TRUE]
    <3>1. t.unsure = TRUE
      BY <2>2, <2>3 DEF Work
    <3>2. Cleared(t)
      BY <3>1 DEF Cleared
    <3>3. QED
      BY <1>4, <2>2, <3>2, NamesGo
  <2>4. CASE t = [a EXCEPT !.pc = AfterCheck(a)] /\ ~Found(a)
    <3>1. a.pc = "email" => t.pc = "user"
      BY <2>2 DEF AfterCheck
    <3>2. a.pc = "user" => t.pc = "group" /\ UsersCalled(t.name) = {}
      BY <2>2, <2>4 DEF AfterCheck, Found, TakenByUser
    <3>3. a.pc = "group" => t.pc # "group" /\ Lower[t.name] \notin handles
      BY <2>2, <2>4 DEF AfterCheck, Found, TakenByGroup
    <3>4. t.unsure = a.unsure /\ Holder(t) = Holder(a)
      BY <2>2, <2>4 DEF Work, Holder
    <3>5. t.pc \in Takers => Cleared(t)
      <4>1. CASE a.pc = "email"
        BY <3>1, <4>1 DEF Takers
      <4>2. CASE a.pc = "user"
        BY <3>2, <4>2 DEF Cleared
      <4>3. CASE a.pc = "group"
        <5>1. Cleared(a)
          BY <2>1, <4>3 DEF NamesInv, Takers
        <5>2. QED
          BY <2>2, <3>3, <3>4, <4>3, <5>1 DEF Cleared
      <4>4. QED
        BY <2>2, <4>1, <4>2, <4>3
    <3>6. QED
      BY <1>4, <2>2, <3>5, NamesGo
  <2>5. QED
    BY <1>4, <2>1, <2>3, <2>4
<1>5. ASSUME NEW k \in Keys, PutObject(r, k) PROVE NamesInv'
  <2>1. PICK a : a = task[r]
    OBVIOUS
  <2>2. a \in Work /\ a.pc = "put"
    BY <1>1, <1>5, <2>1, TaskFields DEF PutObject, At, TypeOK, WorkSteps
  <2>3. PICK t : t = [a EXCEPT !.pc = "save", !.key = k]
    OBVIOUS
  <2>4. /\ t.pc = "save" /\ t.op = a.op /\ t.user = a.user /\ t.name = a.name
        /\ t.since = a.since /\ t.unsure = a.unsure /\ t.name \in Names
    BY <2>2, <2>3 DEF Work
  <2>5. Cleared(a)
    BY <2>1, <2>2 DEF NamesInv, Takers
  <2>6. Cleared(t)
    BY <2>2, <2>4, <2>5 DEF Cleared, Holder
  <2>7. Goto(r, t) /\ rows' = rows /\ handles' = handles /\ excused' = excused
    BY <1>5, <2>1, <2>3 DEF PutObject
  <2>8. QED
    BY <2>4, <2>6, <2>7, NamesGo
<1>6. ASSUME \/ \E u \in Users : \/ \E n \in Names : Register(r, u, n) \/ CreateGroup(r, u, n)
                                 \/ Login(r, u)
             \/ Check(r) /\ Found(task[r])
             \/ Fails(r) \/ SaveFails(r) \/ DeleteObject(r) \/ DeleteObjectFails(r)
             \/ \E k \in Keys : PutFails(r, k)
      PROVE  NamesInv'
  <2>1. rows' = rows /\ handles' = handles
    BY <1>6 DEF Register, CreateGroup, Login, Check, Fails, SaveFails, DeleteObject,
                DeleteObjectFails, PutFails
  <2>2. excused.names \subseteq excused'.names
    <3>1. CASE DeleteObjectFails(r) \/ \E k \in Keys : PutFails(r, k)
      BY <1>1, <3>1, ExcuseField DEF DeleteObjectFails, PutFails
    <3>2. CASE \/ \E u \in Users : \/ \E n \in Names : Register(r, u, n) \/ CreateGroup(r, u, n)
                                   \/ Login(r, u)
               \/ Check(r) \/ Fails(r) \/ SaveFails(r) \/ DeleteObject(r)
      BY <3>2 DEF Register, CreateGroup, Login, Check, Fails, SaveFails, DeleteObject
    <3>3. QED
      BY <1>6, <3>1, <3>2
  <2>3. \E t : Goto(r, t) /\ t.pc \notin Takers
    <3>1. Idle.pc = "idle" /\ \A k : DropOr(k).pc \in {"idle", "drop"}
      BY DEF Idle, DropOr
    <3>2. ASSUME NEW u \in Users, NEW n \in Names, Register(r, u, n) \/ CreateGroup(r, u, n)
          PROVE  \E t : Goto(r, t) /\ t.pc \in {"email", "user"}
      BY <3>2 DEF Register, CreateGroup, Working
    <3>3. ASSUME NEW u \in Users, Login(r, u)
          PROVE  \E t : Goto(r, t) /\ t.pc = "issue"
      BY <3>3 DEF Login
    <3>4. CASE SaveFails(r)
      BY <3>1, <3>4 DEF SaveFails, Takers
    <3>5. CASE \/ Check(r) /\ Found(task[r])
               \/ Fails(r) \/ DeleteObject(r) \/ DeleteObjectFails(r)
               \/ \E k \in Keys : PutFails(r, k)
      <4>1. Goto(r, Idle)
        BY <3>5 DEF Check, Fails, DeleteObject, DeleteObjectFails, PutFails
      <4>2. QED
        BY <3>1, <4>1 DEF Takers
    <3>6. QED
      BY <1>6, <3>2, <3>3, <3>4, <3>5 DEF Takers
  <2>4. QED
    BY <2>1, <2>2, <2>3, NamesGo
<1>7. ASSUME (Check(r) /\ ~Found(task[r])) \/ CheckFails(r) PROVE NamesInv'
  BY <1>4, <1>7 DEF Check, CheckFails, To
<1>8. QED
  BY <1>2, <1>3, <1>5, <1>6, <1>7, NamesInserted, NamesHandled, NamesSaved DEF WorkStep

\* However it is spelled, a name belongs to one user or to one group, but for
\* those that requests took while they overlapped: for every number of users,
\* groups and requests (auth_service.go:57-69, user_service.go:34-45,
\* group_service.go:60-68).
THEOREM NamesAreDistinct == Spec => []NamesDistinct
<1>1. Init => NamesInv
  BY DEF Init, NamesInv, NamesDistinct, UsersCalled, Registered, Idle, Takers
<1>2. TypeInv /\ NamesInv /\ [Next]_vars => NamesInv'
  <2> SUFFICES ASSUME TypeInv, NamesInv, [Next]_vars PROVE NamesInv'
    OBVIOUS
  <2>1. ASSUME WorkQuiet PROVE NamesInv'
    <3>1. \A m \in Names : UsersCalled(m)' = UsersCalled(m)
      BY <2>1 DEF WorkQuiet, UsersCalled
    <3>2. \A q \in Requests : task'[q].pc \in Takers => Like(task[q], task'[q])
      BY <2>1 DEF WorkQuiet, Takers, WorkSteps, Like
    <3>3. QED
      BY <2>1, <3>1, <3>2, NamesQuiet DEF WorkQuiet
  <2>2. CASE Crash
    <3>1. \A q \in Requests : task'[q].pc = "idle"
      BY <2>2 DEF Crash, Idle
    <3>2. \A m \in Names : UsersCalled(m)' = UsersCalled(m)
      BY <2>2 DEF Crash, UsersCalled, Registered
    <3>3. handles' = handles /\ excused'.names = excused.names
      BY <2>2 DEF Crash, TypeInv, TypeOK
    <3>4. QED
      BY <3>1, <3>2, <3>3, NamesQuiet DEF Takers
  <2>3. CASE SessionStep \/ (\E u \in Users : KeyExpires(u)) \/ UNCHANGED vars
    BY <2>1, <2>3, ElseQuiet
  <2>4. QED
    BY <2>1, <2>2, <2>3, StepKinds, NamesWork, ElseQuiet
<1>3. NamesInv => NamesDistinct
  BY DEF NamesInv
<1>4. QED
  BY <1>1, <1>2, <1>3, TypedAlways, PTL DEF Spec

-----------------------------------------------------------------------------
(***************************************************************************)
(* Avatars: everything is said of one key k at a time.                     *)
(***************************************************************************)

\* The row of u names k; t may write k into a row or drop it later; t has put
\* k, and is to save it; t is to drop it.
Shows(u, k) == u \in Registered /\ rows[u].avatar = k
Refers(t, k) == t.pc \in WorkSteps /\ t.op \in Changes /\ k \in {t.was.avatar, t.key}
Stored(t, k) == t.pc = "save" /\ t.op = "upload" /\ t.key = k
Drops(t, k) == t.pc = "drop" /\ t.key = k

\* A key that has not been generated is nowhere.
Unseen(k) ==
  k \notin used => /\ \A u \in Users : ~Shows(u, k)
                   /\ \A q \in Requests : ~Refers(task[q], k) /\ ~Drops(task[q], k)

\* A key is of one user.
Owned(k) ==
  /\ \A u, v \in Users : Shows(u, k) /\ Shows(v, k) => u = v
  /\ \A q \in Requests, u \in Users :
       Refers(task[q], k) /\ Shows(u, k) => u = task[q].user
  /\ \A p, q \in Requests :
       Refers(task[p], k) /\ Refers(task[q], k) => task[p].user = task[q].user

\* What has been put and not saved is known to that request only.
Private(k) ==
  \A q \in Requests : Stored(task[q], k) =>
    /\ k \in objects /\ k # task[q].was.avatar
    /\ \A u \in Users : ~Shows(u, k)
    /\ \A p \in Requests : ~Drops(task[p], k) /\ (Refers(task[p], k) => p = q)

\* A row names what is dropped only if saves have crossed.
Dropped(k) ==
  \A q \in Requests, u \in Users : Drops(task[q], k) /\ Shows(u, k) => k \in excused.keys

Agrees(k) ==
  /\ \A u \in Users : Shows(u, k) => k \in objects \cup excused.keys
  /\ k \in objects => \/ k \in excused.keys
                      \/ \E u \in Users : Shows(u, k)
                      \/ \E q \in Requests : Stored(task[q], k) \/ Drops(task[q], k)

KeyInv(k) == Unseen(k) /\ Owned(k) /\ Private(k) /\ Dropped(k) /\ Agrees(k)

\* A task begins with what the row of its user names, or goes on, or ends; the
\* object is not under its care, stays there, or is excused.
TaskQuiet(a, b, k) ==
  /\ Refers(b, k) => \/ Refers(a, k) /\ b.user = a.user
                     \/ Shows(b.user, k) /\ b.user \in Users
  /\ Stored(b, k) => Stored(a, k) /\ b.was = a.was
  /\ Drops(b, k) => Drops(a, k)
  /\ Stored(a, k) \/ Drops(a, k) => Stored(b, k) \/ Drops(b, k) \/ k \in excused'.keys

LEMMA KeyQuiet ==
  ASSUME NEW k \in Keys, KeyInv(k),
         \A u \in Users : Shows(u, k)' <=> Shows(u, k),
         k \in objects' <=> k \in objects, k \in used => k \in used',
         k \in excused.keys => k \in excused'.keys,
         \A q \in Requests : TaskQuiet(task[q], task'[q], k)
  PROVE  KeyInv(k)'
<1>1. ASSUME NEW q \in Requests
      PROVE  /\ Refers(task[q], k)' => \/ Refers(task[q], k) /\ task'[q].user = task[q].user
                                       \/ Shows(task'[q].user, k) /\ task'[q].user \in Users
             /\ Stored(task[q], k)' => Stored(task[q], k) /\ task'[q].was = task[q].was
             /\ Drops(task[q], k)' => Drops(task[q], k)
             /\ Stored(task[q], k) \/ Drops(task[q], k)
                  => Stored(task[q], k)' \/ Drops(task[q], k)' \/ k \in excused'.keys
  BY DEF TaskQuiet, Refers, Stored, Drops
<1>2. Unseen(k)'
  BY <1>1 DEF KeyInv, Unseen
<1>3. Owned(k)'
  BY <1>1 DEF KeyInv, Owned
<1>4. Private(k)'
  BY <1>1 DEF KeyInv, Private
<1>5. Dropped(k)'
  BY <1>1 DEF KeyInv, Dropped
<1>6. Agrees(k)'
  BY <1>1 DEF KeyInv, Agrees
<1>7. QED
  BY <1>2, <1>3, <1>4, <1>5, <1>6 DEF KeyInv

LEMMA LikeQuiet ==
  ASSUME NEW a, NEW b, Like(a, b), NEW k \in Keys
  PROVE  /\ Refers(b, k) <=> Refers(a, k)
         /\ Stored(b, k) <=> Stored(a, k)
         /\ Drops(b, k) <=> Drops(a, k)
         /\ b.user = a.user /\ b.was = a.was /\ TaskQuiet(a, b, k)
  BY DEF Like, Refers, Stored, Drops, TaskQuiet

\* A task goes on to t, and no row, object or key changes.
LEMMA KeyGo ==
  ASSUME TypeInv, NEW k \in Keys, KeyInv(k), NEW r \in Requests, NEW t, Goto(r, t),
         UNCHANGED <<rows, objects, used>>, excused.keys \subseteq excused'.keys,
         TaskQuiet(task[r], t, k)
  PROVE  KeyInv(k)'
<1>1. \A q \in Requests : IF q = r THEN task'[q] = t ELSE Like(task[q], task'[q])
  BY GoesLike DEF TypeInv
<1>2. \A q \in Requests : TaskQuiet(task[q], task'[q], k)
  BY <1>1, LikeQuiet
<1>3. \A u \in Users : Shows(u, k)' <=> Shows(u, k)
  BY DEF Shows, Registered
<1>4. QED
  BY <1>2, <1>3, KeyQuiet

\* A row is saved: its old avatar is to be dropped, unless saves have crossed.
LEMMA KeySaved ==
  ASSUME TypeInv, NEW k \in Keys, KeyInv(k), NEW r \in Requests, Save(r)
  PROVE  KeyInv(k)'
<1>1. PICK t : t = task[r]
  OBVIOUS
<1>2. PICK u \in Users : u = t.user /\ u \in Registered
  BY <1>1, SaveFields DEF Save, Registered
<1>3. PICK old : old = OldKey(t)
  OBVIOUS
<1>4. PICK now : now = rows[u].avatar
  OBVIOUS
<1>5. /\ t.pc = "save" /\ t.op \in Changes
      /\ t.op = "profile" => t.key = t.was.avatar /\ old = None
      /\ t.op \in {"upload", "delete"} => old = t.was.avatar
      /\ t.op = "delete" => t.key = None
  BY <1>1, <1>3, SaveFields, SaveEffect DEF Save, At, Changes
<1>6. \A v \in Users : Shows(v, k)' <=> IF v = u THEN t.key = k ELSE Shows(v, k)
  <2>1. /\ Registered' = Registered /\ rows'[u].avatar = t.key
        /\ \A v \in Registered \ {u} : rows'[v] = rows[v]
    BY <1>1, <1>2, SaveEffect
  <2>2. QED
    BY <1>2, <2>1 DEF Shows
<1>7. \A q \in Requests \ {r} :
        /\ (Refers(task[q], k)' <=> Refers(task[q], k)) /\ (Stored(task[q], k)' <=> Stored(task[q], k))
        /\ Drops(task[q], k)' <=> Drops(task[q], k)
        /\ task'[q].user = task[q].user /\ task'[q].was = task[q].was
  <2>1. \A q \in Requests \ {r} : Like(task[q], task'[q])
    BY SaveEffect
  <2>2. QED
    BY <2>1, LikeQuiet DEF Refers, Stored, Drops
<1>8. /\ ~Refers(task[r], k)' /\ ~Stored(task[r], k)'
      /\ Drops(task[r], k)' <=> old = k
  <2>1. task'[r] = DropOr(old)
    BY <1>1, <1>3, SaveEffect
  <2>2. k # None
    BY AccountsAssumption
  <2>3. QED
    BY <2>1, <2>2 DEF Refers, Stored, Drops, DropOr, WorkSteps, Idle
<1>9. /\ objects' = objects /\ used' = used
      /\ excused'.keys = excused.keys \cup Crossed(t)
  BY <1>1, SaveExcuses DEF Save
<1>10. Crossed(t) = IF now = t.was.avatar THEN {}
                    ELSE ({now} \ {None, t.key})
                           \cup (IF t.key = t.was.avatar THEN {t.key} \ {None} ELSE {})
  BY <1>2, <1>4 DEF Crossed
<1>11. /\ Refers(task[r], k) <=> k \in {t.was.avatar, t.key}
       /\ Stored(task[r], k) <=> t.op = "upload" /\ t.key = k
       /\ ~Drops(task[r], k)
  BY <1>1, <1>5 DEF Refers, Stored, Drops, WorkSteps
<1>12. k # None /\ (Shows(u, k) <=> now = k)
  BY <1>2, <1>4, AccountsAssumption DEF Shows
<1>13. old = k => Refers(task[r], k) /\ t.op \in {"upload", "delete"}
  BY <1>5, <1>11, <1>12 DEF Changes
<1>14. Unseen(k)'
  BY <1>6, <1>7, <1>8, <1>9, <1>11, <1>13 DEF KeyInv, Unseen
<1>15. Owned(k)'
  <2>1. t.key = k => Refers(task[r], k)
    BY <1>11
  <2>2. \A v \in Users : Shows(v, k)' =>
          Shows(v, k) \/ (v = u /\ Refers(task[r], k) /\ task[r].user = u)
    BY <1>1, <1>2, <1>6, <2>1
  <2>3. QED
    BY <1>7, <1>8, <2>2 DEF KeyInv, Owned
<1>16. Private(k)'
  <2>1. ASSUME NEW q \in Requests, Stored(task[q], k)'
        PROVE  /\ q # r /\ Stored(task[q], k) /\ ~Refers(task[r], k)
               /\ task'[q].was = task[q].was
    BY <1>7, <1>8, <2>1 DEF KeyInv, Private
  <2>2. ~Refers(task[r], k) => t.key # k /\ old # k
    BY <1>11, <1>13
  <2>3. QED
    BY <1>6, <1>7, <1>8, <1>9, <2>1, <2>2 DEF KeyInv, Private
<1>17. Dropped(k)'
  <2> SUFFICES ASSUME NEW q \in Requests, NEW v \in Users, Drops(task[q], k)', Shows(v, k)'
               PROVE  k \in excused'.keys
    BY DEF Dropped
  <2>1. CASE v # u /\ q # r
    BY <1>6, <1>7, <1>9, <2>1 DEF KeyInv, Dropped
  <2>2. CASE v # u /\ q = r
    BY <1>1, <1>2, <1>6, <1>8, <1>13, <2>2 DEF KeyInv, Owned
  <2>3. CASE v = u
    <3>1. t.key = k
      BY <1>6, <2>3
    <3>2. t.op # "delete"
      BY <1>5, <1>12, <3>1
    <3>3. t.op # "upload"
      <4>1. ASSUME t.op = "upload"
            PROVE  k # t.was.avatar /\ \A p \in Requests : ~Drops(task[p], k)
        BY <1>1, <1>11, <3>1, <4>1 DEF KeyInv, Private
      <4>2. QED
        BY <1>5, <1>7, <1>8, <4>1
    <3>4. t.key = t.was.avatar /\ q # r
      BY <1>5, <1>8, <1>12, <3>2, <3>3 DEF Changes
    <3>5. CASE now = k
      BY <1>7, <1>9, <1>12, <3>4, <3>5 DEF KeyInv, Dropped
    <3>6. CASE now # k
      BY <1>9, <1>10, <1>12, <3>1, <3>4, <3>6
    <3>7. QED
      BY <3>5, <3>6
  <2>4. QED
    BY <2>1, <2>2, <2>3
<1>18. Agrees(k)'
  <2>1. ASSUME NEW v \in Users, Shows(v, k)' PROVE k \in objects' \cup excused'.keys
    <3>1. CASE Shows(v, k)
      BY <1>9, <3>1 DEF KeyInv, Agrees
    <3>2. CASE ~Shows(v, k)
      <4>1. v = u /\ t.key = k /\ now # k
        BY <1>6, <1>12, <2>1, <3>2
      <4>2. CASE t.op = "upload"
        BY <1>9, <1>11, <4>1, <4>2 DEF KeyInv, Private
      <4>3. CASE t.op = "profile"
        BY <1>5, <1>9, <1>10, <1>12, <4>1, <4>3
      <4>4. QED
        BY <1>5, <1>12, <4>1, <4>2, <4>3 DEF Changes
    <3>3. QED
      BY <3>1, <3>2
  <2>2. ASSUME k \in objects'
        PROVE  \/ k \in excused'.keys
               \/ \E v \in Users : Shows(v, k)'
               \/ \E q \in Requests : Stored(task[q], k)' \/ Drops(task[q], k)'
    <3>1. \/ k \in excused.keys
          \/ \E v \in Users : Shows(v, k)
          \/ \E q \in Requests : Stored(task[q], k) \/ Drops(task[q], k)
      BY <1>9, <2>2 DEF KeyInv, Agrees
    <3>2. CASE k \in excused.keys
      BY <1>9, <3>2
    <3>3. ASSUME NEW v \in Users, Shows(v, k), v # u PROVE Shows(v, k)'
      BY <1>6, <3>3
    <3>4. CASE Shows(u, k)
      <4>1. now = k
        BY <1>12, <3>4
      <4>2. CASE now # t.was.avatar
        BY <1>6, <1>9, <1>10, <1>12, <4>1, <4>2
      <4>3. CASE now = t.was.avatar
        <5>1. t.key = k \/ old = k
          BY <1>5, <4>1, <4>3 DEF Changes
        <5>2. QED
          BY <1>6, <1>8, <5>1
      <4>4. QED
        BY <4>2, <4>3
    <3>5. ASSUME NEW q \in Requests, Stored(task[q], k) \/ Drops(task[q], k)
          PROVE  Stored(task[q], k)' \/ Drops(task[q], k)' \/ Shows(u, k)'
      BY <1>6, <1>7, <1>11, <3>5
    <3>6. QED
      BY <3>1, <3>2, <3>3, <3>4, <3>5
  <2>3. QED
    BY <2>1, <2>2 DEF Agrees
<1>19. QED
  BY <1>14, <1>15, <1>16, <1>17, <1>18 DEF KeyInv

\* The image is put under the key j.
LEMMA KeyPut ==
  ASSUME TypeInv, NEW k \in Keys, KeyInv(k), NEW r \in Requests, NEW j \in Keys,
         PutObject(r, j)
  PROVE  KeyInv(k)'
<1>1. TypeOK
  BY DEF TypeInv
<1>2. PICK a : a = task[r]
  OBVIOUS
<1>3. PICK b : b = [a EXCEPT !.pc = "save", !.key = j]
  OBVIOUS
<1>4. a \in Work /\ a.pc = "put" /\ a.op = "upload"
  <2>1. a \in Work /\ a.pc = "put" /\ Sound(a, Registered, Issued)
    BY <1>1, <1>2, TaskFields DEF PutObject, At, TypeInv, TypeOK, WorkSteps
  <2>2. QED
    BY <2>1 DEF Sound, Formed, Work, Operations, WorkSteps
<1>5. b.pc = "save" /\ b.op = "upload" /\ b.user = a.user /\ b.was = a.was /\ b.key = j
  BY <1>3, <1>4 DEF Work
<1>6. /\ j \notin used /\ used' = used \cup {j} /\ objects' = objects \cup {j}
      /\ rows' = rows /\ excused' = excused /\ Goto(r, b)
  BY <1>2, <1>3 DEF PutObject, Fresh
<1>7. \A q \in Requests : IF q = r THEN task'[q] = b ELSE task'[q] = task[q]
  BY <1>1, <1>6 DEF Goto, TypeOK
<1>8. \A u \in Users : Shows(u, k)' <=> Shows(u, k)
  BY <1>6 DEF Shows, Registered
<1>9. CASE k = j
  <2>1. /\ \A u \in Users : ~Shows(u, k)
        /\ \A q \in Requests : ~Refers(task[q], k) /\ ~Drops(task[q], k)
    BY <1>6, <1>9 DEF KeyInv, Unseen
  <2>2. k # b.was.avatar
    BY <1>2, <1>4, <1>5, <2>1 DEF Refers, Changes, WorkSteps
  <2>3. \A q \in Requests : /\ Refers(task[q], k)' => q = r
                            /\ Stored(task[q], k)' => q = r
                            /\ ~Drops(task[q], k)'
    <3>1. ~Drops(b, k)
      BY <1>5 DEF Drops
    <3>2. \A q \in Requests : Stored(task[q], k) => Refers(task[q], k)
      BY DEF Stored, Refers, Changes, WorkSteps
    <3>3. QED
      BY <1>7, <2>1, <3>1, <3>2 DEF Refers, Stored, Drops
  <2>4. Stored(task[r], k)' /\ task'[r].was = b.was
    BY <1>5, <1>7, <1>9 DEF Stored
  <2>5. Unseen(k)' /\ Owned(k)' /\ Dropped(k)'
    BY <1>6, <1>8, <1>9, <2>1, <2>3 DEF Unseen, Owned, Dropped
  <2>6. Private(k)'
    BY <1>6, <1>8, <1>9, <2>1, <2>2, <2>3, <2>4 DEF Private
  <2>7. Agrees(k)'
    BY <1>8, <2>1, <2>4 DEF Agrees
  <2>8. QED
    BY <2>5, <2>6, <2>7 DEF KeyInv
<1>10. CASE k # j
  <2>1. TaskQuiet(a, b, k)
    BY <1>4, <1>5, <1>10 DEF TaskQuiet, Refers, Stored, Drops, Changes, WorkSteps
  <2>2. \A q \in Requests : TaskQuiet(task[q], task'[q], k)
    BY <1>2, <1>7, <2>1, LikeQuiet DEF Like
  <2>3. QED
    BY <1>6, <1>8, <1>10, <2>2, KeyQuiet
<1>11. QED
  BY <1>9, <1>10

\* Putting fails, and the object may be there.
LEMMA KeyNotPut ==
  ASSUME TypeInv, NEW k \in Keys, KeyInv(k), NEW r \in Requests, NEW j \in Keys,
         PutFails(r, j)
  PROVE  KeyInv(k)'
<1>1. TypeOK /\ task[r].pc = "put"
  BY DEF TypeInv, PutFails, At
<1>2. TaskQuiet(task[r], Idle, k)
  BY <1>1 DEF TaskQuiet, Refers, Stored, Drops, Idle, WorkSteps
<1>3. Goto(r, Idle) /\ rows' = rows /\ excused.keys \subseteq excused'.keys
  BY <1>1, ExcuseField DEF PutFails
<1>4. CASE UNCHANGED <<objects, used, excused>>
  BY <1>2, <1>3, <1>4, KeyGo
<1>5. CASE /\ j \notin used /\ used' = used \cup {j} /\ objects' = objects \cup {j}
           /\ excused'.keys = excused.keys \cup {j}
  <2>1. \A q \in Requests : IF q = r THEN task'[q] = Idle ELSE task'[q] = task[q]
    BY <1>1, <1>3 DEF Goto, TypeOK
  <2>2. \A u \in Users : Shows(u, k)' <=> Shows(u, k)
    BY <1>3 DEF Shows, Registered
  <2>3. CASE k = j
    <3>1. /\ \A u \in Users : ~Shows(u, k)
          /\ \A q \in Requests : ~Refers(task[q], k) /\ ~Drops(task[q], k)
      BY <1>5, <2>3 DEF KeyInv, Unseen
    <3>2. \A q \in Requests : ~Refers(task[q], k)' /\ ~Stored(task[q], k)' /\ ~Drops(task[q], k)'
      BY <2>1, <3>1 DEF Refers, Stored, Drops, Idle, Changes, WorkSteps
    <3>3. QED
      BY <1>5, <2>2, <2>3, <3>1, <3>2 DEF KeyInv, Unseen, Owned, Private, Dropped, Agrees
  <2>4. CASE k # j
    <3>1. \A q \in Requests : TaskQuiet(task[q], task'[q], k)
      BY <1>2, <2>1, LikeQuiet DEF Like
    <3>2. QED
      BY <1>5, <2>2, <2>4, <3>1, KeyQuiet
  <2>5. QED
    BY <2>3, <2>4
<1>6. QED
  BY <1>1, <1>4, <1>5, ExcuseField DEF PutFails, Fresh

\* The row is not saved: what has been put is to be dropped.
LEMMA KeyNotSaved ==
  ASSUME TypeInv, NEW k \in Keys, KeyInv(k), NEW r \in Requests, SaveFails(r)
  PROVE  KeyInv(k)'
<1>1. PICK j : j = IF task[r].op = "upload" THEN task[r].key ELSE None
  OBVIOUS
<1>2. /\ task[r].pc = "save" /\ task[r].op \in Changes
      /\ Goto(r, DropOr(j)) /\ UNCHANGED <<rows, objects, used, excused>>
  BY <1>1, SaveFields DEF SaveFails, At
<1>3. k # None
  BY AccountsAssumption
<1>4. /\ ~Refers(DropOr(j), k) /\ ~Stored(DropOr(j), k)
      /\ Drops(DropOr(j), k) <=> j = k
  BY <1>3 DEF Refers, Stored, Drops, DropOr, WorkSteps, Idle
<1>5. /\ Stored(task[r], k) <=> j = k
      /\ ~Drops(task[r], k)
  BY <1>1, <1>2, <1>3 DEF Stored, Drops
<1>6. CASE j # k
  <2>1. TaskQuiet(task[r], DropOr(j), k)
    BY <1>4, <1>5, <1>6 DEF TaskQuiet
  <2>2. QED
    BY <1>2, <2>1, KeyGo
<1>7. CASE j = k
  <2>1. /\ \A u \in Users : ~Shows(u, k)
        /\ \A p \in Requests : ~Drops(task[p], k) /\ (Refers(task[p], k) => p = r)
    BY <1>5, <1>7 DEF KeyInv, Private
  <2>2. Refers(task[r], k) /\ k \in used
    BY <1>2, <1>5, <1>7 DEF Refers, Stored, WorkSteps, KeyInv, Unseen
  <2>3. \A q \in Requests : /\ ~Refers(task[q], k)' /\ ~Stored(task[q], k)'
                            /\ Drops(task[q], k)' <=> q = r
    <3>1. \A q \in Requests : task'[q] = IF q = r THEN DropOr(j) ELSE task[q]
      BY <1>2 DEF Goto, TypeInv, TypeOK
    <3>2. \A q \in Requests : Stored(task[q], k) => Refers(task[q], k)
      BY DEF Stored, Refers, Changes, WorkSteps
    <3>3. QED
      BY <1>4, <1>7, <2>1, <3>1, <3>2 DEF Refers, Stored, Drops
  <2>4. \A u \in Users : ~Shows(u, k)'
    BY <1>2, <2>1 DEF Shows, Registered
  <2>5. QED
    BY <1>2, <2>2, <2>3, <2>4 DEF KeyInv, Unseen, Owned, Private, Dropped, Agrees
<1>8. QED
  BY <1>6, <1>7

\* An object is deleted, or stays.
LEMMA KeyDropped ==
  ASSUME TypeInv, NEW k \in Keys, KeyInv(k), NEW r \in Requests,
         DeleteObject(r) \/ DeleteObjectFails(r)
  PROVE  KeyInv(k)'
<1>1. PICK j : j = task[r].key
  OBVIOUS
<1>2. /\ task[r].pc = "drop" /\ Goto(r, Idle) /\ UNCHANGED <<rows, used>>
      /\ \A q \in Requests : task'[q] = IF q = r THEN Idle ELSE task[q]
      /\ \/ objects' = objects \ {j} /\ excused' = excused
         \/ objects' = objects /\ excused'.keys = excused.keys \cup {j}
  BY <1>1, ExcuseField DEF DeleteObject, DeleteObjectFails, At, Goto, TypeInv, TypeOK
<1>3. /\ ~Refers(Idle, k) /\ ~Stored(Idle, k) /\ ~Drops(Idle, k)
      /\ ~Refers(task[r], k) /\ ~Stored(task[r], k) /\ (Drops(task[r], k) <=> j = k)
  BY <1>1, <1>2 DEF Refers, Stored, Drops, Idle, WorkSteps
<1>4. \A u \in Users : Shows(u, k)' <=> Shows(u, k)
  BY <1>2 DEF Shows, Registered
<1>5. CASE j # k \/ (k \in excused'.keys /\ objects' = objects)
  <2>1. \A q \in Requests : TaskQuiet(task[q], task'[q], k)
    <3>1. TaskQuiet(task[r], Idle, k)
      BY <1>3, <1>5 DEF TaskQuiet
    <3>2. QED
      BY <1>2, <3>1, LikeQuiet DEF Like
  <2>2. QED
    BY <1>2, <1>4, <1>5, <2>1, KeyQuiet
<1>6. CASE j = k /\ objects' = objects \ {j} /\ excused' = excused
  <2>1. /\ \A q \in Requests : ~Stored(task[q], k)
        /\ \A u \in Users : Shows(u, k) => k \in excused.keys
    BY <1>3, <1>6 DEF KeyInv, Private, Dropped
  <2>2. \A q \in Requests :
          /\ Refers(task[q], k)' => Refers(task[q], k) /\ task'[q] = task[q]
          /\ ~Stored(task[q], k)'
          /\ Drops(task[q], k)' => Drops(task[q], k)
    BY <1>2, <1>3, <2>1 DEF Refers, Stored, Drops
  <2>3. Unseen(k)' /\ Owned(k)' /\ Private(k)' /\ Dropped(k)'
    BY <1>2, <1>4, <1>6, <2>2 DEF KeyInv, Unseen, Owned, Private, Dropped
  <2>4. Agrees(k)'
    BY <1>4, <1>6, <2>1 DEF Agrees
  <2>5. QED
    BY <2>3, <2>4 DEF KeyInv
<1>7. j # k \/ (k \in excused'.keys /\ objects' = objects)
      \/ (j = k /\ objects' = objects \ {j} /\ excused' = excused)
  BY <1>2
<1>8. QED
  BY <1>5, <1>6, <1>7

\* A row or a handle is inserted.
LEMMA KeyInserted ==
  ASSUME TypeInv, NEW k \in Keys, KeyInv(k), NEW r \in Requests,
         Insert(r) \/ InsertHandle(r)
  PROVE  KeyInv(k)'
<1>1. TypeOK
  BY DEF TypeInv
<1>2. task[r].pc \in {"insert", "handle"} /\ task[r] \in Work /\ task[r].name \in Names
      /\ task[r].op \notin Changes
  <2>1. task[r].pc \in {"insert", "handle"} /\ task[r] \in Work /\ Sound(task[r], Registered, Issued)
    BY <1>1, TaskFields DEF Insert, InsertHandle, At, TypeInv, TypeOK, WorkSteps
  <2>2. QED
    BY <2>1 DEF Sound, Formed, Work, WorkSteps, Changes
<1>3. \E b : b.pc \in {"issue", "idle"} /\ Claim(r, task[r].name, b)
  BY DEF Insert, InsertHandle, Idle
<1>4. task'[r].pc \in {"issue", "idle"} /\ \A q \in Requests \ {r} : Like(task[q], task'[q])
  BY <1>1, <1>2, <1>3, ClaimLike
<1>5. TaskQuiet(task[r], task'[r], k)
  BY <1>2, <1>4 DEF TaskQuiet, Refers, Stored, Drops, WorkSteps
<1>6. \A q \in Requests : TaskQuiet(task[q], task'[q], k)
  BY <1>4, <1>5, LikeQuiet
<1>7. /\ objects' = objects /\ used' = used /\ excused'.keys = excused.keys
  BY <1>1, ExcuseField DEF Insert, InsertHandle
<1>8. \A u \in Users : Shows(u, k)' <=> Shows(u, k)
  <2>1. CASE InsertHandle(r)
    BY <2>1 DEF InsertHandle, Shows, Registered
  <2>2. CASE Insert(r)
    <3>1. PICK v \in Users : v = task[r].user
      BY <1>2 DEF Work
    <3>2. PICK row : row = [name |-> task[r].name, avatar |-> None, online |-> FALSE]
      OBVIOUS
    <3>3. rows' = [rows EXCEPT ![v] = row] /\ v \notin Registered /\ row.avatar = None
      BY <2>2, <3>1, <3>2 DEF Insert
    <3>4. k # None
      BY AccountsAssumption
    <3>5. \A u \in Users : rows'[u] = IF u = v THEN row ELSE rows[u]
      BY <1>1, <3>1, <3>3 DEF TypeOK
    <3>6. QED
      BY <3>3, <3>4, <3>5 DEF Shows, Registered
  <2>3. QED
    BY <2>1, <2>2
<1>9. QED
  BY <1>6, <1>7, <1>8, KeyQuiet

\* Requests that begin, and checks.
LEMMA KeyBegun ==
  ASSUME TypeInv, NEW k \in Keys, KeyInv(k), NEW r \in Requests,
         \/ \E u \in Users :
              \/ \E n \in Names : Register(r, u, n) \/ CreateGroup(r, u, n) \/ UpdateProfile(r, u, n)
              \/ UploadAvatar(r, u) \/ DeleteAvatar(r, u) \/ Login(r, u)
         \/ Check(r) \/ CheckFails(r) \/ Fails(r)
  PROVE  KeyInv(k)'
<1>1. k # None
  BY AccountsAssumption
<1>2. UNCHANGED <<rows, objects, used, excused>>
  BY DEF Register, CreateGroup, UpdateProfile, UploadAvatar, DeleteAvatar, Login, Check,
         CheckFails, Fails
<1>3. ASSUME NEW t, Goto(r, t), TaskQuiet(task[r], t, k) PROVE KeyInv(k)'
  BY <1>2, <1>3, KeyGo
<1>4. ASSUME NEW u \in Users, NEW n \in Names, Register(r, u, n) \/ CreateGroup(r, u, n)
      PROVE  KeyInv(k)'
  <2>1. \E t : Goto(r, t) /\ t.pc \in {"email", "user"} /\ t.op \notin Changes
               /\ task[r].pc = "idle"
    BY <1>4 DEF Register, CreateGroup, Working, Changes, Begins, Idle
  <2>2. QED
    BY <1>3, <2>1 DEF TaskQuiet, Refers, Stored, Drops
<1>5. ASSUME NEW u \in Registered, NEW t, Goto(r, t), task[r].pc = "idle",
             t.user = u /\ t.was = rows[u] /\ t.key \in {None, rows[u].avatar},
             t.pc \in WorkSteps /\ ~(t.pc = "save" /\ t.op = "upload")
      PROVE  KeyInv(k)'
  <2>1. Refers(t, k) => Shows(u, k)
    BY <1>1, <1>5 DEF Refers, Shows
  <2>2. u \in Users /\ ~Stored(t, k) /\ ~Drops(t, k)
        /\ ~Stored(task[r], k) /\ ~Drops(task[r], k)
    BY <1>5 DEF Registered, Stored, Drops, WorkSteps
  <2>3. QED
    BY <1>3, <1>5, <2>1, <2>2 DEF TaskQuiet
<1>6. ASSUME NEW u \in Users, NEW n \in Names, UpdateProfile(r, u, n) PROVE KeyInv(k)'
  <2>1. PICK t : t = Working(IF n = rows[u].name THEN "save" ELSE "user",
                             "profile", u, rows[u], n, rows[u].avatar)
    OBVIOUS
  <2>2. t.pc \in {"save", "user"} /\ t.op = "profile" /\ t.user = u /\ t.was = rows[u]
        /\ t.key = rows[u].avatar
    BY <2>1 DEF Working
  <2>3. Goto(r, t) /\ u \in Registered /\ task[r].pc = "idle"
    BY <1>6, <2>1 DEF UpdateProfile, Begins, Idle
  <2>4. QED
    BY <1>5, <2>2, <2>3 DEF WorkSteps
<1>7. ASSUME NEW u \in Users, UploadAvatar(r, u) PROVE KeyInv(k)'
  <2>1. PICK t : t = Working("put", "upload", u, rows[u], rows[u].name, None)
    OBVIOUS
  <2>2. t.pc = "put" /\ t.user = u /\ t.was = rows[u] /\ t.key = None
    BY <2>1 DEF Working
  <2>3. Goto(r, t) /\ u \in Registered /\ task[r].pc = "idle"
    BY <1>7, <2>1 DEF UploadAvatar, Begins, Idle
  <2>4. QED
    BY <1>5, <2>2, <2>3 DEF WorkSteps
<1>8. ASSUME NEW u \in Users, DeleteAvatar(r, u) PROVE KeyInv(k)'
  <2>1. PICK t : t = Working("save", "delete", u, rows[u], rows[u].name, None)
    OBVIOUS
  <2>2. t.pc = "save" /\ t.op = "delete" /\ t.user = u /\ t.was = rows[u] /\ t.key = None
    BY <2>1 DEF Working
  <2>3. Goto(r, t) /\ u \in Registered /\ task[r].pc = "idle"
    BY <1>8, <2>1 DEF DeleteAvatar, Begins, Idle
  <2>4. QED
    BY <1>5, <2>2, <2>3 DEF WorkSteps
<1>9. ASSUME NEW u \in Users, Login(r, u) PROVE KeyInv(k)'
  <2>1. \E t : Goto(r, t) /\ t.pc = "issue" /\ task[r].pc = "idle"
    BY <1>9 DEF Login, Begins, Idle
  <2>2. QED
    BY <1>3, <2>1 DEF TaskQuiet, Refers, Stored, Drops, WorkSteps
<1>10. CASE (Check(r) /\ Found(task[r])) \/ Fails(r)
  <2>1. Goto(r, Idle) /\ task[r].pc \in {"email", "user", "group", "insert", "handle",
                                         "rotate", "issue"}
    BY <1>10 DEF Check, Checking, Fails, At
  <2>2. QED
    BY <1>3, <2>1 DEF TaskQuiet, Refers, Stored, Drops, Idle, WorkSteps
<1>11. CASE (Check(r) /\ ~Found(task[r])) \/ CheckFails(r)
  <2>1. PICK a : a = task[r]
    OBVIOUS
  <2>2. PICK t : /\ Goto(r, t) /\ Checking(r)
                 /\ \/ t = [task[r] EXCEPT !.pc = AfterCheck(task[r])]
                    \/ t = [task[r] EXCEPT !.pc = AfterCheck(task[r]), !.unsure = TRUE]
    BY <1>11 DEF Check, CheckFails, To
  <2>3. /\ a \in Work /\ t.op = a.op /\ t.user = a.user /\ t.was = a.was /\ t.key = a.key
        /\ t \in Work
    BY <2>1, <2>2, CheckedTask
  <2>4. a.pc \in {"email", "user", "group"} /\ a.op # "upload"
    <3>1. Sound(a, Registered, Issued) /\ a.pc \in {"email", "user", "group"}
      BY <2>1, <2>2 DEF TypeInv, Checking
    <3>2. QED
      BY <3>1 DEF Sound, Formed, WorkSteps
  <2>5. TaskQuiet(a, t, k)
    BY <2>3, <2>4 DEF TaskQuiet, Refers, Stored, Drops, Work, WorkSteps
  <2>6. QED
    BY <1>3, <2>1, <2>2, <2>5
<1>12. QED
  BY <1>4, <1>6, <1>7, <1>8, <1>9, <1>10, <1>11

\* Sessions and presence have nothing to do with avatars; a crash leaves what
\* requests had in their hands.
LEMMA KeyElse ==
  ASSUME TypeInv, NEW k \in Keys, KeyInv(k), WorkQuiet \/ Crash
  PROVE  KeyInv(k)'
<1>1. CASE WorkQuiet
  <2>1. \A u \in Users : Shows(u, k)' <=> Shows(u, k)
    BY <1>1 DEF WorkQuiet, Shows
  <2>2. \A q \in Requests : TaskQuiet(task[q], task'[q], k)
    <3>1. ASSUME NEW q \in Requests PROVE TaskQuiet(task[q], task'[q], k)
      <4>1. CASE task'[q] = task[q]
        BY <4>1, LikeQuiet DEF Like
      <4>2. CASE task[q].pc \notin WorkSteps \cup {"drop"} /\ task'[q].pc \notin WorkSteps \cup {"drop"}
        BY <4>2 DEF TaskQuiet, Refers, Stored, Drops, WorkSteps
      <4>3. QED
        BY <1>1, <4>1, <4>2 DEF WorkQuiet
    <3>2. QED
      BY <3>1
  <2>3. QED
    BY <1>1, <2>1, <2>2, KeyQuiet DEF WorkQuiet
<1>2. CASE Crash
  <2>1. /\ UNCHANGED <<rows, objects, used>> /\ \A q \in Requests : task'[q] = Idle
        /\ excused'.keys = excused.keys \cup UNION {Held(task[q]) : q \in Requests}
    BY <1>2 DEF Crash, TypeInv, TypeOK
  <2>2. \A q \in Requests : Stored(task[q], k) \/ Drops(task[q], k) => k \in Held(task[q])
    BY DEF Stored, Drops, Held
  <2>3. \A q \in Requests : TaskQuiet(task[q], task'[q], k)
    BY <2>1, <2>2 DEF TaskQuiet, Refers, Stored, Drops, Idle, WorkSteps
  <2>4. \A u \in Users : Shows(u, k)' <=> Shows(u, k)
    BY <2>1 DEF Shows, Registered
  <2>5. QED
    BY <2>1, <2>3, <2>4, KeyQuiet
<1>3. QED
  BY <1>1, <1>2

AvatarInv == \A k \in Keys : KeyInv(k)

\* A row names an avatar that is in the store, and the store keeps what a row
\* names or a request is to name or delete, but for what crossed saves and
\* failures leave behind: for every number of users, avatars and requests
\* (avatar_service.go:44-115, user_service.go:48-84).
THEOREM AvatarsAgreeAlways == Spec => []AvatarsAgree
<1>1. Init => AvatarInv
  BY DEF Init, AvatarInv, KeyInv, Unseen, Owned, Private, Dropped, Agrees, Shows, Refers,
         Stored, Drops, Registered, Idle, WorkSteps
<1>2. TypeInv /\ AvatarInv /\ [Next]_vars => AvatarInv'
  <2> SUFFICES ASSUME TypeInv, AvatarInv, [Next]_vars, NEW k \in Keys
               PROVE  KeyInv(k)'
    BY DEF AvatarInv
  <2>1. KeyInv(k)
    BY DEF AvatarInv
  <2>2. ASSUME NEW r \in Requests, WorkStep(r) PROVE KeyInv(k)'
    BY <2>1, <2>2, KeyPut, KeyNotPut, KeySaved, KeyNotSaved, KeyDropped, KeyInserted, KeyBegun
       DEF WorkStep
  <2>3. QED
    BY <2>1, <2>2, StepKinds, ElseQuiet, KeyElse
<1>3. TypeInv /\ AvatarInv => AvatarsAgree
  <2> SUFFICES ASSUME TypeInv, AvatarInv PROVE AvatarsAgree
    OBVIOUS
  <2>1. ASSUME NEW u \in Registered
        PROVE  rows[u].avatar \in objects \cup excused.keys \cup {None}
    <3>1. rows[u].avatar \in Keys \cup {None} /\ u \in Users
      BY RowsTyped DEF TypeInv
    <3>2. QED
      BY <3>1 DEF AvatarInv, KeyInv, Agrees, Shows
  <2>2. ASSUME NEW k \in objects
        PROVE  \/ k \in {rows[u].avatar : u \in Registered}
               \/ k \in UNION {Held(task[q]) : q \in Requests}
               \/ k \in excused.keys
    <3>1. k \in Keys
      BY DEF TypeInv, TypeOK
    <3>2. \A q \in Requests : Stored(task[q], k) \/ Drops(task[q], k) => k \in Held(task[q])
      BY DEF Stored, Drops, Held
    <3>3. QED
      BY <3>1, <3>2 DEF AvatarInv, KeyInv, Agrees, Shows
  <2>3. objects \subseteq {rows[u].avatar : u \in Registered}
                             \cup (UNION {Held(task[q]) : q \in Requests})
                             \cup excused.keys
    <3>1. PICK named : named = {rows[u].avatar : u \in Registered}
      OBVIOUS
    <3>2. PICK held : held = UNION {Held(task[q]) : q \in Requests}
      OBVIOUS
    <3>3. \A k \in objects : k \in named \/ k \in held \/ k \in excused.keys
      BY <2>2, <3>1, <3>2
    <3>4. objects \subseteq named \cup held \cup excused.keys
      BY <3>3
    <3>5. QED
      BY <3>1, <3>2, <3>4
  <2>4. QED
    BY <2>1, <2>3 DEF AvatarsAgree
<1>4. QED
  BY <1>1, <1>2, <1>3, TypedAlways, PTL DEF Spec

-----------------------------------------------------------------------------
(***************************************************************************)
(* One request at a time, and nothing that fails.                          *)
(***************************************************************************)

\* A request on a row has the row as it is, and nobody else has come.
Current(t, table) ==
  t.pc \in WorkSteps => /\ t.since = {} /\ t.unsure = FALSE
                        /\ t.op \in Changes => t.was = table[t.user]

Alone ==
  /\ \A q, r \in Requests : task[q] # Idle /\ task[r] # Idle => q = r
  /\ \A r \in Requests : Current(task[r], rows)

Unexcused == excused.names = {} /\ excused.keys = {} /\ excused.users = {}

LEMMA IdleCurrent == \A table : Current(Idle, table)
  BY DEF Current, Idle, WorkSteps

\* When one may begin, nobody is at work.
LEMMA BeginsAlone ==
  ASSUME \A w \in Workloads : w.atOnce = 1,
         TypeInv, Alone, NEW r \in Requests, Begins(r)
  PROVE  \A q \in Requests : task[q] = Idle
<1> DEFINE busy == {q \in Requests : task[q] # Idle}
<1>1. Cardinality(busy) < 1
  BY DEF Begins, TypeInv, TypeOK
<1>2. ASSUME NEW x \in Requests, task[x] # Idle PROVE FALSE
  <2>1. busy = {x}
    BY <1>2 DEF Alone
  <2>2. Cardinality({x}) = 1
    BY FS_Singleton
  <2>3. QED
    BY <1>1, <2>1, <2>2
<1>3. QED
  BY <1>2

\* What another one would do to a task, nobody does.
LEMMA AloneGoes ==
  ASSUME TypeInv, Alone, NEW r \in Requests, NEW t, Current(t, rows'),
         \/ task[r] # Idle
         \/ \A q \in Requests : task[q] = Idle,
         \A q \in Requests : IF q = r THEN task'[q] = t ELSE Like(task[q], task'[q])
  PROVE  Alone'
<1>1. \A q \in Requests \ {r} : task[q] = Idle
  BY DEF Alone
<1>2. Idle.pc = "idle" /\ \A w \in Work : w.pc \in WorkSteps
  BY DEF Idle, Work
<1>3. \A q \in Requests \ {r} : task'[q] = Idle
  BY <1>1, <1>2 DEF Like, WorkSteps
<1>4. \A q \in Requests : Current(task'[q], rows')
  BY <1>3, IdleCurrent DEF Current, Idle, WorkSteps
<1>5. QED
  BY <1>3, <1>4 DEF Alone, Idle, Current

LEMMA AloneGoto ==
  ASSUME TypeInv, Alone, NEW r \in Requests, NEW t, Goto(r, t), Current(t, rows'),
         \/ task[r] # Idle
         \/ \A q \in Requests : task[q] = Idle
  PROVE  Alone'
<1>1. \A q \in Requests : IF q = r THEN task'[q] = t ELSE Like(task[q], task'[q])
  BY GoesLike DEF TypeInv
<1>2. QED
  BY <1>1, AloneGoes

\* A request that begins has read the row, or has not, and nobody disturbs it.
LEMMA AloneBegins ==
  ASSUME MaxConns = 1, \A w \in Workloads : w.atOnce = 1,
         TypeInv, Alone, Unexcused, NEW r \in Requests, NEW u \in Users,
         \/ \E n \in Names : Register(r, u, n) \/ CreateGroup(r, u, n) \/ UpdateProfile(r, u, n)
         \/ UploadAvatar(r, u) \/ DeleteAvatar(r, u) \/ Login(r, u)
         \/ Connect(r, u) \/ Disconnect(r, u)
         \/ \E t \in Tokens : Refresh(r, t)
  PROVE  Alone' /\ Unexcused'
<1>0. \A q \in Requests : task[q] = Idle
  BY BeginsAlone
     DEF Register, CreateGroup, UpdateProfile, UploadAvatar, DeleteAvatar, Login,
         Connect, Disconnect, Refresh
<1>1. ASSUME NEW n \in Names,
             \/ Register(r, u, n) \/ CreateGroup(r, u, n) \/ UpdateProfile(r, u, n)
             \/ UploadAvatar(r, u) \/ DeleteAvatar(r, u)
      PROVE  Alone' /\ Unexcused'
  <2>1. PICK pc, op, was, name, key :
          /\ Goto(r, Working(pc, op, u, was, name, key))
          /\ op \in Changes => was = rows[u]
    BY <1>1 DEF Register, CreateGroup, UpdateProfile, UploadAvatar, DeleteAvatar, Changes
  <2> DEFINE t == Working(pc, op, u, was, name, key)
  <2>2. UNCHANGED <<rows, excused>>
    BY <1>1 DEF Register, CreateGroup, UpdateProfile, UploadAvatar, DeleteAvatar
  <2>3. Current(t, rows')
    BY <2>1, <2>2 DEF Working, Current
  <2> HIDE DEF t
  <2>4. Alone'
    BY <1>0, <2>1, <2>3, AloneGoto DEF t
  <2>5. QED
    BY <2>2, <2>4 DEF Unexcused
<1>2. CASE Login(r, u)
  <2> DEFINE t == [pc |-> "issue", user |-> u, from |-> None]
  <2>1. Goto(r, t) /\ excused' = excused /\ Current(t, rows')
    BY <1>2 DEF Login, Current, WorkSteps
  <2> HIDE DEF t
  <2>2. QED
    BY <1>0, <2>1, AloneGoto DEF Unexcused
<1>3. ASSUME NEW on \in BOOLEAN, Report(r, u, on), Connected(u)' = on
      PROVE  Alone' /\ Unexcused'
  <2> DEFINE t == [pc |-> "set", user |-> u, on |-> on]
  <2>1. Goto(r, t) /\ Current(t, rows')
    BY <1>3 DEF Report, Current, WorkSteps
  <2>2. Reporting(u) = {}
    BY <1>0 DEF Reporting, Idle
  <2>3. Unexcused'
    BY <1>3, <2>2 DEF Report, Unexcused, TypeInv, TypeOK
  <2> HIDE DEF t
  <2>4. QED
    BY <1>0, <2>1, <2>3, AloneGoto
<1>3a. CASE Connect(r, u) \/ Disconnect(r, u)
  <2>1. seen[u] \in Presence /\ seen \in [Users -> Presence]
    BY DEF TypeInv, TypeOK
  <2>2. CASE Connect(r, u)
    <3>1. seen'[u].conns = seen[u].conns + 1 /\ Report(r, u, TRUE)
      BY <2>1, <2>2 DEF Connect, Presence
    <3>2. Connected(u)' = TRUE
      BY <2>1, <3>1, AccountsAssumption DEF Connected, Presence
    <3>3. QED
      BY <1>3, <3>1, <3>2
  <2>3. CASE Disconnect(r, u)
    <3>1. /\ seen'[u].conns = seen[u].conns - 1 /\ Report(r, u, FALSE)
          /\ seen[u].conns > 0
      BY <2>1, <2>3 DEF Disconnect, Connected, Presence
    <3>2. Connected(u)' = FALSE
      BY <2>1, <3>1 DEF Connected, Presence
    <3>3. QED
      BY <1>3, <3>1, <3>2
  <2>4. QED
    BY <1>3a, <2>2, <2>3
<1>4. ASSUME NEW s \in Tokens, Refresh(r, s) PROVE Alone' /\ Unexcused'
  <2> DEFINE t == [pc |-> "rotate", token |-> s]
  <2>1. Goto(r, t) /\ Current(t, rows')
    BY <1>4 DEF Refresh, Current, WorkSteps
  <2>2. Unexcused'
    BY <1>4, ExcuseField DEF Refresh, Unexcused, TypeInv
  <2> HIDE DEF t
  <2>3. QED
    BY <1>0, <2>1, <2>2, AloneGoto
<1>5. ASSUME UploadAvatar(r, u) \/ DeleteAvatar(r, u) PROVE Alone' /\ Unexcused'
  <2>1. rows[u].name \in Names
    BY <1>5, RowsTyped DEF UploadAvatar, DeleteAvatar, TypeInv
  <2>2. QED
    BY <1>1, <1>5, <2>1
<1>6. QED
  BY <1>1, <1>2, <1>3a, <1>4, <1>5

\* A request that takes a name or saves a row has nothing to excuse.
LEMMA AloneWrites ==
  ASSUME TypeInv, Alone, Unexcused, NEW r \in Requests,
         Insert(r) \/ InsertHandle(r) \/ Save(r)
  PROVE  Alone' /\ Unexcused'
<1>1. /\ TypeOK /\ task[r].pc \in WorkSteps /\ task[r] # Idle
      /\ Current(task[r], rows)
  BY DEF TypeInv, Insert, InsertHandle, Save, At, WorkSteps, Idle, Alone
<1>2. task[r] \in Work /\ task[r].name \in Names /\ Shared(task[r]) = {}
  BY <1>1, TaskFields DEF TypeOK, Work, Current, Shared
<1>3. CASE Insert(r)
  <2> DEFINE t == [pc |-> "issue", user |-> task[r].user, from |-> None]
  <2>1. Claim(r, task[r].name, t) /\ Excuse("names", {})
    BY <1>2, <1>3 DEF Insert
  <2>2. Current(t, rows')
    BY DEF Current, WorkSteps
  <2> HIDE DEF t
  <2>3. \A q \in Requests : IF q = r THEN task'[q] = t ELSE Like(task[q], task'[q])
    BY <1>1, <1>2, <2>1, ClaimLike
  <2>4. Unexcused'
    BY <1>1, <2>1, ExcuseField DEF Unexcused
  <2>5. QED
    BY <1>1, <2>2, <2>3, <2>4, AloneGoes
<1>4. CASE InsertHandle(r)
  <2>1. Claim(r, task[r].name, Idle) /\ Excuse("names", {})
    BY <1>2, <1>4 DEF InsertHandle
  <2>2. Current(Idle, rows')
    BY DEF Current, Idle, WorkSteps
  <2>3. \A q \in Requests : IF q = r THEN task'[q] = Idle ELSE Like(task[q], task'[q])
    BY <1>1, <1>2, <2>1, ClaimLike
  <2>4. Unexcused'
    BY <1>1, <2>1, ExcuseField DEF Unexcused
  <2>5. QED
    BY <1>1, <2>2, <2>3, <2>4, AloneGoes
<1>5. CASE Save(r)
  <2> DEFINE t == DropOr(OldKey(task[r]))
  <2>1. \A q \in Requests : IF q = r THEN task'[q] = t ELSE Like(task[q], task'[q])
    BY <1>5, SaveEffect
  <2>2. t.pc \in {"idle", "drop"}
    BY <1>5, SaveEffect, DropTyped
  <2> HIDE DEF t
  <2>3. task[r].was = rows[task[r].user]
    BY <1>1, <1>5, SaveFields DEF Save, Current
  <2>4. Crossed(task[r]) = {}
    BY <2>3 DEF Crossed
  <2>5. Unexcused'
    BY <1>2, <1>5, <2>3, <2>4, SaveExcuses DEF Unexcused
  <2>6. Current(t, rows')
    BY <2>2 DEF Current, WorkSteps
  <2>7. QED
    BY <1>1, <2>1, <2>5, <2>6, AloneGoes
<1>6. QED
  BY <1>3, <1>4, <1>5

\* Every other step of a request goes on with what it has, or ends it.
LEMMA AloneGoesOn ==
  ASSUME ~Faults, TypeInv, Alone, Unexcused, NEW r \in Requests,
         \/ Check(r) \/ CheckFails(r) \/ Fails(r)
         \/ \E k \in Keys : PutObject(r, k) \/ PutFails(r, k)
         \/ SaveFails(r) \/ DeleteObject(r) \/ DeleteObjectFails(r)
         \/ Rotate(r) \/ \E t \in Tokens : Issue(r, t)
         \/ ReportSet(r) \/ ReportKey(r) \/ ReportRow(r) \/ ReportFails(r)
  PROVE  Alone' /\ Unexcused'
<1>1. TypeOK /\ Current(task[r], rows)
  BY DEF TypeInv, Alone
<1>2. task[r] # Idle
  <2>1. task[r].pc # "idle"
    <3>1. CASE Check(r) \/ CheckFails(r) \/ Fails(r)
      BY <3>1 DEF Check, CheckFails, Checking, Fails, At
    <3>2. CASE \/ \E k \in Keys : PutObject(r, k) \/ PutFails(r, k)
               \/ SaveFails(r) \/ DeleteObject(r) \/ DeleteObjectFails(r)
      BY <3>2 DEF PutObject, PutFails, SaveFails, DeleteObject, DeleteObjectFails, At
    <3>3. CASE \/ Rotate(r) \/ \E t \in Tokens : Issue(r, t)
               \/ ReportSet(r) \/ ReportKey(r) \/ ReportRow(r) \/ ReportFails(r)
      BY <3>3 DEF Rotate, Issue, ReportSet, ReportKey, ReportRow, ReportFails, At
    <3>4. QED
      BY <3>1, <3>2, <3>3
  <2>2. QED
    BY <2>1 DEF Idle
<1>3. excused' = excused
  BY DEF Check, CheckFails, Fails, PutObject, PutFails, SaveFails, DeleteObject,
         DeleteObjectFails, Rotate, Issue, ReportSet, ReportKey, ReportRow, ReportFails
<1>4. ASSUME NEW t, Goto(r, t), Current(t, rows') PROVE Alone' /\ Unexcused'
  BY <1>2, <1>3, <1>4, AloneGoto DEF Unexcused
<1>5. ASSUME NEW t, Goto(r, t), t.pc \notin WorkSteps PROVE Alone' /\ Unexcused'
  BY <1>4, <1>5 DEF Current
<1>6. Idle.pc \notin WorkSteps
  BY DEF Idle, WorkSteps
<1>7. CASE Check(r)
  <2>1. CASE Goto(r, Idle)
    BY <1>5, <1>6, <2>1
  <2>2. CASE ~Goto(r, Idle)
    <3> DEFINE t == [task[r] EXCEPT !.pc = AfterCheck(task[r])]
    <3>1. Checking(r) /\ Goto(r, t) /\ rows' = rows
      BY <1>7, <2>2 DEF Check, To
    <3>2. /\ task[r].pc \in WorkSteps
          /\ t.op = task[r].op /\ t.user = task[r].user /\ t.was = task[r].was
          /\ t.since = task[r].since
      BY <3>1, CheckedTask DEF Checking, WorkSteps
    <3>3. t.unsure = task[r].unsure
      BY <3>1, CheckedTask DEF Work
    <3> HIDE DEF t
    <3>4. Current(t, rows')
      BY <1>1, <3>1, <3>2, <3>3 DEF Current
    <3>5. QED
      BY <1>4, <3>1, <3>4
  <2>3. QED
    BY <2>1, <2>2
<1>8. ASSUME NEW k \in Keys, PutObject(r, k) PROVE Alone' /\ Unexcused'
  <2> DEFINE t == [task[r] EXCEPT !.pc = "save", !.key = k]
  <2>1. task[r] \in Work /\ task[r].pc \in WorkSteps
    BY <1>1, <1>8, TaskFields DEF PutObject, At, TypeOK, WorkSteps
  <2>2. /\ t.op = task[r].op /\ t.user = task[r].user /\ t.was = task[r].was
        /\ t.since = task[r].since /\ t.unsure = task[r].unsure
    BY <2>1 DEF Work
  <2>3. Goto(r, t) /\ rows' = rows
    BY <1>8 DEF PutObject
  <2> HIDE DEF t
  <2>4. Current(t, rows')
    BY <1>1, <2>1, <2>2, <2>3 DEF Current
  <2>5. QED
    BY <1>4, <2>3, <2>4
<1>9. CASE \/ Fails(r) \/ (\E k \in Keys : PutFails(r, k))
           \/ DeleteObject(r) \/ DeleteObjectFails(r)
           \/ (\E t \in Tokens : Issue(r, t)) \/ ReportRow(r)
  BY <1>5, <1>6, <1>9 DEF Fails, PutFails, DeleteObject, DeleteObjectFails, Issue, ReportRow
<1>10. CASE SaveFails(r)
  <2> DEFINE t == DropOr(IF task[r].op = "upload" THEN task[r].key ELSE None)
  <2>1. Goto(r, t) /\ t.pc \notin WorkSteps
    BY <1>6, <1>10 DEF SaveFails, DropOr, WorkSteps
  <2> HIDE DEF t
  <2>2. QED
    BY <1>5, <2>1
<1>11. CASE Rotate(r)
  <2> DEFINE t == [pc |-> "issue", user |-> tokens[task[r].token].user,
                   from |-> task[r].token]
  <2>1. Goto(r, t) /\ t.pc \notin WorkSteps
    BY <1>11 DEF Rotate, WorkSteps
  <2> HIDE DEF t
  <2>2. QED
    BY <1>5, <2>1
<1>12. CASE ReportSet(r) \/ ReportKey(r)
  <2>1. task[r].pc \in {"set", "key"}
    BY <1>12 DEF ReportSet, ReportKey, At
  <2>2. PICK pc \in {"key", "db"} : Goto(r, [task[r] EXCEPT !.pc = pc])
    BY <1>12 DEF ReportSet, ReportKey, To
  <2> DEFINE t == [task[r] EXCEPT !.pc = pc]
  <2>3. t.pc \notin WorkSteps
    BY <2>1, ReportFields DEF WorkSteps
  <2> HIDE DEF t
  <2>4. QED
    BY <1>5, <2>2, <2>3 DEF t
<1>13. ~CheckFails(r) /\ ~ReportFails(r)
  BY DEF CheckFails, ReportFails
<1>14. QED
  BY <1>7, <1>8, <1>9, <1>10, <1>11, <1>12, <1>13

\* Names, avatars and presence need no excuse when requests come one by one,
\* nobody has two connections and nothing fails: what NamesDistinct, AvatarsAgree
\* and PresenceSettled excuse is due to requests that overlap, to a connection
\* closed while another stays open (websocket_handler.go:68-81 does not look for
\* one), and to failures, only.
THEOREM NothingToExcuse ==
  ASSUME ~Faults, MaxConns = 1, \A w \in Workloads : w.atOnce = 1
  PROVE  Spec => [](NamesDistinct /\ AvatarsAgree /\ PresenceSettled /\ Unexcused)
<1>1. Init => Alone /\ Unexcused
  BY IdleCurrent DEF Init, Alone, Unexcused
<1>2. TypeInv /\ Alone /\ Unexcused /\ [Next]_vars => Alone' /\ Unexcused'
  <2> SUFFICES ASSUME TypeInv, Alone, Unexcused, [Next]_vars PROVE Alone' /\ Unexcused'
    OBVIOUS
  <2>1. ASSUME NEW r \in Requests, WorkStep(r) \/ PresenceStep(r)
        PROVE  Alone' /\ Unexcused'
    BY <2>1, AloneBegins, AloneWrites, AloneGoesOn DEF WorkStep, PresenceStep
  <2>2. CASE SessionStep
    <3>1. ASSUME NEW r \in Requests, NEW t \in Tokens, Refresh(r, t)
          PROVE  Alone' /\ Unexcused'
      <4>1. PICK u \in Users : TRUE
        BY <3>1 DEF Refresh, Valid, TypeInv, TypeOK, RefreshTokens
      <4>2. QED
        BY <3>1, AloneBegins
    <3>2. ASSUME NEW t \in Tokens, Logout(t) \/ ExpireToken(t)
          PROVE  Alone' /\ Unexcused'
      <4>1. Unexcused'
        BY <3>2, ExcuseField DEF Logout, ExpireToken, Unexcused, TypeInv
      <4>2. task' = task /\ rows' = rows
        BY <3>2 DEF Logout, ExpireToken
      <4>3. QED
        BY <4>1, <4>2 DEF Alone, Current
    <3>3. QED
      BY <2>2, <3>1, <3>2, AloneGoesOn DEF SessionStep
  <2>3. CASE (\E u \in Users : KeyExpires(u)) \/ UNCHANGED vars
    BY <2>3 DEF KeyExpires, vars, Alone, Current, Unexcused
  <2>4. ~Crash
    BY DEF Crash
  <2>5. QED
    BY <2>1, <2>2, <2>3, <2>4, StepKinds
<1>3. QED
  BY <1>1, <1>2, TypedAlways, NamesAreDistinct, AvatarsAgreeAlways, PresenceAgrees, PTL
     DEF Spec

=============================================================================
