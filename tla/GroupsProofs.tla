---------------------------- MODULE GroupsProofs ----------------------------
(***************************************************************************)
(* Proofs about Groups, for every number of users, groups, links, requests *)
(* and messages, with or without failing statements.                       *)
(***************************************************************************)
EXTENDS Groups, FiniteSetTheorems, TLAPS

LEMMA TaskFields ==
  ASSUME NEW t \in Tasks
  PROVE  /\ t.pc \in {"idle", "invited", "add", "ensure", "count", "forget",
                     "link", "check", "upsert"}
         /\ t.pc = "idle" => t = Idle
         /\ t.pc = "invited" => t.user \in Users
         /\ t.pc \in {"invited", "count"} => t.link \in Links
         /\ t.pc \in {"add", "ensure"} => t.link \in Links \cup {NoLink}
         /\ t.pc \in {"add", "ensure", "forget", "check", "upsert"} => t.seat \in Seats
         /\ t.pc = "add" => t.as \in {"member", "admin"}
         /\ t.pc = "link" => t.group \in Groups
         /\ t.pc \in {"check", "upsert"} => t.at \in Position
  BY DEF Tasks, Idle

LEMMA TaskMaking ==
  /\ Idle \in Tasks
  /\ \A u \in Users, l \in Links : [pc |-> "invited", user |-> u, link |-> l] \in Tasks
  /\ \A l \in Links : [pc |-> "count", link |-> l] \in Tasks
  /\ \A g \in Groups : [pc |-> "link", group |-> g] \in Tasks
  /\ \A s \in Seats :
       /\ [pc |-> "forget", seat |-> s] \in Tasks
       /\ \A l \in Links \cup {NoLink} :
            /\ [pc |-> "ensure", seat |-> s, link |-> l] \in Tasks
            /\ \A a \in {"member", "admin"} :
                 [pc |-> "add", seat |-> s, as |-> a, link |-> l] \in Tasks
       /\ \A i \in Position :
            /\ [pc |-> "check", seat |-> s, at |-> i] \in Tasks
            /\ [pc |-> "upsert", seat |-> s, at |-> i] \in Tasks
  BY DEF Tasks, Idle

-----------------------------------------------------------------------------
(***************************************************************************)
(* Type correctness.                                                       *)
(***************************************************************************)

LEMMA InitTyped == Init => TypeOK
  BY TaskMaking, GroupsAssumption
     DEF Init, TypeOK, Roles, NoRow

LEMMA StepTyped ==
  ASSUME TypeOK, NEW r \in Requests, Step(r)
  PROVE  TypeOK'
<1> USE TaskMaking, GroupsAssumption DEF TypeOK, tables, history, Goto
<1>0. /\ task[r] \in Tasks
      /\ task[r].pc = "invited" => task[r].user \in Users
      /\ task[r].pc \in {"invited", "count"} => task[r].link \in Links
      /\ task[r].pc \in {"add", "ensure"} => task[r].link \in Links \cup {NoLink}
      /\ task[r].pc \in {"add", "ensure", "forget", "check", "upsert"}
           => task[r].seat \in Seats
      /\ task[r].pc = "add" => task[r].as \in {"member", "admin"}
      /\ task[r].pc \in {"check", "upsert"} => task[r].at \in Position
  BY TaskFields
<1>1. ASSUME NEW s \in Seats,
             \/ CreateGroup(r, s) \/ JoinGroup(r, s) \/ LeaveGroup(r, s)
             \/ CreateInviteLink(r, s)
             \/ \E id \in Position : MarkRead(r, s, id)
      PROVE  TypeOK'
  <2>1. s[1] \in Groups /\ "none" \in Roles
    BY DEF Seats, Roles
  <2>2. CASE CreateGroup(r, s)
    BY <2>1, <2>2 DEF CreateGroup
  <2>3. CASE JoinGroup(r, s)
    BY <2>3 DEF JoinGroup
  <2>4. CASE LeaveGroup(r, s)
    BY <2>1, <2>4 DEF LeaveGroup, Left
  <2>5. CASE CreateInviteLink(r, s)
    BY <2>1, <2>5 DEF CreateInviteLink
  <2>6. ASSUME NEW id \in Position, MarkRead(r, s, id) PROVE TypeOK'
    <3>1. [pc |-> "check", seat |-> s, at |-> id] \in Tasks
      OBVIOUS
    <3>2. QED
      BY <2>6, <3>1 DEF MarkRead
  <2>7. QED
    BY <1>1, <2>2, <2>3, <2>4, <2>5, <2>6
<1>2. ASSUME NEW u \in Users, NEW l \in Links, JoinGroupByInvite(r, u, l)
      PROVE  TypeOK'
  BY <1>2 DEF JoinGroupByInvite
<1>3. ASSUME NEW l \in Links, InsertLink(r, l) PROVE TypeOK'
  BY <1>3 DEF InsertLink
<1>4. CASE InsertLinkFails(r) \/ AddMemberFails(r) \/ MarkFails(r)
  <2>1. task[r].pc = "add" => task[r].seat[1] \in Groups
    BY <1>0 DEF Seats
  <2>2. QED
    BY <1>4, <2>1 DEF InsertLinkFails, AddMemberFails, MarkFails
<1>5. CASE CheckInvited(r)
  <2> DEFINE s == <<GroupOf[task[r].link], task[r].user>>
  <2>1. s \in Seats /\ task[r].link \in Links
    BY <1>0, <1>5 DEF CheckInvited, Seats
  <2>2. [pc |-> "add", seat |-> s, as |-> "member", link |-> task[r].link] \in Tasks
    BY <2>1
  <2>3. QED
    BY <1>5, <2>2 DEF CheckInvited
<1>6. CASE AddMember(r)
  <2>1. [pc |-> "ensure", seat |-> task[r].seat, link |-> task[r].link] \in Tasks
    BY <1>0, <1>6 DEF AddMember
  <2>2. task[r].as \in Roles
    BY <1>0, <1>6 DEF AddMember, Roles
  <2>3. QED
    BY <1>0, <1>6, <2>1, <2>2 DEF AddMember
<1>7. ASSUME task[r].pc = "ensure" PROVE Ensured(r) \in Tasks
  BY <1>0, <1>7 DEF Ensured
<1>8. CASE EnsureReadState(r)
  <2>1. task[r].seat \in Seats /\ Ensured(r) \in Tasks
    BY <1>0, <1>7, <1>8 DEF EnsureReadState
  <2>2. 0 \in Position
    BY DEF Position
  <2>3. readState' \in [Seats -> Position \cup {NoRow}]
    BY <1>8, <2>1, <2>2 DEF EnsureReadState
  <2>4. QED
    BY <1>8, <2>1, <2>3 DEF EnsureReadState
<1>9. CASE EnsureFails(r)
  <2>1. Ensured(r) \in Tasks
    BY <1>7, <1>9 DEF EnsureFails
  <2>2. QED
    BY <1>9, <2>1 DEF EnsureFails
<1>10. CASE IncrementUse(r) \/ IncrementUseFails(r)
  <2>1. task[r].link \in Links
    BY <1>0, <1>10 DEF IncrementUse, IncrementUseFails
  <2>2. CASE IncrementUse(r)
    BY <2>1, <2>2 DEF IncrementUse
  <2>3. CASE IncrementUseFails(r)
    BY <2>1, <2>3 DEF IncrementUseFails
  <2>4. QED
    BY <1>10, <2>2, <2>3
<1>11. CASE ForgetReadState(r) \/ ForgetFails(r)
  <2>1. task[r].seat \in Seats
    BY <1>0, <1>11 DEF ForgetReadState, ForgetFails
  <2>2. CASE ForgetReadState(r)
    BY <2>1, <2>2 DEF ForgetReadState
  <2>3. CASE ForgetFails(r)
    BY <2>1, <2>3 DEF ForgetFails
  <2>4. QED
    BY <1>11, <2>2, <2>3
<1>12. CASE CheckMark(r)
  <2>1. [pc |-> "upsert", seat |-> task[r].seat, at |-> task[r].at] \in Tasks
    BY <1>0, <1>12 DEF CheckMark
  <2>2. QED
    BY <1>12, <2>1 DEF CheckMark
<1>13. CASE UpsertMonotonic(r)
  <2>1. task[r].seat \in Seats /\ task[r].at \in Position
    BY <1>0, <1>13 DEF UpsertMonotonic
  <2>2. readState' \in [Seats -> Position \cup {NoRow}]
    BY <1>13, <2>1 DEF UpsertMonotonic, Raised
  <2>3. QED
    BY <1>13, <2>1, <2>2 DEF UpsertMonotonic
<1>14. QED
  BY <1>1, <1>2, <1>3, <1>4, <1>5, <1>6, <1>8, <1>9, <1>10, <1>11, <1>12, <1>13
     DEF Step

\* The requests counting for a link are finitely many.
LEMMA CountingFinite ==
  \A l : /\ IsFiniteSet(Counting(l))
         /\ Cardinality(Counting(l)) \in Nat
<1> SUFFICES ASSUME NEW l PROVE /\ IsFiniteSet(Counting(l))
                                /\ Cardinality(Counting(l)) \in Nat
  OBVIOUS
<1>1. Counting(l) \subseteq Requests
  BY DEF Counting
<1>2. IsFiniteSet(Counting(l))
  BY <1>1, FS_Subset, GroupsAssumption
<1>3. QED
  BY <1>2, FS_CardinalityType

LEMMA NextTyped == TypeOK /\ [Next]_vars => TypeOK'
<1> SUFFICES ASSUME TypeOK, [Next]_vars PROVE TypeOK'
  OBVIOUS
<1>1. ASSUME NEW r \in Requests, Step(r) PROVE TypeOK'
  BY <1>1, StepTyped
<1>2. ASSUME NEW g \in Groups \cup {Direct}, Post(g) PROVE TypeOK'
  BY <1>2 DEF Post, TypeOK, history
<1>3. CASE Crash
  <2>1. uncounted' \in [Links -> Nat]
    BY <1>3, CountingFinite DEF Crash, TypeOK
  <2>2. QED
    BY <1>3, <2>1, TaskMaking DEF Crash, TypeOK, tables
<1>4. CASE UNCHANGED vars
  BY <1>4 DEF vars, tables, history, TypeOK
<1>5. QED
  BY <1>1, <1>2, <1>3, <1>4 DEF Next

\* Type correctness, for every instance.
THEOREM GroupsTypeCorrect == Spec => []TypeOK
  BY InitTyped, NextTyped, PTL DEF Spec

-----------------------------------------------------------------------------
(***************************************************************************)
(* Read states.                                                            *)
(***************************************************************************)

\* A mark that has been checked names a message of the group, or none.
MarkInv ==
  \A r \in Requests : task[r].pc = "upsert" =>
    task[r].at \in {0} \cup IdsOf(task[r].seat[1])

ReadInv == ReadGrounded /\ MarkInv /\ OrphansNamed

LEMMA GotoOne ==
  ASSUME TypeOK, NEW r \in Requests, NEW t, Goto(r, t)
  PROVE  \A q \in Requests : task'[q] = IF q = r THEN t ELSE task[q]
  BY DEF TypeOK, Goto

\* Requests that only come and go, as far as read states are concerned.
ReadsQuiet(r) ==
  \E t : /\ Goto(r, t)
         /\ t.pc \notin {"upsert", "forget"} /\ task[r].pc # "forget"
         /\ UNCHANGED <<role, readState, posts, orphans>>

LEMMA ReadsQuietSafe ==
  ASSUME TypeOK, ReadInv, NEW r \in Requests, ReadsQuiet(r)
  PROVE  ReadInv'
<1>1. PICK t : /\ Goto(r, t)
               /\ t.pc \notin {"upsert", "forget"} /\ task[r].pc # "forget"
               /\ UNCHANGED <<role, readState, posts, orphans>>
  BY DEF ReadsQuiet
<1>2. \A q \in Requests : task'[q] = IF q = r THEN t ELSE task[q]
  BY <1>1, GotoOne
<1>3. \A s : Forgetting(s)' = Forgetting(s)
  BY <1>1, <1>2 DEF Forgetting
<1>4. \A g : IdsOf(g)' = IdsOf(g)
  BY <1>1 DEF IdsOf
<1>5. ReadGrounded' /\ MarkInv'
  BY <1>1, <1>2, <1>4 DEF ReadInv, ReadGrounded, MarkInv
<1>6. OrphansNamed'
  BY <1>1, <1>3 DEF ReadInv, OrphansNamed, IsMember
<1>7. QED
  BY <1>5, <1>6 DEF ReadInv

LEMMA ReadsQuietSteps ==
  ASSUME NEW r \in Requests,
         \/ \E s \in Seats : \/ CreateGroup(r, s) \/ JoinGroup(r, s)
                             \/ CreateInviteLink(r, s)
                             \/ \E id \in Position : MarkRead(r, s, id)
         \/ \E u \in Users, l \in Links : JoinGroupByInvite(r, u, l)
         \/ \E l \in Links : InsertLink(r, l)
         \/ InsertLinkFails(r) \/ CheckInvited(r) \/ AddMemberFails(r) \/ EnsureFails(r)
         \/ IncrementUse(r) \/ IncrementUseFails(r) \/ MarkFails(r)
  PROVE  ReadsQuiet(r)
<1> USE DEF ReadsQuiet, tables, history, Idle
<1>1. ASSUME NEW s \in Seats, \/ CreateGroup(r, s) \/ JoinGroup(r, s)
                              \/ CreateInviteLink(r, s)
      PROVE  ReadsQuiet(r)
  BY <1>1 DEF CreateGroup, JoinGroup, CreateInviteLink
<1>2. ASSUME NEW s \in Seats, NEW id \in Position, MarkRead(r, s, id)
      PROVE  ReadsQuiet(r)
  BY <1>2 DEF MarkRead
<1>3. ASSUME NEW u \in Users, NEW l \in Links, JoinGroupByInvite(r, u, l) \/ InsertLink(r, l)
      PROVE  ReadsQuiet(r)
  BY <1>3 DEF JoinGroupByInvite, InsertLink
<1>4. CASE InsertLinkFails(r) \/ AddMemberFails(r) \/ MarkFails(r)
  BY <1>4 DEF InsertLinkFails, AddMemberFails, MarkFails
<1>5. CASE CheckInvited(r)
  BY <1>5 DEF CheckInvited
<1>6. CASE EnsureFails(r)
  <2>1. Ensured(r).pc \in {"idle", "count"}
    BY DEF Ensured
  <2>2. QED
    BY <1>6, <2>1 DEF EnsureFails
<1>7. CASE IncrementUse(r) \/ IncrementUseFails(r)
  BY <1>7 DEF IncrementUse, IncrementUseFails
<1>8. ASSUME NEW l \in Links, InsertLink(r, l) PROVE ReadsQuiet(r)
  BY <1>8 DEF InsertLink
<1>9. ASSUME NEW u \in Users, NEW l \in Links, JoinGroupByInvite(r, u, l)
      PROVE  ReadsQuiet(r)
  BY <1>9 DEF JoinGroupByInvite
<1>10. QED
  BY <1>1, <1>2, <1>4, <1>5, <1>6, <1>7, <1>8, <1>9

LEMMA ReadsStepSafe ==
  ASSUME TypeOK, TypeOK', ReadInv, NEW r \in Requests, Step(r)
  PROVE  ReadInv'
<1> USE DEF ReadInv, ReadGrounded, MarkInv, OrphansNamed, IsMember
<1> DEFINE s == task[r].seat
<1>0. /\ task[r].pc \in {"add", "ensure", "forget", "check", "upsert"} => s \in Seats
      /\ task[r].pc = "add" => task[r].as \in {"member", "admin"}
      /\ task[r].pc \in {"check", "upsert"} => task[r].at \in Nat
      /\ \A x \in Seats : readState[x] \in Int
  BY TaskFields, GroupsAssumption DEF TypeOK, Position, NoRow
<1>1. CASE ReadsQuiet(r)
  BY <1>1, ReadsQuietSafe
<1>2. ASSUME NEW x \in Seats, LeaveGroup(r, x) PROVE ReadInv'
  <2> DEFINE t == [pc |-> "forget", seat |-> x]
  <2>1. \A q \in Requests : task'[q] = IF q = r THEN t ELSE task[q]
    BY <1>2, GotoOne DEF LeaveGroup
  <2>2. \A y : Forgetting(y) \subseteq Forgetting(y)' /\ r \in Forgetting(x)'
    BY <1>2, <2>1 DEF LeaveGroup, Forgetting, Idle
  <2>3. \A y \in Seats : y # x => role'[y] = role[y]
    BY <1>2 DEF LeaveGroup, TypeOK
  <2>4. \A g : IdsOf(g)' = IdsOf(g)
    BY <1>2 DEF LeaveGroup, IdsOf
  <2>5. QED
    BY <1>2, <2>1, <2>2, <2>3, <2>4 DEF LeaveGroup, history
<1>3. CASE AddMember(r)
  <2> DEFINE t == [pc |-> "ensure", seat |-> s, link |-> task[r].link]
  <2>1. \A q \in Requests : task'[q] = IF q = r THEN t ELSE task[q]
    BY <1>3, GotoOne DEF AddMember
  <2>2. \A y : Forgetting(y)' = Forgetting(y)
    BY <1>3, <2>1 DEF AddMember, Forgetting
  <2>3. /\ \A y \in Seats : y # s => role'[y] = role[y]
        /\ role'[s] # "none"
    BY <1>0, <1>3 DEF AddMember, TypeOK
  <2>4. \A g : IdsOf(g)' = IdsOf(g)
    BY <1>3 DEF AddMember, IdsOf
  <2>5. QED
    BY <1>3, <2>1, <2>2, <2>3, <2>4 DEF AddMember
<1>4. CASE EnsureReadState(r)
  <2> DEFINE t == Ensured(r)
  <2>1. /\ \A q \in Requests : task'[q] = IF q = r THEN t ELSE task[q]
        /\ t.pc \in {"idle", "count"}
    BY <1>4, GotoOne DEF EnsureReadState, Ensured, Idle
  <2>2. \A y : Forgetting(y)' = Forgetting(y)
    BY <1>4, <2>1 DEF EnsureReadState, Forgetting
  <2>3. /\ \A y \in Seats : y # s => readState'[y] = readState[y]
        /\ readState'[s] = IF readState[s] = NoRow THEN 0 ELSE readState[s]
        /\ s \in Seats
    BY <1>0, <1>4 DEF EnsureReadState, TypeOK
  <2>4. \A g : IdsOf(g)' = IdsOf(g)
    BY <1>4 DEF EnsureReadState, IdsOf
  <2>5. QED
    BY <1>4, <2>1, <2>2, <2>3, <2>4 DEF EnsureReadState
<1>5. CASE ForgetReadState(r)
  <2>1. \A q \in Requests : task'[q] = IF q = r THEN Idle ELSE task[q]
    BY <1>5, GotoOne DEF ForgetReadState
  <2>2. \A y : y # s => Forgetting(y)' = Forgetting(y)
    BY <1>5, <2>1 DEF ForgetReadState, Forgetting, Idle
  <2>3. /\ \A y \in Seats : y # s => readState'[y] = readState[y]
        /\ readState'[s] = NoRow
    BY <1>0, <1>5 DEF ForgetReadState, TypeOK
  <2>4. \A g : IdsOf(g)' = IdsOf(g)
    BY <1>5 DEF ForgetReadState, IdsOf
  <2>5. QED
    BY <1>5, <2>1, <2>2, <2>3, <2>4 DEF ForgetReadState, Idle
<1>6. CASE ForgetFails(r)
  <2>1. \A q \in Requests : task'[q] = IF q = r THEN Idle ELSE task[q]
    BY <1>6, GotoOne DEF ForgetFails
  <2>2. \A y : y # s => Forgetting(y)' = Forgetting(y)
    BY <1>6, <2>1 DEF ForgetFails, Forgetting, Idle
  <2>3. \A g : IdsOf(g)' = IdsOf(g)
    BY <1>6 DEF ForgetFails, IdsOf, tables
  <2>4. QED
    BY <1>6, <2>1, <2>2, <2>3 DEF ForgetFails, Idle, tables
<1>7. CASE CheckMark(r)
  <2> DEFINE t == [pc |-> "upsert", seat |-> s, at |-> task[r].at]
  <2>1. \/ \A q \in Requests : task'[q] = IF q = r THEN Idle ELSE task[q]
        \/ /\ \A q \in Requests : task'[q] = IF q = r THEN t ELSE task[q]
           /\ task[r].at \in {0} \cup IdsOf(s[1])
    BY <1>7, GotoOne DEF CheckMark, Belongs
  <2>2. \A y : Forgetting(y)' = Forgetting(y)
    BY <1>7, <2>1 DEF CheckMark, Forgetting, Idle
  <2>3. \A g : IdsOf(g)' = IdsOf(g)
    BY <1>7 DEF CheckMark, IdsOf, tables
  <2>4. QED
    BY <1>7, <2>1, <2>2, <2>3 DEF CheckMark, Idle, tables, history
<1>8. CASE UpsertMonotonic(r)
  <2>1. \A q \in Requests : task'[q] = IF q = r THEN Idle ELSE task[q]
    BY <1>8, GotoOne DEF UpsertMonotonic
  <2>2. \A y : Forgetting(y)' = Forgetting(y)
    BY <1>8, <2>1 DEF UpsertMonotonic, Forgetting, Idle
  <2>3. /\ \A y \in Seats : y # s => readState'[y] = readState[y]
        /\ readState'[s] \in {readState[s], task[r].at}
        /\ s \in Seats
        /\ readState[s] = NoRow => readState'[s] = task[r].at
    BY <1>0, <1>8 DEF UpsertMonotonic, TypeOK, Raised, NoRow
  <2>4. \A g : IdsOf(g)' = IdsOf(g)
    BY <1>8 DEF UpsertMonotonic, IdsOf
  <2>5. QED
    BY <1>8, <2>1, <2>2, <2>3, <2>4 DEF UpsertMonotonic, Idle
<1>9. QED
  BY <1>1, <1>2, <1>3, <1>4, <1>5, <1>6, <1>7, <1>8, ReadsQuietSteps DEF Step

LEMMA ReadsNextSafe == TypeOK /\ TypeOK' /\ ReadInv /\ [Next]_vars => ReadInv'
<1> SUFFICES ASSUME TypeOK, TypeOK', ReadInv, [Next]_vars PROVE ReadInv'
  OBVIOUS
<1> USE DEF ReadInv, ReadGrounded, MarkInv, OrphansNamed, IsMember
<1>1. ASSUME NEW r \in Requests, Step(r) PROVE ReadInv'
  BY <1>1, ReadsStepSafe
<1>2. ASSUME NEW g \in Groups \cup {Direct}, Post(g) PROVE ReadInv'
  <2>1. \A h : IdsOf(h) \subseteq IdsOf(h)'
    <3> SUFFICES ASSUME NEW h, NEW id \in IdsOf(h) PROVE id \in IdsOf(h)'
      OBVIOUS
    <3>1. posts \in Seq(Groups \cup {Direct}) /\ posts' = Append(posts, g)
      BY <1>2 DEF Post, TypeOK
    <3>2. id \in 1 .. Len(posts) /\ posts[id] = h
      BY <3>1 DEF IdsOf
    <3>3. Len(posts') = Len(posts) + 1 /\ posts'[id] = posts[id]
      BY <3>1, <3>2
    <3>4. posts' \in Seq(Groups \cup {Direct}) /\ Len(posts) \in Nat
      BY <3>1 DEF TypeOK
    <3>5. DOMAIN posts' = 1 .. Len(posts')
      BY <3>4
    <3>6. QED
      BY <3>2, <3>3, <3>4, <3>5 DEF IdsOf
  <2>2. \A y : Forgetting(y)' = Forgetting(y)
    BY <1>2 DEF Post, Forgetting
  <2>3. UNCHANGED <<role, readState, task, orphans>>
    BY <1>2 DEF Post, history
  <2>4. ReadGrounded'
    BY <2>1, <2>3
  <2>5. MarkInv'
    BY <2>1, <2>3
  <2>6. OrphansNamed'
    BY <2>2, <2>3
  <2>7. QED
    BY <2>4, <2>5, <2>6
<1>3. CASE Crash
  <2>1. \A q \in Requests : task'[q] = Idle
    BY <1>3 DEF Crash
  <2>2. \A h : IdsOf(h)' = IdsOf(h)
    BY <1>3 DEF Crash, tables, IdsOf
  <2>3. QED
    BY <1>3, <2>1, <2>2 DEF Crash, tables, Idle
<1>4. CASE UNCHANGED vars
  <2>1. \A y : IdsOf(y)' = IdsOf(y) /\ Forgetting(y)' = Forgetting(y)
    BY <1>4 DEF vars, tables, IdsOf, Forgetting
  <2>2. QED
    BY <1>4, <2>1 DEF vars, tables, history
<1>5. QED
  BY <1>1, <1>2, <1>3, <1>4 DEF Next

LEMMA ReadsInvariant == Spec => []ReadInv
<1>1. Init => ReadInv
  BY DEF Init, ReadInv, ReadGrounded, MarkInv, OrphansNamed, Idle
<1>2. QED
  BY <1>1, ReadsNextSafe, InitTyped, NextTyped, PTL DEF Spec

\* A read position is always that of a message of its group.
THEOREM ReadsGrounded == Spec => []ReadGrounded
<1>1. ReadInv => ReadGrounded
  BY DEF ReadInv
<1>2. QED
  BY <1>1, ReadsInvariant, PTL

\* A row of somebody who is no member has one of the named origins.
THEOREM OrphansAreNamed == Spec => []OrphansNamed
<1>1. ReadInv => OrphansNamed
  BY DEF ReadInv
<1>2. QED
  BY <1>1, ReadsInvariant, PTL

\* The step condition of OnlyLeavingForgets.
TakenBack == \A s \in Seats : Shown(s)' < Shown(s) => Forgetting(s)' # Forgetting(s)

LEMMA StepTakesBack ==
  ASSUME TypeOK, NEW r \in Requests, Step(r)
  PROVE  TakenBack
<1> USE DEF TakenBack, Shown
<1>0. /\ task[r].pc \in {"ensure", "forget", "upsert"} => task[r].seat \in Seats
      /\ task[r].pc = "upsert" => task[r].at \in Nat
      /\ \A s \in Seats : readState[s] \in Nat \cup {NoRow}
      /\ \A s \in Seats : Shown(s) \in Nat
  BY TaskFields, GroupsAssumption DEF TypeOK, Position, NoRow
<1>1. CASE UNCHANGED readState
  BY <1>0, <1>1
<1>2. CASE EnsureReadState(r)
  <2>1. \A s \in Seats :
          readState'[s] = readState[s] \/ (readState[s] = NoRow /\ readState'[s] = 0)
    BY <1>0, <1>2 DEF EnsureReadState, TypeOK
  <2>2. \A s \in Seats : Shown(s)' = Shown(s)
    BY <2>1
  <2>3. QED
    BY <1>0, <2>2
<1>3. CASE UpsertMonotonic(r)
  <2>1. \A s \in Seats :
          readState'[s] = readState[s] \/ readState'[s] = Raised(readState[s], task[r].at)
    BY <1>0, <1>3 DEF UpsertMonotonic, TypeOK
  <2>2. task[r].at \in Nat
    BY <1>0, <1>3 DEF UpsertMonotonic
  <2>3. \A s \in Seats : Shown(s)' >= Shown(s)
    BY <1>0, <2>1, <2>2 DEF Raised, NoRow
  <2>4. \A s \in Seats : Shown(s)' \in Nat
    BY <1>0, <2>1, <2>2 DEF Raised, NoRow
  <2>5. QED
    BY <1>0, <2>3, <2>4
<1>4. CASE ForgetReadState(r)
  <2>1. \A s \in Seats : s # task[r].seat => readState'[s] = readState[s]
    BY <1>0, <1>4 DEF ForgetReadState, TypeOK
  <2>2. \A s \in Seats : s # task[r].seat => Shown(s)' = Shown(s)
    BY <2>1
  <2>3. \A s \in Seats : s = task[r].seat => Forgetting(s)' # Forgetting(s)
    BY <1>4, GotoOne DEF ForgetReadState, Forgetting, Idle
  <2>4. QED
    BY <1>0, <2>2, <2>3
<1>5. QED
  BY <1>1, <1>2, <1>3, <1>4
     DEF Step, CreateGroup, JoinGroup, LeaveGroup, CreateInviteLink, MarkRead,
         JoinGroupByInvite, InsertLink, InsertLinkFails, CheckInvited, AddMember,
         AddMemberFails, EnsureFails, IncrementUse, IncrementUseFails, ForgetFails,
         CheckMark, MarkFails, tables

LEMMA NextTakesBack == TypeOK /\ [Next]_vars => [TakenBack]_vars
<1> SUFFICES ASSUME TypeOK, [Next]_vars PROVE TakenBack \/ UNCHANGED vars
  OBVIOUS
<1>1. CASE UNCHANGED readState
  <2>1. \A s \in Seats : Shown(s) \in Int /\ Shown(s)' = Shown(s)
    BY <1>1, GroupsAssumption DEF Shown, TypeOK, Position, NoRow
  <2>2. QED
    BY <2>1 DEF TakenBack
<1>2. ASSUME NEW r \in Requests, Step(r) PROVE TakenBack
  BY <1>2, StepTakesBack
<1>3. QED
  BY <1>1, <1>2 DEF Next, Post, Crash, tables

\* Only a request that leaves the group takes a read position back.
THEOREM OnlyLeavingTakesBack == Spec => OnlyLeavingForgets
  BY NextTakesBack, GroupsTypeCorrect, PTL DEF Spec, OnlyLeavingForgets, TakenBack

-----------------------------------------------------------------------------
(***************************************************************************)
(* Invite links.                                                           *)
(***************************************************************************)

LinkInv == InviteAccounted /\ OverlapOnly

\* A request doing t is one of Counting(l), one of Passed(l).
Counts(t, l) == t.pc \in {"ensure", "count"} /\ t.link = l
Passes(t, l) == t.pc \in {"invited", "add", "ensure", "count"} /\ t.link = l

One(b) == IF b THEN 1 ELSE 0

\* Both sets have a size, and Passed is no larger than the requests.
LEMMA Sizes ==
  ASSUME NEW l
  PROVE  /\ IsFiniteSet(Counting(l)) /\ Cardinality(Counting(l)) \in Nat
         /\ IsFiniteSet(Passed(l)) /\ Cardinality(Passed(l)) \in Nat
         /\ Cardinality(Requests) \in Nat
         /\ Cardinality(Passed(l)) <= Cardinality(Requests)
<1>1. Passed(l) \subseteq Requests
  BY DEF Passed
<1>2. IsFiniteSet(Passed(l)) /\ Cardinality(Passed(l)) <= Cardinality(Requests)
  BY <1>1, FS_Subset, GroupsAssumption
<1>3. QED
  BY <1>2, CountingFinite, FS_CardinalityType, GroupsAssumption

\* How they change when one request goes on to t.
LEMMA SetsMove ==
  ASSUME TypeOK, NEW r \in Requests, NEW t, Goto(r, t), NEW l
  PROVE  /\ Cardinality(Counting(l)') \in Nat /\ Cardinality(Passed(l)') \in Nat
         /\ Cardinality(Counting(l)') + One(Counts(task[r], l))
              = Cardinality(Counting(l)) + One(Counts(t, l))
         /\ Cardinality(Passed(l)') + One(Passes(task[r], l))
              = Cardinality(Passed(l)) + One(Passes(t, l))
<1>1. \A q \in Requests : task'[q] = IF q = r THEN t ELSE task[q]
  BY GotoOne
<1>2. Counting(l)' = IF Counts(t, l) THEN Counting(l) \cup {r} ELSE Counting(l) \ {r}
  BY <1>1 DEF Counting, Counts
<1>3. Passed(l)' = IF Passes(t, l) THEN Passed(l) \cup {r} ELSE Passed(l) \ {r}
  BY <1>1 DEF Passed, Passes
<1>4. /\ r \in Counting(l) <=> Counts(task[r], l)
      /\ r \in Passed(l) <=> Passes(task[r], l)
  BY DEF Counting, Counts, Passed, Passes
<1>5. /\ Cardinality(Counting(l) \cup {r})
           = IF r \in Counting(l) THEN Cardinality(Counting(l)) ELSE Cardinality(Counting(l)) + 1
      /\ Cardinality(Counting(l) \ {r})
           = IF r \in Counting(l) THEN Cardinality(Counting(l)) - 1 ELSE Cardinality(Counting(l))
  BY Sizes, FS_AddElement, FS_RemoveElement
<1>6. /\ Cardinality(Passed(l) \cup {r})
           = IF r \in Passed(l) THEN Cardinality(Passed(l)) ELSE Cardinality(Passed(l)) + 1
      /\ Cardinality(Passed(l) \ {r})
           = IF r \in Passed(l) THEN Cardinality(Passed(l)) - 1 ELSE Cardinality(Passed(l))
  BY Sizes, FS_AddElement, FS_RemoveElement
<1>7. Cardinality(Counting(l)') \in Nat /\ Cardinality(Passed(l)') \in Nat
  BY <1>2, <1>3, <1>5, <1>6, Sizes, FS_AddElement, FS_RemoveElement, FS_CardinalityType
<1>8. Cardinality(Counting(l)') + One(Counts(task[r], l))
        = Cardinality(Counting(l)) + One(Counts(t, l))
  BY <1>2, <1>4, <1>5, Sizes DEF One
<1>9. Cardinality(Passed(l)') + One(Passes(task[r], l))
        = Cardinality(Passed(l)) + One(Passes(t, l))
  BY <1>3, <1>4, <1>6, Sizes DEF One
<1>10. QED
  BY <1>7, <1>8, <1>9

\* Steps that let nobody in and count nobody; only a link that is not used up
\* gets one more request past the check.
LinksQuiet(r) ==
  \E t : /\ Goto(r, t)
         /\ \A l \in Links : /\ Counts(t, l) <=> Counts(task[r], l)
                             /\ Passes(t, l) => Passes(task[r], l) \/ ~Exhausted(l)
         /\ UNCHANGED <<used, admitted, uncounted>>

LEMMA LinksQuietSafe ==
  ASSUME TypeOK, LinkInv, NEW r \in Requests, LinksQuiet(r)
  PROVE  LinkInv'
<1>1. PICK t : /\ Goto(r, t)
               /\ \A l \in Links : /\ Counts(t, l) <=> Counts(task[r], l)
                                   /\ Passes(t, l) => Passes(task[r], l) \/ ~Exhausted(l)
               /\ UNCHANGED <<used, admitted, uncounted>>
  BY DEF LinksQuiet
<1>2. InviteAccounted'
  <2> SUFFICES ASSUME NEW l \in Links
               PROVE  admitted'[l] = used'[l] + uncounted'[l] + Cardinality(Counting(l)')
    BY DEF InviteAccounted
  <2>1. One(Counts(t, l)) = One(Counts(task[r], l)) /\ One(Counts(t, l)) \in Nat
    BY <1>1 DEF One
  <2>2. Cardinality(Counting(l)') = Cardinality(Counting(l))
    BY <1>1, <2>1, SetsMove, Sizes
  <2>3. QED
    BY <1>1, <2>2 DEF LinkInv, InviteAccounted
<1>3. OverlapOnly'
  <2> SUFFICES ASSUME NEW l \in SingleUse, used'[l] >= 1
               PROVE  used'[l] + Cardinality(Passed(l)') <= Cardinality(Requests)
    BY DEF OverlapOnly
  <2>1. l \in Links /\ used[l] \in Nat /\ Exhausted(l)
    BY <1>1, GroupsAssumption DEF TypeOK, Exhausted
  <2>2. One(Passes(t, l)) <= One(Passes(task[r], l))
        /\ One(Passes(t, l)) \in Nat /\ One(Passes(task[r], l)) \in Nat
    BY <1>1, <2>1 DEF One
  <2>3. Cardinality(Passed(l)') <= Cardinality(Passed(l)) /\ Cardinality(Passed(l)') \in Nat
    BY <1>1, <2>2, SetsMove, Sizes
  <2>4. QED
    BY <1>1, <2>1, <2>3, Sizes DEF LinkInv, OverlapOnly
<1>4. QED
  BY <1>2, <1>3 DEF LinkInv

LEMMA LinksQuietSteps ==
  ASSUME TypeOK, NEW r \in Requests,
         \/ \E s \in Seats : \/ CreateGroup(r, s) \/ JoinGroup(r, s) \/ LeaveGroup(r, s)
                             \/ CreateInviteLink(r, s)
                             \/ \E id \in Position : MarkRead(r, s, id)
         \/ \E u \in Users, l \in Links : JoinGroupByInvite(r, u, l)
         \/ \E l \in Links : InsertLink(r, l)
         \/ InsertLinkFails(r) \/ CheckInvited(r) \/ AddMemberFails(r)
         \/ EnsureReadState(r) \/ EnsureFails(r) \/ ForgetReadState(r) \/ ForgetFails(r)
         \/ CheckMark(r) \/ UpsertMonotonic(r) \/ MarkFails(r)
  PROVE  LinksQuiet(r)
<1> USE DEF LinksQuiet, Counts, Passes, tables, history, Idle
<1>0. NoLink \notin Links
  BY GroupsAssumption
<1>1. ASSUME NEW s \in Seats, \/ CreateGroup(r, s) \/ JoinGroup(r, s)
                              \/ LeaveGroup(r, s) \/ CreateInviteLink(r, s)
      PROVE  LinksQuiet(r)
  BY <1>0, <1>1 DEF CreateGroup, JoinGroup, LeaveGroup, CreateInviteLink
<1>2. ASSUME NEW s \in Seats, NEW id \in Position, MarkRead(r, s, id)
      PROVE  LinksQuiet(r)
  BY <1>2 DEF MarkRead
<1>3. ASSUME NEW u \in Users, NEW l \in Links, JoinGroupByInvite(r, u, l)
      PROVE  LinksQuiet(r)
  BY <1>3 DEF JoinGroupByInvite
<1>4. ASSUME NEW l \in Links, InsertLink(r, l) PROVE LinksQuiet(r)
  BY <1>4 DEF InsertLink
<1>5. CASE InsertLinkFails(r)
  BY <1>5 DEF InsertLinkFails
<1>6. CASE CheckInvited(r)
  BY <1>6 DEF CheckInvited
<1>7. CASE AddMemberFails(r) \/ MarkFails(r)
  BY <1>7 DEF AddMemberFails, MarkFails
<1>8. CASE EnsureReadState(r) \/ EnsureFails(r)
  BY <1>0, <1>8 DEF EnsureReadState, EnsureFails, Ensured
<1>9. CASE ForgetReadState(r) \/ ForgetFails(r)
  BY <1>9 DEF ForgetReadState, ForgetFails
<1>10. CASE CheckMark(r) \/ UpsertMonotonic(r)
  BY <1>10 DEF CheckMark, UpsertMonotonic
<1>11. QED
  BY <1>1, <1>2, <1>3, <1>4, <1>5, <1>6, <1>7, <1>8, <1>9, <1>10

LEMMA AddMemberLinks ==
  ASSUME TypeOK, LinkInv, NEW r \in Requests, AddMember(r)
  PROVE  LinkInv'
<1> DEFINE t == [pc |-> "ensure", seat |-> task[r].seat, link |-> task[r].link]
<1>1. Goto(r, t) /\ UNCHANGED <<used, uncounted>>
  BY DEF AddMember
<1>2. \A l : /\ Counts(t, l) <=> task[r].link = l
             /\ ~Counts(task[r], l)
             /\ Passes(t, l) <=> Passes(task[r], l)
  BY DEF AddMember, Counts, Passes
<1>3. InviteAccounted'
  <2> SUFFICES ASSUME NEW l \in Links
               PROVE  admitted'[l] = used'[l] + uncounted'[l] + Cardinality(Counting(l)')
    BY DEF InviteAccounted
  <2>1. admitted'[l] = admitted[l] + One(task[r].link = l)
    BY GroupsAssumption DEF AddMember, TypeOK, One
  <2>2. Cardinality(Counting(l)') = Cardinality(Counting(l)) + One(task[r].link = l)
    BY <1>1, <1>2, SetsMove, Sizes DEF One
  <2>3. /\ admitted[l] = used[l] + uncounted[l] + Cardinality(Counting(l))
        /\ used[l] \in Nat /\ uncounted[l] \in Nat /\ One(task[r].link = l) \in Nat
    BY DEF LinkInv, InviteAccounted, TypeOK, One
  <2>4. QED
    BY <1>1, <2>1, <2>2, <2>3, Sizes
<1>4. OverlapOnly'
  <2>1. \A l : Cardinality(Passed(l)') = Cardinality(Passed(l))
    BY <1>1, <1>2, SetsMove, Sizes DEF One
  <2>2. QED
    BY <1>1, <2>1 DEF LinkInv, OverlapOnly
<1>5. QED
  BY <1>3, <1>4 DEF LinkInv

LEMMA CountLinks ==
  ASSUME TypeOK, LinkInv, NEW r \in Requests, IncrementUse(r) \/ IncrementUseFails(r)
  PROVE  LinkInv'
<1> DEFINE k == task[r].link
<1>1. Goto(r, Idle) /\ task[r].pc = "count" /\ UNCHANGED admitted
  BY DEF IncrementUse, IncrementUseFails, history
<1>2. \A l : /\ Counts(task[r], l) <=> k = l
             /\ Passes(task[r], l) <=> k = l
             /\ ~Counts(Idle, l) /\ ~Passes(Idle, l)
  BY <1>1 DEF Counts, Passes, Idle
<1>3. \A l : /\ Cardinality(Counting(l)') + One(k = l) = Cardinality(Counting(l))
             /\ Cardinality(Passed(l)') + One(k = l) = Cardinality(Passed(l))
             /\ Cardinality(Counting(l)') \in Nat /\ Cardinality(Passed(l)') \in Nat
             /\ One(k = l) \in {0, 1}
  BY <1>1, <1>2, SetsMove, Sizes DEF One
<1>4. \A l \in Links : /\ used[l] \in Nat /\ used'[l] \in Nat
                       /\ uncounted[l] \in Nat /\ uncounted'[l] \in Nat
                       /\ used'[l] + uncounted'[l] = used[l] + uncounted[l] + One(k = l)
                       /\ used'[l] \in {used[l], used[l] + One(k = l)}
  <2>1. k \in Links
    BY <1>1, TaskFields DEF TypeOK
  <2>2. CASE IncrementUse(r)
    BY <2>1, <2>2 DEF IncrementUse, TypeOK, history, One
  <2>3. CASE IncrementUseFails(r)
    BY <2>1, <2>3 DEF IncrementUseFails, TypeOK, tables, One
  <2>4. QED
    BY <2>2, <2>3
<1>5. InviteAccounted'
  BY <1>1, <1>3, <1>4, Sizes DEF LinkInv, InviteAccounted
<1>6. OverlapOnly'
  <2> SUFFICES ASSUME NEW l \in SingleUse, used'[l] >= 1
               PROVE  used'[l] + Cardinality(Passed(l)') <= Cardinality(Requests)
    BY DEF OverlapOnly
  <2>1. l \in Links
    BY GroupsAssumption
  <2>2. CASE used[l] >= 1
    BY <1>3, <1>4, <2>1, <2>2, Sizes DEF LinkInv, OverlapOnly
  <2>3. CASE used[l] = 0
    BY <1>3, <1>4, <2>1, <2>3, Sizes
  <2>4. QED
    BY <1>4, <2>1, <2>2, <2>3
<1>7. QED
  BY <1>5, <1>6 DEF LinkInv

LEMMA LinksNextSafe == TypeOK /\ LinkInv /\ [Next]_vars => LinkInv'
<1> SUFFICES ASSUME TypeOK, LinkInv, [Next]_vars PROVE LinkInv'
  OBVIOUS
<1>1. ASSUME NEW r \in Requests, Step(r) PROVE LinkInv'
  BY <1>1, LinksQuietSafe, LinksQuietSteps, AddMemberLinks, CountLinks DEF Step
<1>2. CASE UNCHANGED <<task, used, admitted, uncounted>>
  <2>1. \A l : Counting(l)' = Counting(l) /\ Passed(l)' = Passed(l)
    BY <1>2 DEF Counting, Passed
  <2>2. QED
    BY <1>2, <2>1 DEF LinkInv, InviteAccounted, OverlapOnly
<1>3. CASE Crash
  <2>1. \A l : Counting(l)' = {} /\ Passed(l)' = {}
    BY <1>3 DEF Crash, Counting, Passed, Idle
  <2>2. Cardinality({}) = 0
    BY FS_EmptySet
  <2>3. InviteAccounted'
    <3> SUFFICES ASSUME NEW l \in Links
                 PROVE  admitted'[l] = used'[l] + uncounted'[l] + Cardinality(Counting(l)')
      BY DEF InviteAccounted
    <3>1. /\ uncounted'[l] = uncounted[l] + Cardinality(Counting(l))
          /\ UNCHANGED <<used, admitted>>
      BY <1>3 DEF Crash, tables
    <3>2. Counting(l)' = {} /\ Cardinality(Counting(l)') = 0
      BY <2>1, <2>2
    <3>3. /\ admitted[l] = used[l] + uncounted[l] + Cardinality(Counting(l))
          /\ used[l] \in Nat /\ uncounted[l] \in Nat /\ Cardinality(Counting(l)) \in Nat
      BY Sizes DEF LinkInv, InviteAccounted, TypeOK
    <3>4. QED
      BY <3>1, <3>2, <3>3
  <2>4. OverlapOnly'
    <3> SUFFICES ASSUME NEW l \in SingleUse, used[l] >= 1
                 PROVE  used[l] + Cardinality(Passed(l)') <= Cardinality(Requests)
      BY <1>3 DEF OverlapOnly, Crash, tables
    <3>1. Passed(l)' = {} /\ Cardinality(Passed(l)') = 0
      BY <2>1, <2>2
    <3>2. /\ used[l] + Cardinality(Passed(l)) <= Cardinality(Requests)
          /\ used[l] \in Nat /\ Cardinality(Passed(l)) \in Nat
      BY GroupsAssumption, Sizes DEF TypeOK, LinkInv, OverlapOnly
    <3>3. QED
      BY <3>1, <3>2, Sizes
  <2>5. QED
    BY <2>3, <2>4 DEF LinkInv
<1>4. QED
  BY <1>1, <1>2, <1>3 DEF Next, Post, vars, tables, history

LEMMA LinksInvariant == Spec => []LinkInv
<1>1. Init => LinkInv
  <2> SUFFICES ASSUME Init PROVE LinkInv
    OBVIOUS
  <2>1. \A l : Counting(l) = {}
    BY DEF Init, Counting, Idle
  <2>2. \A l : Cardinality(Counting(l)) = 0
    BY <2>1, FS_EmptySet
  <2>3. \A l \in Links : admitted[l] = 0 /\ used[l] = 0 /\ uncounted[l] = 0
    BY DEF Init
  <2>4. InviteAccounted
    BY <2>2, <2>3 DEF InviteAccounted
  <2>5. OverlapOnly
    BY <2>3, GroupsAssumption DEF OverlapOnly
  <2>6. QED
    BY <2>4, <2>5 DEF LinkInv
<1>2. QED
  BY <1>1, LinksNextSafe, InitTyped, NextTyped, PTL DEF Spec

\* Whoever a link let in is counted, about to be, or named as never counted.
THEOREM InvitesAccounted == Spec => []InviteAccounted
<1>1. LinkInv => InviteAccounted
  BY DEF LinkInv
<1>2. QED
  BY <1>1, LinksInvariant, PTL

\* A single-use link lets in more than one only if their requests overlapped.
THEOREM SingleUseOverlap == Spec => []OverlapOnly
<1>1. LinkInv => OverlapOnly
  BY DEF LinkInv
<1>2. QED
  BY <1>1, LinksInvariant, PTL

-----------------------------------------------------------------------------
(***************************************************************************)
(* Admins.                                                                 *)
(***************************************************************************)

\* A request doing t is one of Founding(g).
Founds(t, g) == t.pc = "add" /\ t.as = "admin" /\ t.seat[1] = g

LEMMA FoundingMove ==
  ASSUME TypeOK, NEW r \in Requests, NEW t, Goto(r, t), NEW g
  PROVE  /\ Founding(g)' = IF Founds(t, g) THEN Founding(g) \cup {r}
                           ELSE Founding(g) \ {r}
         /\ r \in Founding(g) <=> Founds(task[r], g)
<1>1. \A q \in Requests : task'[q] = IF q = r THEN t ELSE task[q]
  BY GotoOne
<1>2. QED
  BY <1>1 DEF Founding, Founds

\* Steps that neither make nor end an admin.
AdminsQuiet(r) ==
  \E t : /\ Goto(r, t)
         /\ \A g : Founds(t, g) <=> Founds(task[r], g)
         /\ \A s \in Seats : role'[s] = "admin" <=> role[s] = "admin"
         /\ UNCHANGED <<groups, headless>>

LEMMA AdminsQuietSafe ==
  ASSUME TypeOK, AdminNamed, NEW r \in Requests, AdminsQuiet(r)
  PROVE  AdminNamed'
<1>1. PICK t : /\ Goto(r, t)
               /\ \A g : Founds(t, g) <=> Founds(task[r], g)
               /\ \A s \in Seats : role'[s] = "admin" <=> role[s] = "admin"
               /\ UNCHANGED <<groups, headless>>
  BY DEF AdminsQuiet
<1>2. \A g : Founding(g)' = Founding(g)
  BY <1>1, FoundingMove
<1>3. \A g \in Groups : Admins(g)' = Admins(g)
  BY <1>1 DEF Admins, Seats
<1>4. QED
  BY <1>1, <1>2, <1>3 DEF AdminNamed

LEMMA AdminsQuietSteps ==
  ASSUME TypeOK, NEW r \in Requests,
         \/ \E s \in Seats : \/ JoinGroup(r, s) \/ CreateInviteLink(r, s)
                             \/ \E id \in Position : MarkRead(r, s, id)
         \/ \E u \in Users, l \in Links : JoinGroupByInvite(r, u, l)
         \/ \E l \in Links : InsertLink(r, l)
         \/ InsertLinkFails(r) \/ CheckInvited(r)
         \/ EnsureReadState(r) \/ EnsureFails(r) \/ IncrementUse(r) \/ IncrementUseFails(r)
         \/ ForgetReadState(r) \/ ForgetFails(r)
         \/ CheckMark(r) \/ UpsertMonotonic(r) \/ MarkFails(r)
  PROVE  AdminsQuiet(r)
<1> USE DEF AdminsQuiet, Founds, tables, history, Idle
<1>1. ASSUME NEW s \in Seats, JoinGroup(r, s) \/ CreateInviteLink(r, s)
      PROVE  AdminsQuiet(r)
  BY <1>1 DEF JoinGroup, CreateInviteLink
<1>2. ASSUME NEW s \in Seats, NEW id \in Position, MarkRead(r, s, id)
      PROVE  AdminsQuiet(r)
  BY <1>2 DEF MarkRead
<1>3. ASSUME NEW u \in Users, NEW l \in Links, JoinGroupByInvite(r, u, l)
      PROVE  AdminsQuiet(r)
  BY <1>3 DEF JoinGroupByInvite
<1>4. ASSUME NEW l \in Links, InsertLink(r, l) PROVE AdminsQuiet(r)
  BY <1>4 DEF InsertLink
<1>5. CASE InsertLinkFails(r)
  BY <1>5 DEF InsertLinkFails
<1>6. CASE CheckInvited(r)
  BY <1>6 DEF CheckInvited
<1>7. CASE MarkFails(r)
  BY <1>7 DEF MarkFails
<1>8. CASE EnsureReadState(r) \/ EnsureFails(r)
  BY <1>8 DEF EnsureReadState, EnsureFails, Ensured
<1>9. CASE ForgetReadState(r) \/ ForgetFails(r)
  BY <1>9 DEF ForgetReadState, ForgetFails
<1>10. CASE CheckMark(r) \/ UpsertMonotonic(r)
  BY <1>10 DEF CheckMark, UpsertMonotonic
<1>11. CASE IncrementUse(r) \/ IncrementUseFails(r)
  BY <1>11 DEF IncrementUse, IncrementUseFails
<1>12. QED
  BY <1>1, <1>2, <1>3, <1>4, <1>5, <1>6, <1>7, <1>8, <1>9, <1>10, <1>11

LEMMA CreateGroupAdmins ==
  ASSUME TypeOK, AdminNamed, NEW r \in Requests, NEW s \in Seats, CreateGroup(r, s)
  PROVE  AdminNamed'
<1> DEFINE t == [pc |-> "add", seat |-> s, as |-> "admin", link |-> NoLink]
<1>1. /\ Goto(r, t) /\ s[1] \in Groups \ groups /\ groups' = groups \cup {s[1]}
      /\ UNCHANGED <<role, headless>>
      /\ \A g : ~Founds(task[r], g)
      /\ \A g : Founds(t, g) <=> g = s[1]
  BY DEF CreateGroup, history, Founds, Idle, Seats
<1> HIDE DEF t
<1>2. \A g : Founding(g)' = IF g = s[1] THEN Founding(g) \cup {r} ELSE Founding(g)
  BY <1>1, FoundingMove
<1>3. \A g : Admins(g)' = Admins(g)
  BY <1>1 DEF Admins
<1>4. Founding(s[1]) = {} /\ Admins(s[1]) = {} /\ s[1] \notin headless
  BY <1>1 DEF AdminNamed
<1>5. Founding(s[1])' = {r}
  BY <1>2, <1>4
<1>6. QED
  BY <1>1, <1>2, <1>3, <1>4, <1>5 DEF AdminNamed

LEMMA LeaveGroupAdmins ==
  ASSUME TypeOK, AdminNamed, NEW r \in Requests, NEW s \in Seats, LeaveGroup(r, s)
  PROVE  AdminNamed'
<1>1. PICK g \in Groups, u \in Users : s = <<g, u>>
  BY DEF Seats
<1>2. /\ Goto(r, [pc |-> "forget", seat |-> s])
      /\ role' = [role EXCEPT ![s] = "none"]
      /\ headless' = IF role[s] = "admin" THEN headless \cup {g} ELSE headless
      /\ groups' = groups
      /\ \A h : ~Founds(task[r], h) /\ ~Founds([pc |-> "forget", seat |-> s], h)
  BY <1>1 DEF LeaveGroup, Left, Founds, Idle
<1>3. \A h : Founding(h)' = Founding(h)
  BY <1>2, FoundingMove
<1>4. \A x \in Seats : role'[x] = IF x = s THEN "none" ELSE role[x]
  BY <1>2 DEF TypeOK
<1>5. \A h \in Groups : Admins(h)' = IF h = g THEN Admins(h) \ {u} ELSE Admins(h)
  BY <1>1, <1>4 DEF Admins, Seats
<1>6. role[s] = "admin" <=> u \in Admins(g)
  BY <1>1 DEF Admins
<1>7. CASE u \in Admins(g)
  <2>1. g \in groups \ headless /\ Founding(g) = {} /\ Admins(g) = {u}
    BY <1>7 DEF AdminNamed
  <2>2. Admins(g)' = {} /\ headless' = headless \cup {g}
    BY <1>2, <1>5, <1>6, <1>7, <2>1
  <2>3. QED
    BY <1>2, <1>3, <1>5, <2>1, <2>2 DEF AdminNamed
<1>8. CASE u \notin Admins(g)
  <2>1. \A h \in Groups : Admins(h)' = Admins(h)
    BY <1>5, <1>8
  <2>2. QED
    BY <1>2, <1>3, <1>6, <1>8, <2>1 DEF AdminNamed
<1>9. QED
  BY <1>7, <1>8

LEMMA AddMemberAdmins ==
  ASSUME TypeOK, AdminNamed, NEW r \in Requests, AddMember(r)
  PROVE  AdminNamed'
<1> DEFINE s == task[r].seat
           t == [pc |-> "ensure", seat |-> s, link |-> task[r].link]
<1>1. s \in Seats /\ task[r].as \in {"member", "admin"}
  BY TaskFields DEF AddMember, TypeOK
<1>2. PICK g \in Groups, u \in Users : s = <<g, u>>
  BY <1>1 DEF Seats
<1>3. /\ Goto(r, t) /\ UNCHANGED <<groups, headless>>
      /\ role' = [role EXCEPT ![s] = task[r].as]
      /\ role[s] = "none"
      /\ \A h : ~Founds(t, h)
      /\ \A h : Founds(task[r], h) <=> task[r].as = "admin" /\ h = g
  BY <1>2 DEF AddMember, Founds, IsMember
<1> HIDE DEF t
<1>4. \A h : Founding(h)' = Founding(h) \ {r}
  BY <1>3, FoundingMove
<1>5. \A h : r \in Founding(h) <=> task[r].as = "admin" /\ h = g
  BY <1>3, FoundingMove
<1>6. \A x \in Seats : role'[x] = IF x = s THEN task[r].as ELSE role[x]
  BY <1>3 DEF TypeOK
<1>7. CASE task[r].as = "admin"
  <2>1. g \in groups \ headless /\ Founding(g) = {r} /\ Admins(g) = {}
    BY <1>5, <1>7 DEF AdminNamed
  <2>2. Founding(g)' = {} /\ \A h : h # g => Founding(h)' = Founding(h)
    BY <1>4, <1>5, <2>1
  <2>3. \A h \in Groups : Admins(h)' = IF h = g THEN Admins(h) \cup {u} ELSE Admins(h)
    BY <1>2, <1>6, <1>7 DEF Admins, Seats
  <2>4. Admins(g)' = {u}
    BY <2>1, <2>3
  <2>5. QED
    BY <1>3, <2>1, <2>2, <2>3, <2>4 DEF AdminNamed
<1>8. CASE task[r].as = "member"
  <2>1. \A h : Founding(h)' = Founding(h)
    BY <1>4, <1>5, <1>8
  <2>2. \A h \in Groups : Admins(h)' = Admins(h)
    BY <1>2, <1>3, <1>6, <1>8 DEF Admins, Seats
  <2>3. QED
    BY <1>3, <2>1, <2>2 DEF AdminNamed
<1>9. QED
  BY <1>1, <1>7, <1>8

LEMMA AddMemberFailsAdmins ==
  ASSUME TypeOK, AdminNamed, NEW r \in Requests, AddMemberFails(r)
  PROVE  AdminNamed'
<1>0. PICK g \in Groups : g = task[r].seat[1]
  BY TaskFields DEF AddMemberFails, TypeOK, Seats
<1>1. /\ Goto(r, Idle) /\ UNCHANGED <<groups, role>>
      /\ headless' = IF task[r].as = "admin" THEN headless \cup {g} ELSE headless
      /\ \A h : ~Founds(Idle, h)
      /\ \A h : Founds(task[r], h) <=> task[r].as = "admin" /\ h = g
  BY <1>0 DEF AddMemberFails, tables, Founds, Idle
<1>2. \A h : /\ Founding(h)' = Founding(h) \ {r}
             /\ r \in Founding(h) <=> task[r].as = "admin" /\ h = g
  BY <1>1, FoundingMove
<1>3. \A h : Admins(h)' = Admins(h)
  BY <1>1 DEF Admins
<1>4. CASE task[r].as = "admin"
  <2>1. g \in groups \ headless /\ Founding(g) = {r} /\ Admins(g) = {}
    BY <1>1, <1>2, <1>4 DEF AdminNamed
  <2>2. Founding(g)' = {} /\ \A h : h # g => Founding(h)' = Founding(h)
    BY <1>2, <2>1
  <2>3. QED
    BY <1>1, <1>3, <1>4, <2>1, <2>2 DEF AdminNamed
<1>5. CASE task[r].as # "admin"
  <2>1. \A h : Founding(h)' = Founding(h)
    BY <1>2, <1>5
  <2>2. QED
    BY <1>1, <1>3, <1>5, <2>1 DEF AdminNamed
<1>6. QED
  BY <1>4, <1>5

LEMMA AdminsNextSafe == TypeOK /\ AdminNamed /\ [Next]_vars => AdminNamed'
<1> SUFFICES ASSUME TypeOK, AdminNamed, [Next]_vars PROVE AdminNamed'
  OBVIOUS
<1>1. ASSUME NEW r \in Requests, Step(r) PROVE AdminNamed'
  BY <1>1, AdminsQuietSafe, AdminsQuietSteps, CreateGroupAdmins, LeaveGroupAdmins,
     AddMemberAdmins, AddMemberFailsAdmins DEF Step
<1>2. CASE UNCHANGED <<groups, role, headless, task>>
  <2>1. \A g : Founding(g)' = Founding(g) /\ Admins(g)' = Admins(g)
    BY <1>2 DEF Founding, Admins
  <2>2. QED
    BY <1>2, <2>1 DEF AdminNamed
<1>3. CASE Crash
  <2>1. /\ UNCHANGED <<groups, role>>
        /\ headless' = headless \cup {g \in Groups : Founding(g) # {}}
    BY <1>3 DEF Crash, tables
  <2>2. \A g : Founding(g)' = {} /\ Admins(g)' = Admins(g)
    BY <1>3, <2>1 DEF Crash, Founding, Admins, Idle
  <2>3. \A g \in Groups : Founding(g) # {} => g \in groups /\ Admins(g) = {}
    BY DEF AdminNamed
  <2>4. QED
    BY <2>1, <2>2, <2>3 DEF AdminNamed
<1>4. QED
  BY <1>1, <1>2, <1>3 DEF Next, Post, vars, tables, history

\* A group has its one admin or the request that is about to add it, and in the
\* named cases, for good, none.
THEOREM AdminsNamed == Spec => []AdminNamed
<1>1. Init => AdminNamed
  BY DEF Init, AdminNamed, Founding, Admins, Idle, Seats
<1>2. QED
  BY <1>1, AdminsNextSafe, InitTyped, NextTyped, PTL DEF Spec

-----------------------------------------------------------------------------
(***************************************************************************)
(* One request at a time.                                                  *)
(***************************************************************************)

\* Whoever is leaving has left.
LeavingGone ==
  \A r \in Requests : task[r].pc = "forget" => ~IsMember(task[r].seat)

LEMMA LeavingAlone ==
  ASSUME \A q, r \in Requests : q = r
  PROVE  TypeOK /\ LeavingGone /\ [Next]_vars => LeavingGone'
<1> SUFFICES ASSUME TypeOK, LeavingGone, [Next]_vars PROVE LeavingGone'
  OBVIOUS
<1> USE DEF LeavingGone, IsMember
<1>1. ASSUME NEW r \in Requests, NEW t, Goto(r, t), t.pc # "forget"
      PROVE  LeavingGone'
  BY <1>1, GotoOne
<1>2. ASSUME NEW r \in Requests, NEW s \in Seats, LeaveGroup(r, s)
      PROVE  LeavingGone'
  <2>1. task'[r] = [pc |-> "forget", seat |-> s] /\ role'[s] = "none"
    BY <1>2 DEF LeaveGroup, Goto, TypeOK
  <2>2. QED
    BY <2>1
<1>3. ASSUME NEW r \in Requests, Step(r) PROVE LeavingGone'
  <2>1. CASE \E s \in Seats : LeaveGroup(r, s)
    BY <1>2, <2>1
  <2>2. Idle.pc # "forget" /\ Ensured(r).pc # "forget"
    BY DEF Idle, Ensured
  <2>3. CASE ~\E s \in Seats : LeaveGroup(r, s)
    <3>1. \E t : Goto(r, t) /\ t.pc # "forget"
      <4>1. CASE CheckInvited(r)
        BY <2>2, <4>1 DEF CheckInvited
      <4>2. CASE CheckMark(r)
        BY <2>2, <4>2 DEF CheckMark
      <4>3. CASE EnsureReadState(r) \/ EnsureFails(r)
        BY <2>2, <4>3 DEF EnsureReadState, EnsureFails
      <4>4. ASSUME NEW s \in Seats, \/ CreateGroup(r, s) \/ JoinGroup(r, s)
                                    \/ CreateInviteLink(r, s)
            PROVE  \E t : Goto(r, t) /\ t.pc # "forget"
        BY <4>4 DEF CreateGroup, JoinGroup, CreateInviteLink
      <4>5. ASSUME NEW s \in Seats, NEW id \in Position, MarkRead(r, s, id)
            PROVE  \E t : Goto(r, t) /\ t.pc # "forget"
        BY <4>5 DEF MarkRead
      <4>6. ASSUME NEW u \in Users, NEW l \in Links, JoinGroupByInvite(r, u, l)
            PROVE  \E t : Goto(r, t) /\ t.pc # "forget"
        BY <4>6 DEF JoinGroupByInvite
      <4>7. ASSUME \/ \E l \in Links : InsertLink(r, l)
                   \/ InsertLinkFails(r) \/ AddMemberFails(r) \/ IncrementUse(r)
                   \/ IncrementUseFails(r) \/ ForgetReadState(r) \/ ForgetFails(r)
                   \/ UpsertMonotonic(r) \/ MarkFails(r)
            PROVE  Goto(r, Idle)
        BY <4>7
           DEF InsertLink, InsertLinkFails, AddMemberFails, IncrementUse,
               IncrementUseFails, ForgetReadState, ForgetFails, UpsertMonotonic, MarkFails
      <4>8. CASE AddMember(r)
        BY <4>8 DEF AddMember
      <4>9. QED
        BY <1>3, <2>2, <2>3, <4>1, <4>2, <4>3, <4>4, <4>5, <4>6, <4>7, <4>8 DEF Step
    <3>2. QED
      BY <1>1, <3>1
  <2>4. QED
    BY <2>1, <2>3
<1>4. CASE Crash
  BY <1>4 DEF Crash, Idle
<1>5. CASE UNCHANGED <<task, role>>
  BY <1>5
<1>6. QED
  BY <1>3, <1>4, <1>5 DEF Next, Post, vars, tables

\* The step condition of ReadMonotonic.
NotTaken == \A s \in Seats : (IsMember(s) /\ IsMember(s)') => Shown(s)' >= Shown(s)

LEMMA MonotonicAlone ==
  ASSUME \A q, r \in Requests : q = r
  PROVE  TypeOK /\ TypeOK' /\ LeavingGone /\ [Next]_vars => [NotTaken]_vars
<1> SUFFICES ASSUME TypeOK, TypeOK', LeavingGone, Next, NEW s \in Seats,
                    IsMember(s), IsMember(s)'
             PROVE  Shown(s)' >= Shown(s)
  BY DEF NotTaken
<1>1. Shown(s) \in Int /\ Shown(s)' \in Int
  BY GroupsAssumption DEF Shown, TypeOK, Position, NoRow
<1>2. CASE Forgetting(s)' = Forgetting(s)
  <2>1. TakenBack \/ UNCHANGED vars
    BY NextTakesBack
  <2>2. CASE UNCHANGED vars
    BY <1>1, <2>2 DEF vars, tables, Shown
  <2>3. QED
    BY <1>1, <1>2, <2>1, <2>2 DEF TakenBack
<1>3. Forgetting(s) = {}
  BY DEF LeavingGone, Forgetting
<1>4. ASSUME NEW r \in Requests, task'[r].pc = "forget", task'[r].seat = s
      PROVE  FALSE
  BY <1>4, LeavingAlone DEF LeavingGone
<1>5. Forgetting(s)' = {}
  BY <1>4 DEF Forgetting
<1>6. QED
  BY <1>2, <1>3, <1>5

\* What BACKEND_API.md:401 promises, and the run read refutes for requests that
\* overlap, does hold of a server that handles one request at a time: the
\* position of a user who stays a member never decreases.
THEOREM MonotonicOneByOne ==
  ASSUME \A q, r \in Requests : q = r
  PROVE  Spec => ReadMonotonic
<1>1. Init => LeavingGone
  BY DEF Init, LeavingGone, Idle
<1>2. TypeOK /\ LeavingGone /\ [Next]_vars => LeavingGone'
  BY LeavingAlone
<1>3. TypeOK /\ TypeOK' /\ LeavingGone /\ [Next]_vars => [NotTaken]_vars
  BY MonotonicAlone
<1>4. QED
  BY <1>1, <1>2, <1>3, GroupsTypeCorrect, PTL DEF Spec, ReadMonotonic, NotTaken

=============================================================================
