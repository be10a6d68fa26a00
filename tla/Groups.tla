------------------------------- MODULE Groups -------------------------------
(***************************************************************************)
(* Groups, their members, invite links and read states: GroupService       *)
(* (internal/service/group_service.go) over the repositories of            *)
(* internal/repository/group_*.go, and the two ways to mark a group read,  *)
(* MarkGroupRead (internal/handlers/message_handler.go) and                *)
(* MessageGroupRead (internal/handlers/ws/messages.go).                    *)
(*                                                                         *)
(* A request is a handler goroutine that works for some user.  Every       *)
(* database statement is a step, and there are no transactions.  A         *)
(* request that is refused changes nothing and is not a step; so are an    *)
(* invite that has expired, which refuses whoever comes, and the queries.  *)
(***************************************************************************)
EXTENDS Integers, Sequences, FiniteSets

CONSTANTS
  Users, Groups,
  Direct,            \* stands for the group of a direct message
  PublicGroups,      \* the groups anybody may join
  Requests,          \* the requests handled at once
  Links, NoLink,     \* the invite links, and none of them
  GroupOf,           \* the group an invite link is for
  SingleUse,         \* the links whose MaxUses is one, not nil
  DBFails,           \* a database statement may fail
  MaxPosts,          \* bound: how many messages are sent
  MaxJoins           \* bound: how many users a link lets in

ASSUME GroupsAssumption ==
  /\ PublicGroups \subseteq Groups
  /\ Direct \notin Groups
  /\ IsFiniteSet(Requests)
  /\ NoLink \notin Links
  /\ GroupOf \in [Links -> Groups]
  /\ SingleUse \subseteq Links
  /\ DBFails \in BOOLEAN
  /\ MaxPosts \in Nat
  /\ MaxJoins \in Nat

VARIABLES
  groups,      \* table groups
  role,        \* table group_members
  readState,   \* table group_read_states
  posts,       \* table messages in the order of ids: the group of each
  links,       \* table group_invite_links
  used,        \* its column used_count
  task,        \* what each request is doing
  admitted,    \* history: how many users each link has let in
  uncounted,   \* history: those of them the link will never count
  orphans,     \* history: rows written or left for somebody who is no member
  headless     \* history: groups whose admin was never added, or has left

tables == <<groups, role, readState, posts, links, used>>
history == <<admitted, uncounted, orphans, headless>>
vars == <<tables, task, history>>

Roles == {"none", "member", "admin"}
NoRow == -1
Seats == Groups \X Users
Position == 0 .. MaxPosts

Idle == [pc |-> "idle"]

Tasks ==
  {Idle}
    \cup [pc : {"invited"}, user : Users, link : Links]
    \cup [pc : {"add"}, seat : Seats, as : {"member", "admin"}, link : Links \cup {NoLink}]
    \cup [pc : {"ensure"}, seat : Seats, link : Links \cup {NoLink}]
    \cup [pc : {"count"}, link : Links]
    \cup [pc : {"forget"}, seat : Seats]
    \cup [pc : {"link"}, group : Groups]
    \cup [pc : {"check", "upsert"}, seat : Seats, at : Position]

TypeOK ==
  /\ groups    \in SUBSET Groups
  /\ role      \in [Seats -> Roles]
  /\ readState \in [Seats -> Position \cup {NoRow}]
  /\ posts     \in Seq(Groups \cup {Direct})
  /\ links     \in SUBSET Links
  /\ used      \in [Links -> Nat]
  /\ task      \in [Requests -> Tasks]
  /\ admitted  \in [Links -> Nat]
  /\ uncounted \in [Links -> Nat]
  /\ orphans   \in SUBSET Seats
  /\ headless  \in SUBSET Groups

Init ==
  /\ groups    = {}
  /\ role      = [s \in Seats |-> "none"]
  /\ readState = [s \in Seats |-> NoRow]
  /\ posts     = <<>>
  /\ links     = {}
  /\ used      = [l \in Links |-> 0]
  /\ task      = [r \in Requests |-> Idle]
  /\ admitted  = [l \in Links |-> 0]
  /\ uncounted = [l \in Links |-> 0]
  /\ orphans   = {}
  /\ headless  = {}

IsMember(s) == role[s] # "none"

Goto(r, t) == task' = [task EXCEPT ![r] = t]

-----------------------------------------------------------------------------
(***************************************************************************)
(* Creating, joining and leaving a group.                                  *)
(***************************************************************************)

\* CreateGroupWithVisibility: the group, then its creator as the admin.
CreateGroup(r, s) ==
  /\ task[r] = Idle
  /\ s[1] \notin groups
  /\ groups' = groups \cup {s[1]}
  /\ Goto(r, [pc |-> "add", seat |-> s, as |-> "admin", link |-> NoLink])
  /\ UNCHANGED <<role, readState, posts, links, used>> /\ UNCHANGED history

\* JoinGroup, by id or by handle: the group is public, and the user not yet
\* in it.
JoinGroup(r, s) ==
  /\ task[r] = Idle
  /\ s[1] \in groups \cap PublicGroups
  /\ ~IsMember(s)
  /\ Goto(r, [pc |-> "add", seat |-> s, as |-> "member", link |-> NoLink])
  /\ UNCHANGED tables /\ UNCHANGED history

\* A comparison with the limit that is off by one.
ExhaustedLate(l) == l \in SingleUse /\ used[l] > 1

\* MaxUses is reached.
Exhausted(l) == l \in SingleUse /\ used[l] >= 1

\* JoinGroupByInvite: the link is found and not used up.
JoinGroupByInvite(r, u, l) ==
  /\ task[r] = Idle
  /\ l \in links
  /\ ~Exhausted(l)
  /\ admitted[l] < MaxJoins
  /\ Goto(r, [pc |-> "invited", user |-> u, link |-> l])
  /\ UNCHANGED tables /\ UNCHANGED history

\* The invited user is a member already, and the link not used; or is not.
CheckInvited(r) ==
  /\ task[r].pc = "invited"
  /\ LET s == <<GroupOf[task[r].link], task[r].user>>
     IN  Goto(r, IF IsMember(s) THEN Idle
                 ELSE [pc |-> "add", seat |-> s, as |-> "member",
                       link |-> task[r].link])
  /\ UNCHANGED tables /\ UNCHANGED history

\* An insert that takes an existing row for its own.
AddOrFind(r) ==
  /\ task[r].pc = "add"
  /\ role' = [role EXCEPT ![task[r].seat] = task[r].as]
  /\ admitted' = IF task[r].link = NoLink \/ IsMember(task[r].seat) THEN admitted
                 ELSE [admitted EXCEPT ![task[r].link] = @ + 1]
  /\ orphans' = orphans \ {task[r].seat}
  /\ Goto(r, [pc |-> "ensure", seat |-> task[r].seat, link |-> task[r].link])
  /\ UNCHANGED <<groups, readState, posts, links, used, uncounted, headless>>

\* AddMember: the insert, under the primary key (group_id, user_id).
AddMember(r) ==
  /\ task[r].pc = "add"
  /\ ~IsMember(task[r].seat)
  /\ role' = [role EXCEPT ![task[r].seat] = task[r].as]
  /\ admitted' = IF task[r].link = NoLink THEN admitted
                 ELSE [admitted EXCEPT ![task[r].link] = @ + 1]
  /\ orphans' = orphans \ {task[r].seat}
  /\ Goto(r, [pc |-> "ensure", seat |-> task[r].seat, link |-> task[r].link])
  /\ UNCHANGED <<groups, readState, posts, links, used, uncounted, headless>>

\* Somebody else has added the user in the meantime, or the insert fails.
AddMemberFails(r) ==
  /\ task[r].pc = "add"
  /\ IsMember(task[r].seat) \/ DBFails
  /\ headless' = IF task[r].as = "admin" THEN headless \cup {task[r].seat[1]}
                 ELSE headless
  /\ Goto(r, Idle)
  /\ UNCHANGED tables /\ UNCHANGED <<admitted, uncounted, orphans>>

\* The count is not skipped for a user who came without a link.
EnsuredAny(r) == [pc |-> "count", link |-> task[r].link]

\* After the read state, an invited user is counted.
Ensured(r) == IF task[r].link = NoLink THEN Idle
              ELSE [pc |-> "count", link |-> task[r].link]

\* EnsureForMember: a row, if there is none (ON CONFLICT DO NOTHING).
EnsureReadState(r) ==
  /\ task[r].pc = "ensure"
  /\ LET s == task[r].seat
     IN  /\ readState' = [readState EXCEPT ![s] = IF @ = NoRow THEN 0 ELSE @]
         /\ orphans' = IF IsMember(s) THEN orphans ELSE orphans \cup {s}
  /\ Goto(r, Ensured(r))
  /\ UNCHANGED <<groups, role, posts, links, used, admitted, uncounted, headless>>

\* It fails: the error is ignored.
EnsureFails(r) ==
  /\ task[r].pc = "ensure"
  /\ DBFails
  /\ Goto(r, Ensured(r))
  /\ UNCHANGED tables /\ UNCHANGED history

\* IncrementUse.
IncrementUse(r) ==
  /\ task[r].pc = "count"
  /\ used' = [used EXCEPT ![task[r].link] = @ + 1]
  /\ Goto(r, Idle)
  /\ UNCHANGED <<groups, role, readState, posts, links>> /\ UNCHANGED history

IncrementUseFails(r) ==
  /\ task[r].pc = "count"
  /\ DBFails
  /\ uncounted' = [uncounted EXCEPT ![task[r].link] = @ + 1]
  /\ Goto(r, Idle)
  /\ UNCHANGED tables /\ UNCHANGED <<admitted, orphans, headless>>

\* The groups without an admin once a seat is left.
Left(s) == IF role[s] = "admin" THEN headless \cup {s[1]} ELSE headless

\* Leaving deletes the membership only.
LeaveOnly(r, s) ==
  /\ task[r] = Idle
  /\ role' = [role EXCEPT ![s] = "none"]
  /\ headless' = Left(s)
  /\ UNCHANGED <<groups, readState, posts, links, used, task>>
  /\ UNCHANGED <<admitted, uncounted, orphans>>

\* LeaveGroup: no check comes first, a user who is no member may leave.
LeaveGroup(r, s) ==
  /\ task[r] = Idle
  /\ role' = [role EXCEPT ![s] = "none"]
  /\ headless' = Left(s)
  /\ Goto(r, [pc |-> "forget", seat |-> s])
  /\ UNCHANGED <<groups, readState, posts, links, used>>
  /\ UNCHANGED <<admitted, uncounted, orphans>>

\* DeleteForMember.
ForgetReadState(r) ==
  /\ task[r].pc = "forget"
  /\ readState' = [readState EXCEPT ![task[r].seat] = NoRow]
  /\ orphans' = orphans \ {task[r].seat}
  /\ Goto(r, Idle)
  /\ UNCHANGED <<groups, role, posts, links, used, admitted, uncounted, headless>>

\* It fails: the error is ignored.
ForgetFails(r) ==
  /\ task[r].pc = "forget"
  /\ DBFails
  /\ orphans' = IF IsMember(task[r].seat) THEN orphans
                ELSE orphans \cup {task[r].seat}
  /\ Goto(r, Idle)
  /\ UNCHANGED tables /\ UNCHANGED <<admitted, uncounted, headless>>

-----------------------------------------------------------------------------
(***************************************************************************)
(* Invite links.                                                           *)
(***************************************************************************)

\* CreateInviteLink: only admins may.
CreateInviteLink(r, s) ==
  /\ task[r] = Idle
  /\ role[s] = "admin"
  /\ Goto(r, [pc |-> "link", group |-> s[1]])
  /\ UNCHANGED tables /\ UNCHANGED history

InsertLink(r, l) ==
  /\ task[r].pc = "link"
  /\ l \notin links
  /\ GroupOf[l] = task[r].group
  /\ links' = links \cup {l}
  /\ Goto(r, Idle)
  /\ UNCHANGED <<groups, role, readState, posts, used>> /\ UNCHANGED history

InsertLinkFails(r) ==
  /\ task[r].pc = "link"
  /\ DBFails
  /\ Goto(r, Idle)
  /\ UNCHANGED tables /\ UNCHANGED history

-----------------------------------------------------------------------------
(***************************************************************************)
(* Messages and read marks.                                                *)
(***************************************************************************)

\* A message, to a group or a user, is inserted and gets the next id.
Post(g) ==
  /\ g \in groups \cup {Direct}
  /\ Len(posts) < MaxPosts
  /\ posts' = Append(posts, g)
  /\ UNCHANGED <<groups, role, readState, links, used, task>> /\ UNCHANGED history

\* MarkGroupRead and MessageGroupRead: a member marks the group read up to
\* some message id, or up to nothing.
MarkRead(r, s, id) ==
  /\ task[r] = Idle
  /\ IsMember(s)
  /\ Goto(r, [pc |-> "check", seat |-> s, at |-> id])
  /\ UNCHANGED tables /\ UNCHANGED history

IdsOf(g) == {id \in DOMAIN posts : posts[id] = g}

\* No check of the group the message belongs to.
BelongsAnywhere(id, g) == id = 0 \/ id \in DOMAIN posts

\* IsMessageInGroup, which can only turn from false to true.
Belongs(id, g) == id = 0 \/ id \in IdsOf(g)

\* The message must be of the group.  The code then takes the smaller of the
\* id and GetLatestGroupMessageID, which is never less than the id of a
\* message of the group.
CheckMark(r) ==
  /\ task[r].pc = "check"
  /\ Goto(r, IF Belongs(task[r].at, task[r].seat[1])
             THEN [pc |-> "upsert", seat |-> task[r].seat, at |-> task[r].at]
             ELSE Idle)
  /\ UNCHANGED tables /\ UNCHANGED history

\* The column is set to whatever is marked.
Overwritten(old, at) == at

\* GREATEST, or the value of a new row.
Raised(old, at) == IF old < at THEN at ELSE old

\* UpsertMonotonic: one statement.
UpsertMonotonic(r) ==
  /\ task[r].pc = "upsert"
  /\ LET s == task[r].seat
     IN  /\ readState' = [readState EXCEPT ![s] = Raised(@, task[r].at)]
         /\ orphans' = IF IsMember(s) THEN orphans ELSE orphans \cup {s}
  /\ Goto(r, Idle)
  /\ UNCHANGED <<groups, role, posts, links, used, admitted, uncounted, headless>>

\* A statement of a read mark fails.
MarkFails(r) ==
  /\ task[r].pc \in {"check", "upsert"}
  /\ DBFails
  /\ Goto(r, Idle)
  /\ UNCHANGED tables /\ UNCHANGED history

-----------------------------------------------------------------------------
\* The requests that have one more step to take: to count a user a link has
\* let in, or to delete a read state.
Counting(l) == {r \in Requests : /\ task[r].pc \in {"ensure", "count"}
                                 /\ task[r].link = l}
Forgetting(s) == {r \in Requests : task[r].pc = "forget" /\ task[r].seat = s}

\* The requests that have created a group and have yet to add its admin.
Founding(g) == {r \in Requests : /\ task[r].pc = "add" /\ task[r].as = "admin"
                                 /\ task[r].seat[1] = g}

\* The process dies: the tables are what is left.
Crash ==
  /\ task' = [r \in Requests |-> Idle]
  /\ uncounted' = [l \in Links |-> uncounted[l] + Cardinality(Counting(l))]
  /\ orphans' = orphans \cup {s \in Seats : ~IsMember(s) /\ Forgetting(s) # {}}
  /\ headless' = headless \cup {g \in Groups : Founding(g) # {}}
  /\ UNCHANGED tables /\ UNCHANGED admitted

Step(r) ==
  \/ \E s \in Seats : \/ CreateGroup(r, s) \/ JoinGroup(r, s) \/ LeaveGroup(r, s)
                      \/ CreateInviteLink(r, s)
                      \/ \E id \in Position : MarkRead(r, s, id)
  \/ \E u \in Users, l \in Links : JoinGroupByInvite(r, u, l)
  \/ \E l \in Links : InsertLink(r, l)
  \/ InsertLinkFails(r) \/ CheckInvited(r)
  \/ AddMember(r) \/ AddMemberFails(r) \/ EnsureReadState(r) \/ EnsureFails(r)
  \/ IncrementUse(r) \/ IncrementUseFails(r)
  \/ ForgetReadState(r) \/ ForgetFails(r)
  \/ CheckMark(r) \/ UpsertMonotonic(r) \/ MarkFails(r)

Next == \/ \E r \in Requests : Step(r)
        \/ \E g \in Groups \cup {Direct} : Post(g)
        \/ Crash

Spec == Init /\ [][Next]_vars

-----------------------------------------------------------------------------
(***************************************************************************)
(* Properties.                                                             *)
(***************************************************************************)

\* Whoever a link has let in is counted, by the link or by a request that is
\* about to, unless the count failed or the process died; somebody who was
\* added twice at once is counted once (group_service.go:276-286).
InviteAccounted ==
  \A l \in Links : admitted[l] = used[l] + uncounted[l] + Cardinality(Counting(l))

\* The requests a link has been found good for.
Passed(l) == {r \in Requests : /\ task[r].pc \in {"invited", "add", "ensure", "count"}
                               /\ task[r].link = l}

\* The check of a single-use link and its count are statements apart.  It may
\* let in more than one, but only requests that overlapped: once it has been
\* used, nobody new gets past the check, and with the uses and those who are
\* past it there are no more than the requests handled at once
\* (group_service.go:262-286).
OverlapOnly ==
  \A l \in SingleUse :
    used[l] >= 1 => used[l] + Cardinality(Passed(l)) <= Cardinality(Requests)

\* A read position is that of a message of the group, through any order of
\* marks, messages, departures and returns (message_handler.go:592-612,
\* messages.go:350-371).
ReadGrounded ==
  \A s \in Seats : readState[s] \in {NoRow, 0} \cup IdsOf(s[1])

\* Who is not a member has no read state, except while a request is leaving,
\* and in the named cases: a mark or a join that overtook the departure wrote
\* one, or it could not be deleted (group_service.go:137-145).
OrphansNamed ==
  \A s \in Seats : (readState[s] # NoRow /\ ~IsMember(s))
                     => s \in orphans \/ Forgetting(s) # {}

\* GetReadState: a missing row is position zero.
Shown(s) == IF readState[s] = NoRow THEN 0 ELSE readState[s]

\* Whatever marks are under way at once, only a request that leaves the group
\* takes a position back (group_read_state_repository.go:28-36).
OnlyLeavingForgets ==
  [][\A s \in Seats : Shown(s)' < Shown(s) => Forgetting(s)' # Forgetting(s)]_vars

Admins(g) == {u \in Users : role[<<g, u>>] = "admin"}

\* A group has one admin, who is the last it ever has, or one request that is
\* about to add the admin.  It has none, and never gets one again, exactly in
\* the named cases: adding the admin failed, which leaves the group behind; the
\* creator joined the new group from elsewhere and is only a member; the
\* process died in between; or the admin left (group_service.go:71-77).
AdminNamed ==
  /\ headless \subseteq groups
  /\ \A g \in Groups :
       IF g \in groups \ headless
       THEN \/ Founding(g) = {} /\ \E u \in Users : Admins(g) = {u}
            \/ Admins(g) = {} /\ \E r \in Requests : Founding(g) = {r}
       ELSE Founding(g) = {} /\ Admins(g) = {}

-----------------------------------------------------------------------------
(***************************************************************************)
(* What documents say, and the code does not do.                           *)
(***************************************************************************)

\* "Monotonic (never decreases)" (BACKEND_API.md:401): the position of a user
\* who stays a member.
ReadMonotonic ==
  [][\A s \in Seats : (IsMember(s) /\ IsMember(s)') => Shown(s)' >= Shown(s)]_vars

=============================================================================
