--------------------------- MODULE HistoryProofs ---------------------------
(***************************************************************************)
(* Proofs about History, for every number of users, messages and requests, *)
(* all limits and all workloads: the operators that select messages, type  *)
(* correctness, and what the entries of the cache lack.                    *)
(***************************************************************************)
EXTENDS History, FiniteSetTheorems, WellFoundedInduction, TLAPS

-----------------------------------------------------------------------------
(***************************************************************************)
(* What Least, Latest, Newest and Oldest select.                           *)
(***************************************************************************)

LEMMA IdNumbers ==
  /\ MaxMessages \in Nat
  /\ \A i \in Ids : i \in Nat /\ 1 <= i /\ i <= MaxMessages
  BY HistoryAssumption DEF Ids

LEMMA IdsFinite ==
  ASSUME NEW S \in SUBSET Ids
  PROVE  IsFiniteSet(S) /\ Cardinality(S) \in Nat
<1>1. IsFiniteSet(Ids)
  BY FS_Interval, HistoryAssumption DEF Ids
<1>2. QED
  BY <1>1, FS_Subset, FS_CardinalityType

LEMMA LeastExists ==
  ASSUME NEW S \in SUBSET Nat, S # {}
  PROVE  \E i \in S : \A j \in S : i <= j
<1> DEFINE R == OpToRel(<, Nat)
<1>1. PICK i \in S : \A j \in S : ~ (<<j, i>> \in R)
  <2>1. IsWellFoundedOn(R, Nat)
    BY NatLessThanWellFounded
  <2> HIDE DEF R
  <2>2. QED
    BY <2>1, WFMin
<1>2. \A j \in S : ~ (j < i)
  BY <1>1 DEF OpToRel
<1>3. QED
  BY <1>2

LEMMA LatestExists ==
  ASSUME NEW S \in SUBSET Ids, S # {}
  PROVE  \E i \in S : \A j \in S : j <= i
<1> DEFINE D == {MaxMessages - i : i \in S}
<1>1. D \in SUBSET Nat /\ D # {}
  BY IdNumbers
<1>2. PICK d \in D : \A e \in D : d <= e
  BY <1>1, LeastExists
<1>3. PICK i \in S : d = MaxMessages - i
  OBVIOUS
<1>4. \A j \in S : MaxMessages - i <= MaxMessages - j
  BY <1>2, <1>3
<1>5. QED
  BY <1>4, IdNumbers

LEMMA LeastMember ==
  ASSUME NEW S \in SUBSET Ids, S # {}
  PROVE  Least(S) \in S /\ \A j \in S : Least(S) <= j
<1>1. S \in SUBSET Nat
  BY IdNumbers
<1>2. QED
  BY <1>1, LeastExists DEF Least

LEMMA LatestMember ==
  ASSUME NEW S \in SUBSET Ids, S # {}
  PROVE  Latest(S) \in S /\ \A j \in S : j <= Latest(S)
  BY LatestExists DEF Latest

\* The newest n are closed upwards, and are all there are or at least n.
LEMMA NewestCut ==
  ASSUME NEW S \in SUBSET Ids, NEW n \in Nat
  PROVE  /\ Newest(S, n) \subseteq S
         /\ \A i \in S, j \in Newest(S, n) : j <= i => i \in Newest(S, n)
         /\ \A i \in S \ Newest(S, n) : Cardinality(Newest(S, n)) >= n
         /\ n # 0 /\ S # {} => Newest(S, n) # {}
<1> DEFINE Above(i) == {j \in S : j > i}
<1>1. \A i \in S : Above(i) \in SUBSET Ids /\ Cardinality(Above(i)) \in Nat
  <2> TAKE i \in S
  <2>1. Above(i) \in SUBSET Ids
    OBVIOUS
  <2>2. QED
    BY <2>1, IdsFinite
<1>2. Newest(S, n) = {i \in S : Cardinality(Above(i)) < n}
  BY DEF Newest
<1>3. \A i, j \in S : j <= i => Cardinality(Above(i)) <= Cardinality(Above(j))
  <2> SUFFICES ASSUME NEW i \in S, NEW j \in S, j <= i
               PROVE  Cardinality(Above(i)) <= Cardinality(Above(j))
    OBVIOUS
  <2>1. Above(i) \in SUBSET Above(j)
    BY IdNumbers
  <2>2. IsFiniteSet(Above(j))
    BY <1>1, IdsFinite
  <2> HIDE DEF Above
  <2>3. QED
    BY <2>1, <2>2, FS_Subset
<1>4. \A i \in S, j \in Newest(S, n) : j <= i => i \in Newest(S, n)
  <2> SUFFICES ASSUME NEW i \in S, NEW j \in Newest(S, n), j <= i
               PROVE  i \in Newest(S, n)
    OBVIOUS
  <2>1. j \in S /\ Cardinality(Above(j)) < n
    BY <1>2
  <2>2. /\ Cardinality(Above(i)) <= Cardinality(Above(j))
        /\ Cardinality(Above(i)) \in Nat /\ Cardinality(Above(j)) \in Nat
    BY <1>1, <1>3, <2>1
  <2> HIDE DEF Above
  <2>3. QED
    BY <1>2, <2>1, <2>2
<1>5. ASSUME NEW k \in S \ Newest(S, n) PROVE Cardinality(Newest(S, n)) >= n
  <2> DEFINE others == S \ Newest(S, n)
  <2>1. others \in SUBSET Ids /\ others # {}
    BY <1>5
  <2>2. PICK i \in others : \A j \in others : j <= i
    BY <2>1, LatestExists
  <2>3. Above(i) \in SUBSET Newest(S, n)
    BY <2>2, IdNumbers
  <2>4. Cardinality(Above(i)) >= n
    BY <1>1, <1>2, <2>2
  <2>5. IsFiniteSet(Newest(S, n)) /\ Cardinality(Newest(S, n)) \in Nat
    <3>1. Newest(S, n) \in SUBSET Ids
      BY <1>2
    <3>2. QED
      BY <3>1, IdsFinite
  <2>6. Cardinality(Above(i)) <= Cardinality(Newest(S, n)) /\ Cardinality(Above(i)) \in Nat
    <3> HIDE DEF Above
    <3>1. QED
      BY <1>1, <2>2, <2>3, <2>5, FS_Subset
  <2> HIDE DEF Above
  <2>7. QED
    BY <2>4, <2>5, <2>6
<1>6. ASSUME n # 0, S # {} PROVE Newest(S, n) # {}
  <2>1. PICK i \in S : \A j \in S : j <= i
    BY <1>6, LatestExists
  <2>2. Above(i) = {}
    BY <2>1, IdNumbers
  <2>3. Cardinality(Above(i)) = 0
    BY <2>2, FS_EmptySet
  <2> HIDE DEF Above
  <2>4. QED
    BY <1>2, <1>6, <2>3
<1>7. QED
  BY <1>2, <1>4, <1>5, <1>6

\* The newest n are at most n.
LEMMA NewestAtMost ==
  ASSUME NEW S \in SUBSET Ids, NEW n \in Nat
  PROVE  Cardinality(Newest(S, n)) <= n
<1> DEFINE Above(i) == {j \in S : j > i}
           N == Newest(S, n)
<1> SUFFICES Cardinality(N) <= n
  OBVIOUS
<1>1. N \in SUBSET Ids /\ N \subseteq S
  BY DEF Newest
<1>2. IsFiniteSet(N) /\ Cardinality(N) \in Nat
  <2> HIDE DEF N
  <2>1. QED
    BY <1>1, IdsFinite
<1>3. CASE N = {}
  <2> HIDE DEF N
  <2>1. QED
    BY <1>3, FS_EmptySet
<1>4. CASE N # {}
  <2>1. N \in SUBSET Nat
    BY <1>1, IdNumbers
  <2>2. PICK m \in N : \A j \in N : m <= j
    <3> HIDE DEF N
    <3>1. QED
      BY <1>4, <2>1, LeastExists
  <2>3. m \in S /\ Cardinality(Above(m)) < n
    BY DEF Newest
  <2>4. IsFiniteSet(Above(m)) /\ Cardinality(Above(m)) \in Nat
    <3>1. Above(m) \in SUBSET Ids
      OBVIOUS
    <3> HIDE DEF Above
    <3>2. QED
      BY <3>1, IdsFinite
  <2>5. N \ {m} \in SUBSET Above(m)
    BY <1>1, <2>1, <2>2
  <2> HIDE DEF Above, N
  <2>6. Cardinality(N \ {m}) <= Cardinality(Above(m))
    BY <2>4, <2>5, FS_Subset
  <2>7. Cardinality(N \ {m}) = Cardinality(N) - 1
    BY <1>2, <2>2, FS_RemoveElement
  <2>8. QED
    BY <1>2, <2>3, <2>4, <2>6, <2>7
<1>5. QED
  BY <1>3, <1>4

\* The oldest n are closed downwards, at most n, and all there are if fewer.
LEMMA OldestCut ==
  ASSUME NEW S \in SUBSET Ids, NEW n \in Nat
  PROVE  /\ Oldest(S, n) \subseteq S
         /\ \A i \in S, j \in Oldest(S, n) : i <= j => i \in Oldest(S, n)
         /\ \A i \in S \ Oldest(S, n) : Cardinality(Oldest(S, n)) >= n
         /\ Cardinality(Oldest(S, n)) \in Nat /\ Cardinality(Oldest(S, n)) <= n
<1> DEFINE Under(i) == {j \in S : j < i}
           O == Oldest(S, n)
<1>1. \A i \in S : IsFiniteSet(Under(i)) /\ Cardinality(Under(i)) \in Nat
  <2> TAKE i \in S
  <2>1. Under(i) \in SUBSET Ids
    OBVIOUS
  <2>2. QED
    BY <2>1, IdsFinite
<1>2. O = {i \in S : Cardinality(Under(i)) < n}
  BY DEF Oldest
<1>3. O \in SUBSET Ids /\ O \subseteq S /\ IsFiniteSet(O) /\ Cardinality(O) \in Nat
  <2>1. O \in SUBSET Ids /\ O \subseteq S
    BY <1>2
  <2> HIDE DEF O
  <2>2. QED
    BY <2>1, IdsFinite
<1>4. ASSUME NEW i \in S, NEW j \in O, i <= j PROVE i \in O
  <2>1. j \in S /\ Cardinality(Under(j)) < n
    BY <1>2
  <2>2. Under(i) \in SUBSET Under(j)
    BY <1>4, <2>1, IdNumbers
  <2>3. /\ Cardinality(Under(i)) \in Nat /\ Cardinality(Under(j)) \in Nat
        /\ IsFiniteSet(Under(j))
    BY <1>1, <2>1
  <2> HIDE DEF Under
  <2>4. Cardinality(Under(i)) <= Cardinality(Under(j))
    BY <2>2, <2>3, FS_Subset
  <2> HIDE DEF O
  <2>5. QED
    BY <1>2, <2>1, <2>3, <2>4
<1>5. ASSUME NEW k \in S \ O PROVE Cardinality(O) >= n
  <2> DEFINE others == S \ O
  <2>1. others \in SUBSET Nat /\ others # {}
    BY <1>5, IdNumbers
  <2>2. PICK i \in others : \A j \in others : i <= j
    BY <2>1, LeastExists
  <2>3. Under(i) \in SUBSET O
    BY <2>2, IdNumbers
  <2>4. Cardinality(Under(i)) >= n /\ Cardinality(Under(i)) \in Nat
    BY <1>1, <1>2, <2>2
  <2> HIDE DEF Under, O
  <2>5. Cardinality(Under(i)) <= Cardinality(O)
    BY <1>3, <2>3, FS_Subset
  <2>6. QED
    BY <1>3, <2>4, <2>5
<1>6. Cardinality(O) <= n
  <2>1. CASE O = {}
    <3> HIDE DEF O
    <3>1. QED
      BY <2>1, FS_EmptySet
  <2>2. CASE O # {}
    <3>1. PICK m \in O : \A j \in O : j <= m
      <4> HIDE DEF O
      <4>1. QED
        BY <1>3, <2>2, LatestExists
    <3>2. m \in S /\ Cardinality(Under(m)) < n /\ IsFiniteSet(Under(m))
          /\ Cardinality(Under(m)) \in Nat
      BY <1>1, <1>2
    <3>3. O \ {m} \in SUBSET Under(m)
      BY <1>3, <3>1, IdNumbers
    <3> HIDE DEF Under, O
    <3>4. Cardinality(O \ {m}) <= Cardinality(Under(m))
      BY <3>2, <3>3, FS_Subset
    <3>5. Cardinality(O \ {m}) = Cardinality(O) - 1
      BY <1>3, <3>1, FS_RemoveElement
    <3>6. QED
      BY <1>3, <3>2, <3>4, <3>5
  <2>3. QED
    BY <2>1, <2>2
<1>7. QED
  BY <1>3, <1>4, <1>5, <1>6

-----------------------------------------------------------------------------
(***************************************************************************)
(* Type correctness.                                                       *)
(***************************************************************************)

LEMMA TaskFields ==
  ASSUME NEW t \in Tasks
  PROVE  /\ t.pc \in {"idle", "insert", "fetch", "store", "announce", "tell", "latest"}
         /\ t.pc = "idle" => t = Idle
         /\ t.pc = "insert" => t.id \in Ids /\ t.from \in Users /\ t.rest \in BOOLEAN
         /\ t.pc = "fetch" => /\ t.key \in Keys /\ t.limit \in Nat
                              /\ t.key = Conv => t.limit <= PageCap
         /\ t.pc = "store" => /\ t.key \in Keys /\ t.limit \in Nat
                              /\ t.facts \in SUBSET Facts /\ t.since \in SUBSET Facts
         /\ t.pc = "announce" => t.from \in Users
         /\ t.pc \in {"announce", "tell", "latest"}
              => t.facts \in SUBSET Facts /\ t.keys \in SUBSET Keys
         /\ t.pc = "tell" => t.id \in Ids /\ t.by \in Users
         /\ t.pc = "latest" => t.by \in Users /\ t.since \in SUBSET Facts
  BY HistoryAssumption DEF Tasks, Idle, Keys

LEMMA TaskMaking ==
  /\ Idle \in Tasks
  /\ \A u \in Users :
       /\ \A i \in Ids, b \in BOOLEAN :
            [pc |-> "insert", id |-> i, from |-> u, rest |-> b] \in Tasks
       /\ \A F \in SUBSET Facts, K \in SUBSET Keys :
            /\ [pc |-> "announce", from |-> u, facts |-> F, keys |-> K] \in Tasks
            /\ Announce(u, F, K) \in Tasks
            /\ \A i \in Ids :
                 [pc |-> "tell", id |-> i, by |-> u, facts |-> F, keys |-> K] \in Tasks
            /\ \A G \in SUBSET Facts :
                 [pc |-> "latest", by |-> u, since |-> G, facts |-> F, keys |-> K]
                   \in Tasks
  /\ \A n \in 1 .. PageCap : [pc |-> "fetch", key |-> Conv, limit |-> n] \in Tasks
  /\ \A u \in Users, n \in Nat : [pc |-> "fetch", key |-> u, limit |-> n] \in Tasks
  /\ \A k \in Keys, n \in Nat, F, G \in SUBSET Facts :
       [pc |-> "store", key |-> k, limit |-> n, facts |-> F, since |-> G] \in Tasks
  BY DEF Tasks, Idle, Announce

LEMMA OutdatedTyped ==
  ASSUME NEW t \in Tasks, NEW F \in SUBSET Facts
  PROVE  Outdated(t, F) \in Tasks
<1>1. CASE t.pc = "store"
  <2>1. Outdated(t, F) = [pc |-> "store", key |-> t.key, limit |-> t.limit,
                          facts |-> t.facts, since |-> t.since \cup F]
    BY <1>1 DEF Outdated, Tasks, Idle
  <2>2. /\ t.key \in Keys /\ t.limit \in Nat
        /\ t.facts \in SUBSET Facts /\ t.since \cup F \in SUBSET Facts
    BY <1>1, TaskFields
  <2>3. QED
    BY <2>1, <2>2, TaskMaking
<1>2. CASE t.pc = "latest"
  <2>1. Outdated(t, F) = [pc |-> "latest", by |-> t.by, since |-> t.since \cup F,
                          facts |-> t.facts, keys |-> t.keys]
    BY <1>2 DEF Outdated, Tasks, Idle
  <2>2. /\ t.by \in Users /\ t.since \cup F \in SUBSET Facts
        /\ t.facts \in SUBSET Facts /\ t.keys \in SUBSET Keys
    BY <1>2, TaskFields
  <2>3. QED
    BY <2>1, <2>2, TaskMaking
<1>3. QED
  BY <1>1, <1>2 DEF Outdated

LEMMA ExcusedTyped ==
  ASSUME TypeOK, NEW F \in SUBSET Facts, NEW K
  PROVE  Excused(F, K) \in [Keys -> Entries \cup {None}]
<1> SUFFICES ASSUME NEW k \in Keys
             PROVE  (IF k \in K /\ entry[k] # None
                     THEN [entry[k] EXCEPT !.excused = @ \cup F] ELSE entry[k])
                      \in Entries \cup {None}
  BY DEF Excused
<1>1. entry[k] \in Entries \cup {None}
  BY DEF TypeOK
<1>2. QED
  BY <1>1 DEF Entries

LEMMA SentTyped ==
  ASSUME NEW S \in SUBSET Ids
  PROVE  Sent(S) \in SUBSET Facts
  BY DEF Sent, Facts

LEMMA MessagesTyped ==
  ASSUME NEW S \in SUBSET Ids
  PROVE  Messages(S) \in SUBSET Facts /\ IdsIn(Messages(S)) = S
  BY DEF Messages, Facts, IdsIn

LEMMA NewsTyped ==
  ASSUME NEW i \in Ids, NEW m
  PROVE  News(i, m) \in SUBSET Facts
  BY DEF News, FlagsOf, Facts

LEMMA VisibleIds == Visible \in SUBSET Ids
  BY DEF Visible

LEMMA PendingTyped ==
  ASSUME TypeOK, NEW k
  PROVE  Pending(k) \in SUBSET Facts
  BY TaskFields DEF TypeOK, Pending

LEMMA NowTyped ==
  ASSUME TypeOK, NEW k \in Keys
  PROVE  Now(k) \in SUBSET Facts
<1>1. Messages(Visible) \in SUBSET Facts
  BY VisibleIds, MessagesTyped
<1>2. k # Conv => {k} \X (1 .. position[k]) \in SUBSET Facts
  <2>1. ASSUME k # Conv PROVE 1 .. position[k] \subseteq Ids
    BY <2>1, HistoryAssumption DEF Keys, TypeOK, Ids
  <2>2. QED
    BY <2>1 DEF Keys, Facts
<1>3. QED
  BY <1>1, <1>2 DEF Now

LEMMA LimitsTyped ==
  ASSUME NEW n \in Limits
  PROVE  /\ PageLimit(n) \in Nat \ {0} /\ PageLimit(n) <= PageCap
         /\ AskedLimit(n) \in Nat \ {0}
         /\ \A m \in Nat \ {0} : SyncLimit(m) \in Nat \ {0} /\ SyncLimit(m) <= PageCap
         /\ SyncLimit(PageCap) \in Nat \ {0}
<1>1. /\ n \in Int /\ DefaultLimit \in Nat \ {0} /\ PageCap \in Nat \ {0}
      /\ DefaultLimit <= PageCap
  BY HistoryAssumption
<1>2. QED
  BY <1>1 DEF PageLimit, AskedLimit, SyncLimit

LEMMA AnswerTyped ==
  ASSUME NEW S \in SUBSET Ids, S # {}, NEW L \in SUBSET Ids
  PROVE  Answer(S, L) \in Pages
  BY LeastMember, LatestMember DEF Answer, Pages

\* A step that makes facts true keeps the types of entries and tasks.
LEMMA HappensTyped ==
  ASSUME TypeOK, NEW r \in Requests, NEW F \in SUBSET Facts, NEW K, NEW t \in Tasks,
         Happens(r, F, K, t)
  PROVE  /\ entry' \in [Keys -> Entries \cup {None}]
         /\ task' \in [Requests -> Tasks]
<1>1. task' \in [Requests -> Tasks]
  BY OutdatedTyped DEF Happens, TypeOK
<1>2. QED
  BY <1>1, ExcusedTyped DEF Happens

LEMMA GivesUpTyped ==
  ASSUME TypeOK, NEW r \in Requests, NEW K, NEW t \in Tasks,
         task[r].pc \in {"announce", "tell", "latest"}, GivesUp(r, K, t)
  PROVE  /\ entry' \in [Keys -> Entries \cup {None}]
         /\ task' \in [Requests -> Tasks]
<1>1. task[r].facts \in SUBSET Facts
  BY TaskFields DEF TypeOK
<1>2. QED
  BY <1>1, ExcusedTyped DEF GivesUp, Goto, TypeOK

LEMMA InitTyped == Init => TypeOK
<1> SUFFICES ASSUME Init PROVE TypeOK
  OBVIOUS
<1>1. PageCap \in Nat /\ MaxMessages \in Nat
  BY HistoryAssumption
<1>2. sync \in Syncs
  BY <1>1 DEF Init, Syncs
<1>3. QED
  BY <1>1, <1>2, TaskMaking DEF Init, TypeOK

\* Requests that send, and their invalidations.
LEMMA SendTyped ==
  ASSUME TypeOK, NEW r \in Requests,
         \/ \E u \in Users, rest \in BOOLEAN : Send(r, u, rest)
         \/ Insert(r) \/ InsertFails(r) \/ ReloadFails(r) \/ MembersFail(r)
         \/ \E k \in Keys : Invalidate(r, k) \/ InvalidateFails(r, k)
  PROVE  TypeOK'
<1> USE DEF TypeOK, clients
<1>1. ASSUME NEW u \in Users, NEW rest \in BOOLEAN, Send(r, u, rest) PROVE TypeOK'
  <2>1. taken + 1 \in Ids /\ taken' \in 0 .. MaxMessages
    <3>1. load.messages \in 0 .. MaxMessages /\ MaxMessages \in Nat
      BY HistoryAssumption
    <3>2. QED
      BY <1>1, <3>1 DEF Send, Ids
  <2>2. [pc |-> "insert", id |-> taken + 1, from |-> u, rest |-> rest] \in Tasks
    BY <2>1, TaskMaking
  <2>3. QED
    BY <1>1, <2>1, <2>2 DEF Send, Goto
<1>2. CASE Insert(r)
  <2> DEFINE m == task[r]
             t == Announce(m.from, Sent({m.id}), KeysOf(m))
  <2>1. m.id \in Ids /\ m.from \in Users /\ m.rest \in BOOLEAN
    BY <1>2, TaskFields DEF Insert
  <2>2. KeysOf(m) \in SUBSET Keys /\ Sent({m.id}) \in SUBSET Facts
    BY <2>1, SentTyped DEF KeysOf, Keys, Recipients
  <2>3. t \in Tasks
    BY <2>1, <2>2, TaskMaking
  <2>4. entry' \in [Keys -> Entries \cup {None}] /\ task' \in [Requests -> Tasks]
    <3>1. Happens(r, Sent({m.id}), Forgone(m), t)
      BY <1>2 DEF Insert
    <3> HIDE DEF t, m
    <3>2. QED
      BY <2>2, <2>3, <3>1, HappensTyped
  <2>5. rows' \in [Ids -> Rows \cup {None}]
    <3>1. NewRow(m) \in Rows
      BY <2>1 DEF NewRow, Rows
    <3>2. rows' = [rows EXCEPT ![m.id] = NewRow(m)]
      BY <1>2 DEF Insert
    <3>3. QED
      BY <3>1, <3>2
  <2>6. page' \in Pages \cup {None} /\ sync' \in Syncs
    <3>1. Appears(m.id)
      BY <1>2 DEF Insert
    <3>2. page' \in Pages \cup {None}
      BY <2>1, <3>1 DEF Appears, Pages
    <3>3. sync' \in Syncs
      BY <2>1, <3>1 DEF Appears, Syncs
    <3>4. QED
      BY <3>2, <3>3
  <2>7. QED
    BY <1>2, <2>4, <2>5, <2>6 DEF Insert
<1>3. CASE InsertFails(r)
  BY <1>3, TaskMaking DEF InsertFails, Goto
<1>4. CASE ReloadFails(r)
  <2>1. entry' \in [Keys -> Entries \cup {None}] /\ task' \in [Requests -> Tasks]
    BY <1>4, GivesUpTyped, TaskMaking DEF ReloadFails
  <2>2. QED
    BY <1>4, <2>1 DEF ReloadFails
<1>5. ASSUME NEW K \in SUBSET Keys, task[r].pc = "announce" PROVE Rest(r, K) \in Tasks
  BY <1>5, TaskFields, TaskMaking DEF Rest
<1>6. task[r].pc = "announce" => task[r].keys \in SUBSET Keys
  BY TaskFields
<1>7. CASE MembersFail(r)
  <2> DEFINE own == task[r].keys \cap {task[r].from}
  <2>1. GivesUp(r, own, Rest(r, own)) /\ task[r].pc = "announce"
    BY <1>7 DEF MembersFail
  <2>2. Rest(r, own) \in Tasks
    BY <1>5, <1>6, <2>1
  <2>3. entry' \in [Keys -> Entries \cup {None}] /\ task' \in [Requests -> Tasks]
    BY <2>1, <2>2, GivesUpTyped
  <2>4. QED
    BY <1>7, <2>3 DEF MembersFail
<1>8. ASSUME NEW k \in Keys, Invalidate(r, k) PROVE TypeOK'
  <2>1. Rest(r, task[r].keys \ {k}) \in Tasks
    BY <1>5, <1>6, <1>8 DEF Invalidate, Due
  <2>2. QED
    BY <1>8, <2>1 DEF Invalidate, Goto
<1>9. ASSUME NEW k \in Keys, InvalidateFails(r, k) PROVE TypeOK'
  <2>1. Rest(r, task[r].keys \ {k}) \in Tasks /\ task[r].pc = "announce"
    BY <1>5, <1>6, <1>9 DEF InvalidateFails, Due
  <2>2. entry' \in [Keys -> Entries \cup {None}] /\ task' \in [Requests -> Tasks]
    BY <1>9, <2>1, GivesUpTyped DEF InvalidateFails
  <2>3. QED
    BY <1>9, <2>2 DEF InvalidateFails
<1>10. QED
  BY <1>1, <1>2, <1>3, <1>4, <1>7, <1>8, <1>9

\* What receipts make of a row.
LEMMA RowsTyped ==
  ASSUME NEW m \in Rows
  PROVE  /\ DeliveredRow(m) \in Rows /\ ReadRow(m) \in Rows
         /\ DeliveredRow(m).from = m.from /\ ReadRow(m).from = m.from
         /\ DeliveredRow(m).read = m.read /\ ReadRow(m).read
  BY DEF Rows, DeliveredRow, ReadRow

LEMMA VisibleRows ==
  ASSUME TypeOK, NEW i \in Visible
  PROVE  i \in Ids /\ rows[i] \in Rows
  BY DEF TypeOK, Visible

LEMMA ReceiptTyped ==
  ASSUME TypeOK, NEW r \in Requests,
         \/ \E u \in Users, i \in Ids : AckRead(r, u, i)
         \/ \E u \in Users : ReadAll(r, u)
         \/ \E u \in Users, p \in 0 .. MaxMessages : MarkGroup(r, u, p)
         \/ Tell(r) \/ TellFails(r) \/ TellLatest(r) \/ NoLatest(r)
  PROVE  TypeOK'
<1> USE DEF TypeOK, clients
<1>1. ASSUME NEW u \in Users, NEW i \in Ids, AckRead(r, u, i) PROVE TypeOK'
  <2> DEFINE from == rows[i].from
             F == News(i, ReadRow(rows[i]))
             t == [pc |-> "tell", id |-> i, by |-> u, facts |-> F, keys |-> {from}]
  <2>1. i \in Visible /\ rows[i] \in Rows
    BY <1>1, VisibleRows DEF AckRead
  <2>2. from \in Users /\ ReadRow(rows[i]) \in Rows
    BY <2>1, RowsTyped DEF Rows
  <2>3. F \in SUBSET Facts /\ t \in Tasks /\ Idle \in Tasks
    <3>1. F \in SUBSET Facts
      BY NewsTyped
    <3> HIDE DEF F
    <3>2. QED
      BY <2>2, <3>1, TaskMaking DEF Keys
  <2>4. \/ Happens(r, F, Keys, Idle)
        \/ Happens(r, F, Keys \ {from}, t)
    BY <1>1 DEF AckRead
  <2>5. entry' \in [Keys -> Entries \cup {None}] /\ task' \in [Requests -> Tasks]
    <3> HIDE DEF t, from, F
    <3>1. QED
      BY <2>3, <2>4, HappensTyped
  <2>6. rows' \in [Ids -> Rows \cup {None}]
    BY <1>1, <2>2 DEF AckRead
  <2>7. QED
    BY <1>1, <2>5, <2>6 DEF AckRead
<1>2. ASSUME NEW u \in Users, ReadAll(r, u) PROVE TypeOK'
  <2> DEFINE marked == {i \in {j \in Visible : rows[j].from # u} : ToMark(rows[i])}
             F == UNION {News(i, ReadRow(rows[i])) : i \in marked}
             t == [pc |-> "latest", by |-> u, since |-> {}, facts |-> F, keys |-> Users]
  <2>1. marked \in SUBSET Ids
    BY DEF Visible
  <2>2. F \in SUBSET Facts /\ t \in Tasks
    <3>1. F \in SUBSET Facts
      BY <2>1, NewsTyped
    <3> HIDE DEF F
    <3>2. QED
      BY <3>1, TaskMaking DEF Keys
  <2>3. Happens(r, F, {Conv}, t)
    BY <1>2 DEF ReadAll
  <2>4. entry' \in [Keys -> Entries \cup {None}] /\ task' \in [Requests -> Tasks]
    <3> HIDE DEF F, marked, t
    <3>1. QED
      BY <2>2, <2>3, HappensTyped
  <2>5. rows' \in [Ids -> Rows \cup {None}]
    <3>1. \A i \in marked : ReadRow(rows[i]) \in Rows
      BY VisibleRows, RowsTyped
    <3>2. rows' = [i \in Ids |-> IF i \in marked THEN ReadRow(rows[i]) ELSE rows[i]]
      BY <1>2 DEF ReadAll
    <3> HIDE DEF marked
    <3>3. QED
      BY <3>1, <3>2
  <2>6. QED
    BY <1>2, <2>4, <2>5 DEF ReadAll
<1>3. CASE Tell(r)
  <2>1. task[r].by \in Users /\ task[r].id \in Ids
        /\ task[r].facts \in SUBSET Facts /\ task[r].keys \in SUBSET Keys
    BY <1>3, TaskFields DEF Tell
  <2>2. Announce(task[r].by, task[r].facts, task[r].keys) \in Tasks
    BY <2>1, TaskMaking
  <2>3. told' \in Updates
    BY <1>3, <2>1 DEF Tell, Updates
  <2>4. QED
    BY <1>3, <2>2, <2>3 DEF Tell, Goto
<1>4. CASE TellFails(r)
  <2>1. entry' \in [Keys -> Entries \cup {None}] /\ task' \in [Requests -> Tasks]
    BY <1>4, GivesUpTyped, TaskMaking DEF TellFails
  <2>2. QED
    BY <1>4, <2>1 DEF TellFails
<1>5. CASE TellLatest(r)
  <2>1. task[r].by \in Users /\ task[r].since \in SUBSET Facts
        /\ task[r].facts \in SUBSET Facts /\ task[r].keys \in SUBSET Keys
    BY <1>5, TaskFields DEF TellLatest
  <2>2. Announce(task[r].by, task[r].facts, task[r].keys) \in Tasks
    BY <2>1, TaskMaking
  <2>3. Latest(Visible) \in Ids
    BY <1>5, VisibleIds, LatestMember DEF TellLatest
  <2>4. told' \in Updates
    BY <1>5, <2>1, <2>3 DEF TellLatest, Updates
  <2>5. QED
    BY <1>5, <2>2, <2>4 DEF TellLatest, Goto
<1>6. CASE NoLatest(r)
  <2> DEFINE own == {task[r].by}
             t == Announce(task[r].by, task[r].facts, own)
  <2>1. task[r].by \in Users /\ task[r].facts \in SUBSET Facts /\ task[r].pc = "latest"
    BY <1>6, TaskFields DEF NoLatest
  <2>2. t \in Tasks
    BY <2>1, TaskMaking DEF Keys
  <2>3. GivesUp(r, own, t)
    BY <1>6 DEF NoLatest
  <2>4. entry' \in [Keys -> Entries \cup {None}] /\ task' \in [Requests -> Tasks]
    <3> HIDE DEF t, own
    <3>1. QED
      BY <2>1, <2>2, <2>3, GivesUpTyped
  <2>5. QED
    BY <1>6, <2>4 DEF NoLatest
<1>7. ASSUME NEW u \in Users, NEW p \in 0 .. MaxMessages, MarkGroup(r, u, p)
      PROVE  TypeOK'
  <2> DEFINE F == {u} \X (position[u] + 1 .. p)
             t == Announce(u, F, {u})
  <2>1. position[u] \in 0 .. MaxMessages /\ Further(p, position[u]) \in 0 .. MaxMessages
    BY DEF Further
  <2>2. position' \in [Users -> 0 .. MaxMessages]
    BY <1>7, <2>1 DEF MarkGroup
  <2>3. F \in SUBSET Facts
    BY <2>1, HistoryAssumption DEF Facts, Ids
  <2> HIDE DEF F
  <2>4. t \in Tasks
    BY <2>3, TaskMaking DEF Keys
  <2>5. Happens(r, F, {}, t)
    BY <1>7 DEF MarkGroup, F
  <2>6. entry' \in [Keys -> Entries \cup {None}] /\ task' \in [Requests -> Tasks]
    <3> HIDE DEF t
    <3>1. QED
      BY <2>3, <2>4, <2>5, HappensTyped
  <2>7. QED
    BY <1>7, <2>2, <2>6 DEF MarkGroup
<1>8. QED
  BY <1>1, <1>2, <1>3, <1>4, <1>5, <1>6, <1>7

LEMMA ReadTyped ==
  ASSUME TypeOK, NEW r \in Requests,
         \/ \E u \in Users : GetList(r, u)
         \/ \E n \in Limits : GetMissed(r, n)
         \/ FetchPage(r) \/ FetchList(r) \/ Store(r) \/ GetFails(r)
  PROVE  TypeOK'
<1> USE DEF TypeOK, clients
<1>1. ASSUME NEW u \in Users, GetList(r, u) PROVE TypeOK'
  <2>1. [pc |-> "fetch", key |-> u, limit |-> MaxMessages + 1] \in Tasks
    BY TaskMaking, IdNumbers DEF Keys
  <2>2. QED
    BY <1>1, <2>1 DEF GetList, Goto
<1>2. ASSUME NEW n \in Limits, GetMissed(r, n) PROVE TypeOK'
  <2>1. [pc |-> "fetch", key |-> Conv, limit |-> PageLimit(n)] \in Tasks
    <3>1. PageLimit(n) \in 1 .. PageCap
      BY LimitsTyped, HistoryAssumption
    <3>2. QED
      BY <3>1, TaskMaking
  <2>2. QED
    BY <1>2, <2>1 DEF GetMissed, Goto
<1>3. CASE FetchPage(r)
  <2> DEFINE ids == Newest(Visible, task[r].limit)
             t == [pc |-> "store", key |-> Conv, limit |-> task[r].limit,
                   facts |-> Messages(ids), since |-> {}]
  <2>1. task[r].limit \in Nat /\ Conv \in Keys
    BY <1>3, TaskFields DEF FetchPage, Keys
  <2>2. ids \in SUBSET Ids
    BY DEF Newest, Visible
  <2>3. t \in Tasks
    BY <2>1, <2>2, MessagesTyped, TaskMaking
  <2>4. ids # {} => Answer(ids, {}) \in Pages
    BY <2>2, AnswerTyped
  <2>5. CASE ids = {}
    BY <1>3, <2>5, TaskMaking DEF FetchPage, Goto
  <2>6. CASE ids # {}
    <3>1. page' = Answer(ids, {}) /\ Goto(r, t)
      BY <1>3, <2>6 DEF FetchPage
    <3> HIDE DEF ids, t
    <3>2. QED
      BY <1>3, <2>3, <2>4, <2>6, <3>1 DEF FetchPage, Goto
  <2>7. QED
    BY <2>5, <2>6
<1>4. CASE FetchList(r)
  <2>1. task[r].limit \in Nat /\ task[r].key \in Keys /\ Now(task[r].key) \in SUBSET Facts
    BY <1>4, TaskFields, NowTyped DEF FetchList
  <2>2. [pc |-> "store", key |-> task[r].key, limit |-> task[r].limit,
         facts |-> Now(task[r].key), since |-> {}] \in Tasks
    BY <2>1, TaskMaking
  <2>3. QED
    BY <1>4, <2>2 DEF FetchList, Goto
<1>5. CASE Store(r)
  <2>1. [facts |-> task[r].facts, limit |-> task[r].limit,
         excused |-> task[r].since] \in Entries
    BY <1>5, TaskFields DEF Store, Entries
  <2>2. QED
    BY <1>5, <2>1, TaskMaking DEF Store, Goto
<1>6. CASE GetFails(r)
  BY <1>6, TaskMaking DEF GetFails, Goto
<1>7. QED
  BY <1>1, <1>2, <1>3, <1>4, <1>5, <1>6

\* A page that is cached, or about to be, holds at least one message.
PageFacts ==
  /\ entry[Conv] # None => IdsIn(entry[Conv].facts) # {}
  /\ \A r \in Requests :
       task[r].pc = "store" /\ task[r].key = Conv => IdsIn(task[r].facts) # {}

LEMMA ClientTyped ==
  ASSUME TypeOK, PageFacts,
         \/ \E n \in Limits : GetCached(n) \/ GetOlder(n) \/ SyncMessages(n)
         \/ MessageSync
  PROVE  TypeOK'
<1> USE DEF TypeOK, clients
<1>1. ASSUME NEW n \in Limits, GetCached(n) PROVE TypeOK'
  <2> DEFINE ids == IdsIn(entry[Conv].facts)
             cut == Newest(ids, PageLimit(n))
             late == IdsIn(entry[Conv].excused \cup Pending(Conv))
  <2>1. entry[Conv] \in Entries /\ entry[Conv] # None
    BY <1>1 DEF GetCached, Keys
  <2>2. ids \in SUBSET Ids /\ ids # {}
    BY <2>1 DEF PageFacts, IdsIn
  <2>3. cut \in SUBSET Ids /\ cut # {}
    <3>1. PageLimit(n) \in Nat \ {0}
      BY LimitsTyped
    <3> HIDE DEF ids
    <3>2. QED
      BY <2>2, <3>1, NewestCut
  <2>4. late \in SUBSET Ids
    BY DEF IdsIn
  <2>5. page' = Answer(cut, late)
    BY <1>1 DEF GetCached
  <2>6. Answer(cut, late) \in Pages
    <3> HIDE DEF cut, late
    <3>1. QED
      BY <2>3, <2>4, AnswerTyped
  <2>7. QED
    BY <1>1, <2>5, <2>6 DEF GetCached
<1>2. ASSUME NEW n \in Limits, GetOlder(n) PROVE TypeOK'
  <2> DEFINE ids == Older(Visible, page.cursor, PageLimit(n))
  <2>1. ids \in SUBSET Ids /\ ids # {}
    <3>1. Visible \in SUBSET Ids
      BY DEF Visible
    <3>2. ids \in SUBSET Ids
      BY <3>1 DEF Older, Newest
    <3>3. QED
      BY <1>2, <3>2 DEF GetOlder
  <2>2. Least(ids) \in Ids
    <3> HIDE DEF ids
    <3>1. QED
      BY <2>1, LeastMember
  <2>3. page \in Pages /\ page' = [page EXCEPT !.got = @ \cup ids, !.cursor = Least(ids)]
    BY <1>2 DEF GetOlder
  <2>4. page' \in Pages
    <3> HIDE DEF ids
    <3>1. QED
      BY <2>1, <2>2, <2>3 DEF Pages
  <2>5. QED
    BY <1>2, <2>4 DEF GetOlder
<1>3. ASSUME NEW l \in Int, Synced(l) PROVE sync' \in Syncs
  <2> DEFINE ids == Batch(sync.last, SyncLimit(l))
  <2>1. ids \in SUBSET Ids
    BY VisibleIds DEF Batch, Oldest
  <2>2. ids # {} => Latest(ids) \in Nat
    <3> HIDE DEF ids
    <3>1. QED
      BY <2>1, LatestMember, IdNumbers
  <2>3. sync' = [sync EXCEPT !.got = @ \cup ids,
                             !.last = IF ids = {} THEN @ ELSE Latest(ids),
                             !.more = (Cardinality(ids) = l),
                             !.limit = l, !.since = {}]
    BY <1>3 DEF Synced
  <2> HIDE DEF ids
  <2>4. QED
    BY <2>1, <2>2, <2>3 DEF Syncs
<1>4. ASSUME NEW n \in Limits, SyncMessages(n) PROVE TypeOK'
  <2>1. AskedLimit(n) \in Int
    BY LimitsTyped
  <2>2. QED
    BY <1>3, <1>4, <2>1 DEF SyncMessages
<1>5. CASE MessageSync
  <2>1. PageCap \in Int
    BY HistoryAssumption
  <2>2. QED
    BY <1>3, <1>5, <2>1 DEF MessageSync
<1>6. QED
  BY <1>1, <1>2, <1>4, <1>5

LEMMA NextTyped ==
  ASSUME TypeOK, PageFacts, [Next]_vars
  PROVE  TypeOK'
<1>1. ASSUME NEW r \in Requests, Step(r) PROVE TypeOK'
  BY <1>1, SendTyped, ReceiptTyped, ReadTyped DEF Step
<1>2. ASSUME NEW i \in Ids, AckDelivered(i) PROVE TypeOK'
  <2> DEFINE F == News(i, DeliveredRow(rows[i]))
  <2>1. F \in SUBSET Facts /\ Unannounced(F)
    BY <1>2, NewsTyped DEF AckDelivered
  <2> HIDE DEF F
  <2>2. entry' \in [Keys -> Entries \cup {None}] /\ task' \in [Requests -> Tasks]
    BY <2>1, ExcusedTyped, OutdatedTyped DEF Unannounced, TypeOK
  <2>3. QED
    BY <1>2, <2>2, VisibleRows, RowsTyped DEF AckDelivered, TypeOK, clients
<1>3. ASSUME NEW k \in Keys, Expire(k) PROVE TypeOK'
  BY <1>3 DEF Expire, TypeOK, clients
<1>4. ASSUME NEW n \in Limits, GetCached(n) \/ GetOlder(n) \/ SyncMessages(n) PROVE TypeOK'
  BY <1>4, ClientTyped
<1>5. CASE MessageSync
  BY <1>5, ClientTyped
<1>6. CASE Crash
  <2>1. \A k \in Keys : entry[k] \in Entries \cup {None} /\ Pending(k) \in SUBSET Facts
    BY PendingTyped DEF TypeOK
  <2>2. entry' \in [Keys -> Entries \cup {None}]
    BY <1>6, <2>1 DEF Crash, Entries
  <2>3. QED
    BY <1>6, <2>2, TaskMaking DEF Crash, TypeOK, clients
<1>7. CASE UNCHANGED vars
  BY <1>7 DEF vars, clients, TypeOK
<1>8. QED
  BY <1>1, <1>2, <1>3, <1>4, <1>5, <1>6, <1>7 DEF Next

-----------------------------------------------------------------------------
(***************************************************************************)
(* The cache.                                                              *)
(***************************************************************************)

\* What a fetch has missed came up after it.
FetchedInv ==
  \A r \in Requests, k \in Keys : task[r].pc = "store" /\ task[r].key = k =>
    \A f \in Now(k) \ task[r].facts :
      Covers(task[r], f) => f \in task[r].since

CacheInv == TypeOK /\ PageFacts /\ StaleNamed /\ FetchedInv

\* A step that makes no other facts true than F, fills no entry and fetches
\* nothing; what it makes true is about to be invalidated, or excused.
CacheStep(F) ==
  /\ \A k \in Keys : Now(k)' \subseteq Now(k) \cup F
  /\ \A k \in Keys : entry'[k] # None =>
       /\ entry[k] # None
       /\ entry'[k].facts = entry[k].facts /\ entry'[k].limit = entry[k].limit
       /\ entry[k].excused \cup Pending(k) \cup (F \cap Now(k)')
            \subseteq entry'[k].excused \cup Pending(k)'
  /\ \A q \in Requests : task'[q].pc = "store" =>
       /\ task[q].pc = "store" /\ task'[q].key = task[q].key
       /\ task'[q].facts = task[q].facts /\ task'[q].limit = task[q].limit
       /\ task[q].since \cup F \subseteq task'[q].since

LEMMA CacheStepSafe ==
  ASSUME CacheInv, TypeOK', NEW F, CacheStep(F)
  PROVE  PageFacts' /\ StaleNamed' /\ FetchedInv'
<1> USE DEF CacheInv
<1>1. PageFacts'
  BY DEF CacheStep, PageFacts, Keys
<1>2. StaleNamed'
  <2> SUFFICES ASSUME NEW k \in Keys, entry'[k] # None,
                      NEW f \in Now(k)' \ entry'[k].facts, Covers(entry'[k], f)
               PROVE  f \in entry'[k].excused \cup Pending(k)'
    BY DEF StaleNamed
  <2>1. Covers(entry[k], f) /\ f \notin entry[k].facts /\ entry[k] # None
    BY DEF CacheStep, Covers
  <2>2. CASE f \in Now(k)
    BY <2>1, <2>2 DEF StaleNamed, CacheStep
  <2>3. CASE f \in F
    BY <2>3 DEF CacheStep
  <2>4. QED
    BY <2>2, <2>3 DEF CacheStep
<1>3. FetchedInv'
  <2> SUFFICES ASSUME NEW q \in Requests, NEW k \in Keys,
                      task'[q].pc = "store", task'[q].key = k,
                      NEW f \in Now(k)' \ task'[q].facts, Covers(task'[q], f)
               PROVE  f \in task'[q].since
    BY DEF FetchedInv
  <2>1. /\ task[q].pc = "store" /\ task'[q].key = task[q].key
        /\ task'[q].facts = task[q].facts /\ task'[q].limit = task[q].limit
        /\ task[q].since \cup F \subseteq task'[q].since
    BY DEF CacheStep
  <2>2. task[q].key = k /\ Covers(task[q], f)
    BY <2>1 DEF Covers
  <2>3. f \in Now(k) \cup F
    BY DEF CacheStep
  <2>4. QED
    BY <2>1, <2>2, <2>3 DEF FetchedInv
<1>4. QED
  BY <1>1, <1>2, <1>3

\* What a task contributes to Pending, given what it is.
Awaits(t, k) ==
  IF t.pc \in {"announce", "tell", "latest"} /\ k \in t.keys THEN t.facts ELSE {}

LEMMA PendingAwaits ==
  ASSUME NEW k
  PROVE  /\ Pending(k) = UNION {Awaits(task[q], k) : q \in Requests}
         /\ Pending(k)' = UNION {Awaits(task'[q], k) : q \in Requests}
  BY DEF Pending, Awaits

\* Invalidating and giving up: one request goes on, to t.
LEMMA GoneOn ==
  ASSUME TypeOK, NEW r \in Requests, NEW t, t.pc # "store",
         task' = [task EXCEPT ![r] = t], UNCHANGED <<rows, position>>,
         \A k \in Keys : entry'[k] # None =>
            /\ entry[k] # None
            /\ entry'[k].facts = entry[k].facts /\ entry'[k].limit = entry[k].limit
            /\ entry[k].excused \subseteq entry'[k].excused
            /\ Awaits(task[r], k) \subseteq entry'[k].excused \cup Awaits(t, k)
  PROVE  CacheStep({})
<1>1. \A q \in Requests : task'[q] = IF q = r THEN t ELSE task[q]
  BY DEF TypeOK
<1>2. \A k \in Keys : Now(k)' = Now(k)
  BY DEF Now, Messages, Visible
<1>3. ASSUME NEW k \in Keys, entry'[k] # None
      PROVE  Pending(k) \subseteq entry'[k].excused \cup Pending(k)'
  BY <1>1, <1>3, PendingAwaits
<1>4. QED
  BY <1>1, <1>2, <1>3 DEF CacheStep

LEMMA AnnounceAwaits ==
  ASSUME NEW u, NEW F, NEW K, NEW k
  PROVE  /\ Announce(u, F, K).pc # "store"
         /\ Awaits(Announce(u, F, K), k) = IF k \in K THEN F ELSE {}
  BY DEF Announce, Awaits, Idle

\* A request that gives up some of its keys excuses what it was to tell.
LEMMA GivesUpSafe ==
  ASSUME TypeOK, NEW r \in Requests, NEW K, NEW t, t.pc # "store",
         GivesUp(r, K, t), UNCHANGED <<rows, position>>,
         \A k \in Keys : k \in K /\ k \in task[r].keys => Awaits(t, k) = task[r].facts
  PROVE  CacheStep({})
<1>1. \A k \in Keys : entry'[k] = IF k \in task[r].keys \ K /\ entry[k] # None
                                  THEN [entry[k] EXCEPT !.excused = @ \cup task[r].facts]
                                  ELSE entry[k]
  BY DEF GivesUp, Excused
<1>2. task' = [task EXCEPT ![r] = t]
  BY DEF GivesUp, Goto
<1>3. ASSUME NEW k \in Keys, entry'[k] # None
      PROVE  /\ entry[k] # None
             /\ entry'[k].facts = entry[k].facts /\ entry'[k].limit = entry[k].limit
             /\ entry[k].excused \subseteq entry'[k].excused
             /\ Awaits(task[r], k) \subseteq entry'[k].excused \cup Awaits(t, k)
  <2>1. entry[k] # None
    BY <1>1, <1>3
  <2>2. entry[k] \in Entries
    BY <2>1 DEF TypeOK
  <2>3. CASE k \in task[r].keys \ K
    <3>1. entry'[k] = [entry[k] EXCEPT !.excused = @ \cup task[r].facts]
      BY <1>1, <2>1, <2>3
    <3>2. QED
      BY <2>1, <2>2, <3>1 DEF Awaits, Entries
  <2>4. CASE k \notin task[r].keys \ K
    <3>1. entry'[k] = entry[k]
      BY <1>1, <2>4
    <3>2. Awaits(task[r], k) \subseteq Awaits(t, k)
      BY <2>4 DEF Awaits
    <3>3. QED
      BY <2>1, <3>1, <3>2
  <2>5. QED
    BY <2>3, <2>4
<1>4. QED
  BY <1>2, <1>3, GoneOn

\* A step of a request that awaits nothing, and leaves the entries alone.
LEMMA GoesSafe ==
  ASSUME TypeOK, NEW r \in Requests, NEW t, t.pc # "store", Goto(r, t),
         task[r].pc \notin {"announce", "tell", "latest"},
         UNCHANGED <<rows, position, entry>>
  PROVE  CacheStep({})
  BY GoneOn DEF Goto, Awaits

\* What being told that facts have come up does to a task, and to an entry.
LEMMA OutdatedKeeps ==
  ASSUME NEW t \in Tasks, NEW F
  PROVE  /\ \A k : Awaits(Outdated(t, F), k) = Awaits(t, k)
         /\ Outdated(t, F).pc = "store" =>
              /\ t.pc = "store" /\ Outdated(t, F).key = t.key
              /\ Outdated(t, F).facts = t.facts /\ Outdated(t, F).limit = t.limit
              /\ t.since \cup F \subseteq Outdated(t, F).since
<1>1. CASE t.pc = "store"
  BY <1>1 DEF Outdated, Awaits, Tasks, Idle
<1>2. CASE t.pc = "latest"
  BY <1>2 DEF Outdated, Awaits, Tasks, Idle
<1>3. QED
  BY <1>1, <1>2 DEF Outdated

LEMMA ExcusedKeeps ==
  ASSUME TypeOK, NEW F, NEW K, NEW k \in Keys, Excused(F, K)[k] # None
  PROVE  /\ entry[k] # None
         /\ Excused(F, K)[k].facts = entry[k].facts
         /\ Excused(F, K)[k].limit = entry[k].limit
         /\ entry[k].excused \subseteq Excused(F, K)[k].excused
         /\ k \in K => F \subseteq Excused(F, K)[k].excused
<1>1. Excused(F, K)[k] = IF k \in K /\ entry[k] # None
                         THEN [entry[k] EXCEPT !.excused = @ \cup F] ELSE entry[k]
  BY DEF Excused
<1>2. entry[k] # None
  BY <1>1
<1>3. entry[k] \in Entries
  BY <1>2 DEF TypeOK
<1>4. CASE k \in K
  <2>1. Excused(F, K)[k] = [entry[k] EXCEPT !.excused = @ \cup F]
    BY <1>1, <1>2, <1>4
  <2>2. QED
    BY <1>2, <1>3, <2>1 DEF Entries
<1>5. QED
  BY <1>1, <1>2, <1>4

\* A statement makes facts true.
LEMMA HappensSafe ==
  ASSUME TypeOK, NEW r \in Requests, NEW F \in SUBSET Facts, NEW K, NEW t,
         t.pc # "store", task[r].pc \in {"idle", "insert"}, Happens(r, F, K, t),
         \A k \in Keys : Now(k)' \subseteq Now(k) \cup F,
         \A k \in Keys \ K : F \cap Now(k)' \subseteq Awaits(t, k)
  PROVE  CacheStep(F)
<1>1. /\ \A q \in Requests : task'[q] = IF q = r THEN t ELSE Outdated(task[q], F)
      /\ entry' = Excused(F, K)
  BY DEF Happens
<1>2. \A q \in Requests : task[q] \in Tasks
  BY DEF TypeOK
<1>3. \A k : Awaits(task[r], k) = {}
  BY DEF Awaits
<1>4. ASSUME NEW k \in Keys
      PROVE  Pending(k) \subseteq Pending(k)' /\ Awaits(t, k) \subseteq Pending(k)'
  <2>1. Awaits(task'[r], k) = Awaits(t, k)
    BY <1>1
  <2>2. \A q \in Requests : Awaits(task[q], k) \subseteq Awaits(task'[q], k)
    BY <1>1, <1>2, <1>3, OutdatedKeeps
  <2>3. QED
    BY <2>1, <2>2, PendingAwaits
<1>5. ASSUME NEW k \in Keys, entry'[k] # None
      PROVE  /\ entry[k] # None
             /\ entry'[k].facts = entry[k].facts /\ entry'[k].limit = entry[k].limit
             /\ entry[k].excused \cup Pending(k) \cup (F \cap Now(k)')
                  \subseteq entry'[k].excused \cup Pending(k)'
  <2>1. /\ entry[k] # None
        /\ entry'[k].facts = entry[k].facts /\ entry'[k].limit = entry[k].limit
        /\ entry[k].excused \subseteq entry'[k].excused
        /\ k \in K => F \subseteq entry'[k].excused
    BY <1>1, <1>5, ExcusedKeeps
  <2>2. QED
    BY <1>4, <2>1
<1>6. ASSUME NEW q \in Requests, task'[q].pc = "store"
      PROVE  /\ task[q].pc = "store" /\ task'[q].key = task[q].key
             /\ task'[q].facts = task[q].facts /\ task'[q].limit = task[q].limit
             /\ task[q].since \cup F \subseteq task'[q].since
  <2>1. task'[q] = Outdated(task[q], F) /\ task[q] \in Tasks
    BY <1>1, <1>2, <1>6
  <2>2. QED
    BY <1>6, <2>1, OutdatedKeeps
<1>7. QED
  BY <1>5, <1>6 DEF CacheStep

\* A statement that nobody announces makes facts true.
LEMMA UnannouncedSafe ==
  ASSUME TypeOK, NEW F \in SUBSET Facts, Unannounced(F),
         \A k \in Keys : Now(k)' \subseteq Now(k) \cup F
  PROVE  CacheStep(F)
<1>1. /\ \A q \in Requests : task'[q] = Outdated(task[q], F) /\ task[q] \in Tasks
      /\ entry' = Excused(F, Keys)
  BY DEF Unannounced, TypeOK
<1>2. ASSUME NEW k \in Keys PROVE Pending(k) = Pending(k)'
  <2>1. \A q \in Requests : Awaits(task'[q], k) = Awaits(task[q], k)
    BY <1>1, OutdatedKeeps
  <2>2. \A x : x \in Pending(k) <=> x \in Pending(k)'
    BY <2>1, PendingAwaits
  <2>3. QED
    BY <2>2
<1>3. ASSUME NEW k \in Keys, entry'[k] # None
      PROVE  /\ entry[k] # None
             /\ entry'[k].facts = entry[k].facts /\ entry'[k].limit = entry[k].limit
             /\ entry[k].excused \cup F \subseteq entry'[k].excused
  BY <1>1, <1>3, ExcusedKeeps
<1>4. ASSUME NEW q \in Requests, task'[q].pc = "store"
      PROVE  /\ task[q].pc = "store" /\ task'[q].key = task[q].key
             /\ task'[q].facts = task[q].facts /\ task'[q].limit = task[q].limit
             /\ task[q].since \cup F \subseteq task'[q].since
  BY <1>1, <1>4, OutdatedKeeps
<1>5. QED
  BY <1>2, <1>3, <1>4 DEF CacheStep

\* The rows in M are changed to those in new: what is new is the news of them.
LEMMA NowTells ==
  ASSUME TypeOK, position' = position,
         NEW M \in SUBSET Visible, NEW new \in [M -> Rows], NEW F,
         \A i \in Ids : rows'[i] = IF i \in M THEN new[i] ELSE rows[i],
         \A i \in M : News(i, new[i]) \subseteq F
  PROVE  \A k \in Keys : Now(k)' \subseteq Now(k) \cup F
<1>1. Visible' \subseteq Visible /\ Visible \in SUBSET Ids
  BY DEF Visible
<1>2. ASSUME NEW f \in Messages(Visible)', f \notin Messages(Visible) PROVE f \in F
  <2>1. f \in ({"sent"} \cup Flags) \X Visible'
        /\ (f[1] = "sent" \/ f[1] \in FlagsOf(rows'[f[2]]))
    BY <1>2 DEF Messages, FlagsOf
  <2>2. f[1] \in FlagsOf(rows'[f[2]]) /\ f[1] \notin FlagsOf(rows[f[2]]) /\ f[2] \in Visible
    BY <1>1, <1>2, <2>1 DEF Messages
  <2>3. f[2] \in M
    BY <1>1, <2>2
  <2>4. f = <<f[1], f[2]>> /\ rows'[f[2]] = new[f[2]]
    BY <1>1, <2>1, <2>3
  <2>5. f \in News(f[2], new[f[2]])
    BY <2>2, <2>4 DEF News
  <2>6. QED
    BY <2>3, <2>5
<1>3. \A k : Now(k)' = Messages(Visible)' \cup
                        IF k = Conv THEN {} ELSE {k} \X (1 .. position[k])
  BY DEF Now
<1>4. QED
  BY <1>2, <1>3 DEF Now

\* Sending, and what follows a message.
LEMMA SendSafe ==
  ASSUME TypeOK, NEW r \in Requests,
         \/ \E u \in Users, rest \in BOOLEAN : Send(r, u, rest)
         \/ Insert(r) \/ InsertFails(r) \/ ReloadFails(r) \/ MembersFail(r)
         \/ \E k \in Keys : Invalidate(r, k) \/ InvalidateFails(r, k)
  PROVE  \E F \in SUBSET Facts : CacheStep(F)
<1>1. ASSUME NEW u \in Users, NEW rest \in BOOLEAN, Send(r, u, rest)
      PROVE  CacheStep({})
  BY <1>1, GoesSafe DEF Send, Begins, Idle
<1>2. ASSUME Insert(r) PROVE \E F \in SUBSET Facts : CacheStep(F)
  <2> DEFINE m == task[r]
             F == Sent({m.id})
             t == Announce(m.from, F, KeysOf(m))
  <2>1. m.id \in Ids /\ m.from \in Users /\ m.rest \in BOOLEAN /\ m.pc = "insert"
    BY <1>2, TaskFields DEF Insert, TypeOK
  <2>2. F \in SUBSET Facts
    BY <2>1, SentTyped
  <2>3. rows' = [rows EXCEPT ![m.id] = NewRow(m)] /\ position' = position
    BY <1>2 DEF Insert
  <2>4. Visible' \subseteq Visible \cup {m.id} /\ FlagsOf(NewRow(m)) = {}
    BY <2>3 DEF Visible, NewRow, FlagsOf, Flags
  <2>5. ASSUME NEW f \in Messages(Visible)', f \notin F PROVE f \in Messages(Visible)
    <3>1. /\ f \in ({"sent"} \cup Flags) \X Visible'
          /\ f[1] = "sent" \/ f[1] \in FlagsOf(rows'[f[2]])
      BY <2>5 DEF Messages, FlagsOf
    <3>2. f[2] # m.id
      <4>1. ASSUME f[2] = m.id PROVE FALSE
        <5>1. rows'[f[2]] = NewRow(m)
          BY <2>1, <2>3, <4>1 DEF TypeOK
        <5>2. f = <<"sent", m.id>>
          BY <2>4, <3>1, <4>1, <5>1
        <5>3. QED
          BY <2>5, <5>2 DEF Sent
      <4>2. QED
        BY <4>1
    <3>3. f[2] \in Visible /\ rows'[f[2]] = rows[f[2]]
      BY <2>3, <2>4, <3>1, <3>2 DEF TypeOK, Visible
    <3>4. QED
      BY <3>1, <3>3 DEF Messages
  <2>6. \A k \in Keys : Now(k)' \subseteq Now(k) \cup F
    <3>1. \A k : Now(k)' = Messages(Visible)' \cup
                            IF k = Conv THEN {} ELSE {k} \X (1 .. position[k])
      BY <2>3 DEF Now
    <3>2. QED
      BY <2>5, <3>1 DEF Now
  <2>7. \A k \in Keys \ Forgone(m) : F \cap Now(k)' \subseteq Awaits(t, k)
    <3>1. \A k \in Keys \ Forgone(m) : k \in KeysOf(m)
      BY <2>1 DEF Forgone, KeysOf, Keys, Recipients
    <3>2. \A k \in KeysOf(m) : Awaits(t, k) = F
      <4> HIDE DEF F, m
      <4>1. QED
        BY AnnounceAwaits
    <3>3. QED
      BY <3>1, <3>2
  <2>8. t.pc # "store" /\ Happens(r, F, Forgone(m), t)
    <3>1. Happens(r, F, Forgone(m), t)
      BY <1>2 DEF Insert
    <3>2. t.pc # "store"
      BY DEF Announce, Idle
    <3>3. QED
      BY <3>1, <3>2
  <2>9. CacheStep(F)
    <3> HIDE DEF F, t
    <3>1. QED
      BY <2>1, <2>2, <2>6, <2>7, <2>8, HappensSafe
  <2>10. QED
    BY <2>2, <2>9
<1>3. ASSUME InsertFails(r) PROVE CacheStep({})
  BY <1>3, GoesSafe DEF InsertFails, Idle
<1>4. ASSUME ReloadFails(r) PROVE CacheStep({})
  BY <1>4, GivesUpSafe DEF ReloadFails, Idle
<1>5. \A K, k : Rest(r, K).pc # "store"
                /\ Awaits(Rest(r, K), k) = IF k \in K THEN task[r].facts ELSE {}
  BY AnnounceAwaits DEF Rest
<1>6. ASSUME MembersFail(r) PROVE CacheStep({})
  <2> DEFINE own == task[r].keys \cap {task[r].from}
  <2>1. GivesUp(r, own, Rest(r, own)) /\ UNCHANGED <<rows, position>>
    BY <1>6 DEF MembersFail
  <2> HIDE DEF own
  <2>2. QED
    BY <1>5, <2>1, GivesUpSafe
<1>7. ASSUME NEW k \in Keys, Invalidate(r, k) PROVE CacheStep({})
  <2> DEFINE t == Rest(r, task[r].keys \ {k})
  <2>1. /\ task' = [task EXCEPT ![r] = t] /\ UNCHANGED <<rows, position>>
        /\ entry' = [entry EXCEPT ![k] = None] /\ task[r].pc = "announce"
    BY <1>7 DEF Invalidate, Goto, Due
  <2>2. ASSUME NEW l \in Keys, entry'[l] # None
        PROVE  entry'[l] = entry[l] /\ Awaits(task[r], l) = Awaits(t, l)
    <3>1. l # k /\ entry'[l] = entry[l]
      BY <2>1, <2>2 DEF TypeOK
    <3>2. QED
      BY <1>5, <2>1, <3>1 DEF Awaits
  <2>3. t.pc # "store"
    BY <1>5
  <2>4. ASSUME NEW l \in Keys, entry'[l] # None
        PROVE  /\ entry[l] # None
               /\ entry'[l].facts = entry[l].facts /\ entry'[l].limit = entry[l].limit
               /\ entry[l].excused \subseteq entry'[l].excused
               /\ Awaits(task[r], l) \subseteq entry'[l].excused \cup Awaits(t, l)
    BY <2>2, <2>4
  <2> HIDE DEF t
  <2>5. QED
    BY <2>1, <2>3, <2>4, GoneOn
<1>8. ASSUME NEW k \in Keys, InvalidateFails(r, k) PROVE CacheStep({})
  <2> DEFINE K == task[r].keys \ {k}
  <2>1. GivesUp(r, K, Rest(r, K)) /\ UNCHANGED <<rows, position>>
    BY <1>8 DEF InvalidateFails
  <2> HIDE DEF K
  <2>2. QED
    BY <1>5, <2>1, GivesUpSafe
<1>9. QED
  BY <1>1, <1>2, <1>3, <1>4, <1>6, <1>7, <1>8

\* Receipts.
LEMMA ReceiptSafe ==
  ASSUME TypeOK, NEW r \in Requests,
         \/ \E u \in Users, i \in Ids : AckRead(r, u, i)
         \/ \E u \in Users : ReadAll(r, u)
         \/ \E u \in Users, p \in 0 .. MaxMessages : MarkGroup(r, u, p)
         \/ Tell(r) \/ TellFails(r) \/ TellLatest(r) \/ NoLatest(r)
  PROVE  \E F \in SUBSET Facts : CacheStep(F)
<1>1. ASSUME NEW u \in Users, NEW i \in Ids, AckRead(r, u, i)
      PROVE  \E F \in SUBSET Facts : CacheStep(F)
  <2> DEFINE from == rows[i].from
             new == [j \in {i} |-> ReadRow(rows[j])]
             F == News(i, ReadRow(rows[i]))
             t == [pc |-> "tell", id |-> i, by |-> u, facts |-> F, keys |-> {from}]
  <2>1. i \in Visible /\ task[r].pc = "idle" /\ position' = position
    BY <1>1 DEF AckRead, Begins, Idle
  <2>2. \A j \in Ids : rows'[j] = IF j \in {i} THEN new[j] ELSE rows[j]
    BY <1>1 DEF AckRead, TypeOK
  <2>3. new \in [{i} -> Rows] /\ F \in SUBSET Facts /\ \A j \in {i} : News(j, new[j]) \subseteq F
    BY <2>1, VisibleRows, RowsTyped, NewsTyped
  <2>4. \A k \in Keys : Now(k)' \subseteq Now(k) \cup F
    <3> HIDE DEF F, new
    <3>1. QED
      BY <2>1, <2>2, <2>3, NowTells
  <2>5. CASE Happens(r, F, Keys, Idle)
    <3>1. Idle.pc # "store"
      BY DEF Idle
    <3> HIDE DEF F
    <3>2. QED
      BY <2>1, <2>3, <2>4, <2>5, <3>1, HappensSafe
  <2>6. CASE Happens(r, F, Keys \ {from}, t)
    <3>1. t.pc # "store" /\ Awaits(t, from) = F
      BY DEF Awaits
    <3>2. \A k \in Keys \ (Keys \ {from}) : F \cap Now(k)' \subseteq Awaits(t, k)
      BY <3>1
    <3> HIDE DEF F, t, from
    <3>3. QED
      BY <2>1, <2>3, <2>4, <2>6, <3>1, <3>2, HappensSafe
  <2>7. QED
    BY <1>1, <2>3, <2>5, <2>6 DEF AckRead
<1>2. ASSUME NEW u \in Users, ReadAll(r, u) PROVE \E F \in SUBSET Facts : CacheStep(F)
  <2> DEFINE M == {i \in {j \in Visible : rows[j].from # u} : ToMark(rows[i])}
             new == [i \in M |-> ReadRow(rows[i])]
             F == UNION {News(i, ReadRow(rows[i])) : i \in M}
             t == [pc |-> "latest", by |-> u, since |-> {}, facts |-> F, keys |-> Users]
  <2>1. M \in SUBSET Visible /\ task[r].pc = "idle" /\ Happens(r, F, {Conv}, t)
        /\ position' = position
    BY <1>2 DEF ReadAll, Begins, Idle
  <2>2. \A j \in Ids : rows'[j] = IF j \in M THEN new[j] ELSE rows[j]
    BY <1>2 DEF ReadAll
  <2>3. new \in [M -> Rows] /\ F \in SUBSET Facts /\ \A j \in M : News(j, new[j]) \subseteq F
    <3>1. \A j \in M : j \in Ids /\ ReadRow(rows[j]) \in Rows
      BY <2>1, VisibleRows, RowsTyped
    <3>2. \A j \in M : News(j, ReadRow(rows[j])) \in SUBSET Facts
      BY <3>1, NewsTyped
    <3> HIDE DEF M
    <3>3. QED
      BY <3>1, <3>2
  <2>4. \A k \in Keys : Now(k)' \subseteq Now(k) \cup F
    <3> HIDE DEF F, new, M
    <3>1. QED
      BY <2>1, <2>2, <2>3, NowTells
  <2>5. t.pc # "store" /\ \A k \in Users : Awaits(t, k) = F
    BY DEF Awaits
  <2>6. \A k \in Keys \ {Conv} : F \cap Now(k)' \subseteq Awaits(t, k)
    BY <2>5 DEF Keys
  <2> HIDE DEF F, t, M, new
  <2>7. QED
    BY <2>1, <2>3, <2>4, <2>5, <2>6, HappensSafe
<1>2a. ASSUME NEW u \in Users, NEW p \in 0 .. MaxMessages, MarkGroup(r, u, p)
       PROVE  \E F \in SUBSET Facts : CacheStep(F)
  <2> DEFINE F == {u} \X (position[u] + 1 .. p)
             t == Announce(u, F, {u})
  <2>1. /\ task[r].pc = "idle" /\ Happens(r, F, {}, t) /\ rows' = rows
        /\ position' = [position EXCEPT ![u] = Further(p, @)]
    BY <1>2a DEF MarkGroup, Begins, Idle
  <2>2. F \in SUBSET Facts
    BY HistoryAssumption DEF TypeOK, Facts, Ids
  <2>3. \A k : Now(k)' = Messages(Visible) \cup
                          IF k = Conv THEN {} ELSE {k} \X (1 .. position'[k])
    BY <2>1 DEF Now, Messages, Visible
  <2>4. \A k \in Users : IF k = u THEN 1 .. position'[k] \subseteq
                                          (1 .. position[k]) \cup (position[k] + 1 .. p)
                         ELSE position'[k] = position[k]
    BY <2>1 DEF TypeOK, Further
  <2>5. \A k \in Keys : Now(k)' \subseteq Now(k) \cup F
    BY <2>3, <2>4 DEF Now, Keys
  <2>6. u \notin {"sent"} \cup Flags /\ u # Conv
    BY HistoryAssumption
  <2>7. \A k \in Keys : k # u => F \cap Now(k)' = {}
    BY <2>3, <2>6 DEF Messages
  <2> HIDE DEF F
  <2>8. t.pc # "store" /\ Awaits(t, u) = F
    BY AnnounceAwaits
  <2> HIDE DEF t
  <2>9. \A k \in Keys \ {} : F \cap Now(k)' \subseteq Awaits(t, k)
    BY <2>7, <2>8
  <2>10. CacheStep(F)
    BY <2>1, <2>2, <2>5, <2>8, <2>9, HappensSafe
  <2>11. QED
    BY <2>2, <2>10
<1>3. ASSUME NEW l, Goto(r, Announce(l, task[r].facts, task[r].keys)),
             UNCHANGED <<rows, position, entry>>, task[r].pc \in {"tell", "latest"}
      PROVE  CacheStep({})
  <2> DEFINE t == Announce(l, task[r].facts, task[r].keys)
  <2>1. t.pc # "store" /\ \A k : Awaits(t, k) = Awaits(task[r], k)
    BY <1>3, AnnounceAwaits DEF Awaits
  <2>2. task' = [task EXCEPT ![r] = t]
    BY <1>3 DEF Goto
  <2> HIDE DEF t
  <2>3. QED
    BY <1>3, <2>1, <2>2, GoneOn
<1>4. ASSUME Tell(r) PROVE CacheStep({})
  BY <1>3, <1>4 DEF Tell
<1>5. ASSUME TellFails(r) PROVE CacheStep({})
  BY <1>5, GivesUpSafe DEF TellFails, Idle
<1>6. ASSUME TellLatest(r) PROVE CacheStep({})
  BY <1>3, <1>6 DEF TellLatest
<1>7. ASSUME NoLatest(r) PROVE CacheStep({})
  <2> DEFINE own == {task[r].by}
             t == Announce(task[r].by, task[r].facts, own)
  <2>1. GivesUp(r, own, t) /\ UNCHANGED <<rows, position>>
    BY <1>7 DEF NoLatest
  <2>2. /\ t.pc # "store"
        /\ \A k \in own : Awaits(t, k) = task[r].facts
    <3> HIDE DEF own
    <3>1. QED
      BY AnnounceAwaits
  <2> HIDE DEF t, own
  <2>3. QED
    BY <2>1, <2>2, GivesUpSafe
<1>8. QED
  BY <1>1, <1>2, <1>2a, <1>4, <1>5, <1>6, <1>7

\* The newest messages leave out nothing that they cover.
LEMMA NewestCovers ==
  ASSUME TypeOK, NEW n \in Nat, NEW t, t.facts = Messages(Newest(Visible, n)), t.limit = n,
         NEW f \in Now(Conv) \ t.facts
  PROVE  ~Covers(t, f)
<1> DEFINE ids == Newest(Visible, n)
<1>1. Visible \in SUBSET Ids
  BY VisibleIds
<1>2. ids \in SUBSET Ids /\ ids \subseteq Visible
  BY <1>1 DEF Newest
<1>3. IdsIn(t.facts) = ids
  <2> HIDE DEF ids
  <2>1. QED
    BY <1>2, MessagesTyped DEF ids
<1>4. f[2] \in Visible \ ids
  BY <1>2 DEF Now, Messages
<1>5. /\ \A a \in Visible, b \in ids : b <= a => a \in ids
      /\ \A a \in Visible \ ids : Cardinality(ids) >= n
  BY <1>1, NewestCut
<1> HIDE DEF ids
<1>6. ~(Cardinality(ids) < n)
  BY <1>2, <1>4, <1>5, IdsFinite
<1>7. \A i \in ids : ~(i <= f[2])
  BY <1>4, <1>5
<1>8. QED
  BY <1>3, <1>6, <1>7 DEF Covers

\* Fetching: what the request holds now misses nothing that it covers.
LEMMA FetchSafe ==
  ASSUME CacheInv, NEW r \in Requests, NEW t,
         task[r].pc = "fetch", t.pc = "store", Goto(r, t),
         UNCHANGED <<rows, position, entry>>,
         \A k \in Keys : t.key = k => \A f \in Now(k) \ t.facts : ~Covers(t, f),
         t.key = Conv => IdsIn(t.facts) # {}
  PROVE  PageFacts' /\ StaleNamed' /\ FetchedInv'
<1>1. \A q \in Requests : task'[q] = IF q = r THEN t ELSE task[q]
  BY DEF CacheInv, TypeOK, Goto
<1>2. \A k : Now(k)' = Now(k)
  BY DEF Now, Messages, Visible
<1>3. \A k : Pending(k)' = Pending(k)
  <2> TAKE k
  <2>1. \A q \in Requests : Awaits(task'[q], k) = Awaits(task[q], k)
    BY <1>1 DEF Awaits
  <2>2. \A x : x \in Pending(k)' <=> x \in Pending(k)
    BY <2>1, PendingAwaits
  <2>3. QED
    BY <2>2
<1>4. PageFacts'
  BY <1>1 DEF CacheInv, PageFacts
<1>5. StaleNamed'
  BY <1>2, <1>3 DEF CacheInv, StaleNamed
<1>6. FetchedInv'
  BY <1>1, <1>2 DEF CacheInv, FetchedInv
<1>7. QED
  BY <1>4, <1>5, <1>6

LEMMA StoreSafe ==
  ASSUME CacheInv, NEW r \in Requests, Store(r)
  PROVE  PageFacts' /\ StaleNamed' /\ FetchedInv'
<1> USE DEF CacheInv
<1> DEFINE key == task[r].key
           new == [facts |-> task[r].facts, limit |-> task[r].limit,
                   excused |-> task[r].since]
<1>1. key \in Keys /\ task[r].pc = "store"
  BY TaskFields DEF Store, TypeOK
<1>2. \A q \in Requests : task'[q] = IF q = r THEN Idle ELSE task[q]
  BY DEF TypeOK, Goto, Store
<1>3. \A k \in Keys : entry'[k] = IF k = key THEN new ELSE entry[k]
  BY DEF Store, TypeOK
<1>4. \A k : Now(k)' = Now(k)
  BY DEF Now, Messages, Visible, Store
<1>5. \A k : Pending(k)' = Pending(k)
  <2> TAKE k
  <2>1. \A q \in Requests : Awaits(task'[q], k) = Awaits(task[q], k)
    BY <1>1, <1>2 DEF Awaits, Idle
  <2>2. \A x : x \in Pending(k)' <=> x \in Pending(k)
    BY <2>1, PendingAwaits
  <2>3. QED
    BY <2>2
<1>6. PageFacts'
  BY <1>1, <1>2, <1>3 DEF PageFacts, Keys, Idle
<1>7. StaleNamed'
  <2> SUFFICES ASSUME NEW k \in Keys, entry'[k] # None,
                      NEW f \in Now(k) \ entry'[k].facts, Covers(entry'[k], f)
               PROVE  f \in entry'[k].excused \cup Pending(k)
    BY <1>4, <1>5 DEF StaleNamed
  <2>1. CASE k = key
    <3>1. entry'[k] = new
      BY <1>3, <2>1
    <3>2. Covers(task[r], f)
      BY <3>1 DEF Covers
    <3>3. QED
      BY <1>1, <2>1, <3>1, <3>2 DEF FetchedInv
  <2>2. CASE k # key
    BY <1>3, <2>2 DEF StaleNamed
  <2>3. QED
    BY <2>1, <2>2
<1>8. FetchedInv'
  BY <1>2, <1>4 DEF FetchedInv, Idle
<1>9. QED
  BY <1>6, <1>7, <1>8

\* Requests that read.
LEMMA ReadSafe ==
  ASSUME CacheInv, TypeOK', NEW r \in Requests,
         \/ \E u \in Users : GetList(r, u)
         \/ \E n \in Limits : GetMissed(r, n)
         \/ FetchPage(r) \/ FetchList(r) \/ Store(r) \/ GetFails(r)
  PROVE  PageFacts' /\ StaleNamed' /\ FetchedInv'
<1>1. ASSUME CacheStep({}) PROVE PageFacts' /\ StaleNamed' /\ FetchedInv'
  BY <1>1, CacheStepSafe
<1>2. ASSUME NEW u \in Users, GetList(r, u) PROVE CacheStep({})
  BY <1>2, GoesSafe DEF GetList, Begins, Idle, CacheInv
<1>3. ASSUME NEW n \in Limits, GetMissed(r, n) PROVE CacheStep({})
  BY <1>3, GoesSafe DEF GetMissed, Begins, Idle, CacheInv
<1>4. ASSUME GetFails(r) PROVE CacheStep({})
  BY <1>4, GoesSafe DEF GetFails, Idle, CacheInv
<1>5. ASSUME FetchPage(r) PROVE PageFacts' /\ StaleNamed' /\ FetchedInv'
  <2> DEFINE n == task[r].limit
             ids == Newest(Visible, n)
             t == [pc |-> "store", key |-> Conv, limit |-> n,
                   facts |-> Messages(ids), since |-> {}]
  <2>1. CASE ids = {}
    <3>1. CacheStep({})
      BY <1>5, <2>1, GoesSafe DEF FetchPage, Idle, CacheInv
    <3>2. QED
      BY <1>1, <3>1
  <2>2. CASE ids # {}
    <3>1. Goto(r, t) /\ task[r].pc = "fetch" /\ UNCHANGED <<rows, position, entry>>
      BY <1>5, <2>2 DEF FetchPage
    <3>2. n \in Nat
      BY <3>1, TaskFields DEF CacheInv, TypeOK
    <3>3. \A f \in Now(Conv) \ t.facts : ~Covers(t, f)
      BY <3>2, NewestCovers DEF CacheInv
    <3>4. IdsIn(t.facts) # {}
      <4>1. ids \in SUBSET Ids
        BY DEF Newest, Visible
      <4>2. t.facts = Messages(ids)
        OBVIOUS
      <4> HIDE DEF ids, t
      <4>3. QED
        BY <2>2, <4>1, <4>2, MessagesTyped
    <3>5. t.pc = "store" /\ t.key = Conv
      OBVIOUS
    <3> HIDE DEF t, ids, n
    <3>6. QED
      BY <3>1, <3>3, <3>4, <3>5, FetchSafe
  <2>3. QED
    BY <2>1, <2>2
<1>6. ASSUME FetchList(r) PROVE PageFacts' /\ StaleNamed' /\ FetchedInv'
  <2> DEFINE t == [pc |-> "store", key |-> task[r].key, limit |-> task[r].limit,
                   facts |-> Now(task[r].key), since |-> {}]
  <2>1. Goto(r, t) /\ task[r].pc = "fetch" /\ UNCHANGED <<rows, position, entry>>
        /\ task[r].key # Conv
    BY <1>6 DEF FetchList
  <2>2. t.pc = "store" /\ t.key # Conv /\ t.facts = Now(t.key)
    BY <2>1
  <2> HIDE DEF t
  <2>3. QED
    BY <2>1, <2>2, FetchSafe
<1>7. QED
  BY <1>1, <1>2, <1>3, <1>4, <1>5, <1>6, StoreSafe

\* A receipt of delivery.
LEMMA DeliveredSafe ==
  ASSUME TypeOK, NEW i \in Ids, AckDelivered(i)
  PROVE  \E F \in SUBSET Facts : CacheStep(F)
<1> DEFINE new == [j \in {i} |-> DeliveredRow(rows[j])]
           F == News(i, DeliveredRow(rows[i]))
<1>1. i \in Visible /\ position' = position /\ Unannounced(F)
  BY DEF AckDelivered
<1>2. \A j \in Ids : rows'[j] = IF j \in {i} THEN new[j] ELSE rows[j]
  BY DEF AckDelivered, TypeOK
<1>3. /\ new \in [{i} -> Rows] /\ F \in SUBSET Facts
      /\ \A j \in {i} : News(j, new[j]) \subseteq F
  BY <1>1, VisibleRows, RowsTyped, NewsTyped
<1> HIDE DEF F, new
<1>4. \A k \in Keys : Now(k)' \subseteq Now(k) \cup F
  BY <1>1, <1>2, <1>3, NowTells
<1>5. QED
  BY <1>1, <1>3, <1>4, UnannouncedSafe

\* Steps that change neither rows nor positions, and await nothing new.
LEMMA OtherSafe ==
  ASSUME TypeOK,
         \/ \E k \in Keys : Expire(k)
         \/ \E n \in Limits : GetCached(n) \/ GetOlder(n) \/ SyncMessages(n)
         \/ MessageSync \/ Crash \/ UNCHANGED vars
  PROVE  CacheStep({})
<1>1. ASSUME UNCHANGED <<rows, position, task>>,
             \A k \in Keys : entry'[k] = None \/ entry'[k] = entry[k]
      PROVE  CacheStep({})
  BY <1>1, PendingAwaits DEF CacheStep, Now, Messages, Visible
<1>3. ASSUME NEW k \in Keys, Expire(k) PROVE CacheStep({})
  BY <1>1, <1>3 DEF Expire, TypeOK
<1>4. ASSUME NEW n \in Limits, GetCached(n) \/ GetOlder(n) \/ SyncMessages(n)
      PROVE  CacheStep({})
  BY <1>1, <1>4 DEF GetCached, GetOlder, SyncMessages
<1>5. CASE MessageSync
  BY <1>1, <1>5 DEF MessageSync
<1>6. CASE Crash
  <2>1. UNCHANGED <<rows, position>> /\ \A q \in Requests : task'[q] = Idle
    BY <1>6 DEF Crash
  <2>2. ASSUME NEW k \in Keys, entry'[k] # None
        PROVE  /\ entry[k] # None
               /\ entry'[k].facts = entry[k].facts /\ entry'[k].limit = entry[k].limit
               /\ entry'[k].excused = entry[k].excused \cup Pending(k)
    <3>1. entry[k] # None /\ entry'[k] = [entry[k] EXCEPT !.excused = @ \cup Pending(k)]
      BY <1>6, <2>2 DEF Crash
    <3>2. entry[k] \in Entries
      BY <3>1 DEF TypeOK
    <3>3. QED
      BY <3>1, <3>2 DEF Entries
  <2>3. QED
    BY <2>1, <2>2 DEF CacheStep, Now, Messages, Visible, Idle
<1>7. CASE UNCHANGED vars
  BY <1>1, <1>7 DEF vars
<1>8. QED
  BY <1>3, <1>4, <1>5, <1>6, <1>7

LEMMA InitCache == Init => CacheInv
<1> SUFFICES ASSUME Init PROVE CacheInv
  OBVIOUS
<1>1. \A k \in Keys : entry[k] = None
  BY DEF Init
<1>2. \A r \in Requests : task[r].pc = "idle"
  BY DEF Init, Idle
<1>3. PageFacts /\ StaleNamed /\ FetchedInv
  BY <1>1, <1>2 DEF PageFacts, StaleNamed, FetchedInv, Keys
<1>4. QED
  BY <1>3, InitTyped DEF CacheInv

LEMMA NextCache ==
  ASSUME CacheInv, [Next]_vars
  PROVE  CacheInv'
<1>1. TypeOK'
  BY NextTyped DEF CacheInv
<1>2. ASSUME NEW F, CacheStep(F) PROVE PageFacts' /\ StaleNamed' /\ FetchedInv'
  BY <1>1, <1>2, CacheStepSafe
<1>3. ASSUME NEW r \in Requests, Step(r) PROVE PageFacts' /\ StaleNamed' /\ FetchedInv'
  <2>1. TypeOK
    BY DEF CacheInv
  <2>2. CASE \/ \E u \in Users, rest \in BOOLEAN : Send(r, u, rest)
             \/ Insert(r) \/ InsertFails(r) \/ ReloadFails(r) \/ MembersFail(r)
             \/ \E k \in Keys : Invalidate(r, k) \/ InvalidateFails(r, k)
    BY <1>2, <2>1, <2>2, SendSafe
  <2>3. CASE \/ \E u \in Users, i \in Ids : AckRead(r, u, i)
             \/ \E u \in Users : ReadAll(r, u)
             \/ \E u \in Users, p \in 0 .. MaxMessages : MarkGroup(r, u, p)
             \/ Tell(r) \/ TellFails(r) \/ TellLatest(r) \/ NoLatest(r)
    BY <1>2, <2>1, <2>3, ReceiptSafe
  <2>4. CASE \/ \E u \in Users : GetList(r, u)
             \/ \E n \in Limits : GetMissed(r, n)
             \/ FetchPage(r) \/ FetchList(r) \/ Store(r) \/ GetFails(r)
    BY <1>1, <2>4, ReadSafe
  <2>5. QED
    BY <1>3, <2>2, <2>3, <2>4 DEF Step
<1>4a. ASSUME NEW i \in Ids, AckDelivered(i) PROVE PageFacts' /\ StaleNamed' /\ FetchedInv'
  <2>1. TypeOK
    BY DEF CacheInv
  <2>2. PICK F \in SUBSET Facts : CacheStep(F)
    BY <1>4a, <2>1, DeliveredSafe
  <2>3. QED
    BY <1>2, <2>2
<1>4. ASSUME \/ \E k \in Keys : Expire(k)
             \/ \E n \in Limits : GetCached(n) \/ GetOlder(n) \/ SyncMessages(n)
             \/ MessageSync \/ Crash \/ UNCHANGED vars
      PROVE  PageFacts' /\ StaleNamed' /\ FetchedInv'
  <2>1. TypeOK
    BY DEF CacheInv
  <2>2. CacheStep({})
    BY <1>4, <2>1, OtherSafe
  <2>3. QED
    BY <1>2, <2>2
<1>5. PageFacts' /\ StaleNamed' /\ FetchedInv'
  BY <1>3, <1>4a, <1>4 DEF Next
<1>6. QED
  BY <1>1, <1>5 DEF CacheInv

LEMMA CacheAlways == Spec => []CacheInv
  BY InitCache, NextCache, PTL DEF Spec

\* Whatever is asked, in whatever order, and whatever fails: rows, tasks,
\* entries and what clients have seen keep their types; in particular a page
\* answered from the cache is never empty, so that it has a next_cursor.
THEOREM HistoryTypeCorrect == Spec => []TypeOK
<1>1. CacheInv => TypeOK
  BY DEF CacheInv
<1>2. QED
  BY <1>1, CacheAlways, PTL

\* An entry that lacks a fact lacks it for one of the reasons named there.
THEOREM StaleEntriesNamed == Spec => []StaleNamed
<1>1. CacheInv => StaleNamed
  BY DEF CacheInv
<1>2. QED
  BY <1>1, CacheAlways, PTL

=============================================================================
