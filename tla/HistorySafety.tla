--------------------------- MODULE HistorySafety ---------------------------
(***************************************************************************)
(* Proofs about what History promises to clients: statuses, pages,         *)
(* synchronisation and read updates, each from an inductive invariant.     *)
(***************************************************************************)
EXTENDS HistoryProofs

-----------------------------------------------------------------------------
(***************************************************************************)
(* Which steps change what.                                                *)
(***************************************************************************)

\* No row appears, and receipts are all that changes one.
RowsKept ==
  \A i \in Ids : \/ rows'[i] = rows[i]
                 \/ /\ rows[i] \in Rows
                    /\ rows'[i] \in {DeliveredRow(rows[i]), ReadRow(rows[i])}

\* Nothing but marks of a reading.
RowsRead ==
  \A i \in Ids : \/ rows'[i] = rows[i]
                 \/ rows[i] \in Rows /\ rows'[i] = ReadRow(rows[i])

LEMMA RowsReadOrKept ==
  ASSUME TypeOK, [Next]_vars
  PROVE  \/ RowsRead
         \/ \E r \in Requests : Insert(r)
         \/ \E i \in Ids : AckDelivered(i)
<1>1. ASSUME rows' = rows PROVE RowsRead
  BY <1>1 DEF RowsRead
<1>2. ASSUME NEW r \in Requests, Step(r) PROVE RowsRead \/ Insert(r)
  <2>1. ASSUME NEW u \in Users, NEW i \in Ids, AckRead(r, u, i) PROVE RowsRead
    <3>1. rows[i] \in Rows /\ rows' = [rows EXCEPT ![i] = ReadRow(rows[i])]
      BY <2>1, VisibleRows DEF AckRead
    <3>2. QED
      BY <3>1 DEF RowsRead, TypeOK
  <2>2. ASSUME NEW u \in Users, ReadAll(r, u) PROVE RowsRead
    <3>1. PICK M \in SUBSET Visible :
            rows' = [i \in Ids |-> IF i \in M THEN ReadRow(rows[i]) ELSE rows[i]]
      <4>1. {i \in {j \in Visible : rows[j].from # u} : ToMark(rows[i])}
              \in SUBSET Visible
        OBVIOUS
      <4>2. QED
        BY <2>2, <4>1 DEF ReadAll
    <3>2. QED
      BY <3>1, VisibleRows DEF RowsRead
  <2>3. ASSUME Tell(r) \/ TellFails(r) \/ TellLatest(r) \/ NoLatest(r) PROVE RowsRead
    BY <1>1, <2>3 DEF Tell, TellFails, TellLatest, NoLatest
  <2>4. ASSUME \/ \E u \in Users, rest \in BOOLEAN : Send(r, u, rest)
               \/ InsertFails(r) \/ ReloadFails(r) \/ MembersFail(r)
               \/ \E k \in Keys : Invalidate(r, k) \/ InvalidateFails(r, k)
        PROVE  RowsRead
    BY <1>1, <2>4 DEF Send, InsertFails, ReloadFails, MembersFail, Invalidate,
                      InvalidateFails
  <2>5. ASSUME \/ \E u \in Users : GetList(r, u)
               \/ \E n \in Limits : GetMissed(r, n)
               \/ FetchPage(r) \/ FetchList(r) \/ Store(r) \/ GetFails(r)
        PROVE  RowsRead
    BY <1>1, <2>5 DEF GetList, GetMissed, FetchPage, FetchList, Store, GetFails
  <2>6. ASSUME NEW u \in Users, NEW p \in 0 .. MaxMessages, MarkGroup(r, u, p)
        PROVE  RowsRead
    BY <1>1, <2>6 DEF MarkGroup
  <2>7. QED
    BY <1>2, <2>1, <2>2, <2>3, <2>4, <2>5, <2>6 DEF Step
<1>3. ASSUME NEW n \in Limits, GetCached(n) \/ GetOlder(n) \/ SyncMessages(n)
      PROVE  RowsRead
  BY <1>1, <1>3 DEF GetCached, GetOlder, SyncMessages
<1>4. ASSUME MessageSync \/ Crash \/ (\E k \in Keys : Expire(k)) \/ UNCHANGED vars
      PROVE  RowsRead
  BY <1>1, <1>4 DEF MessageSync, Crash, Expire, vars
<1>5. QED
  BY <1>2, <1>3, <1>4 DEF Next

LEMMA RowsChange ==
  ASSUME TypeOK, [Next]_vars
  PROVE  RowsKept \/ \E r \in Requests : Insert(r)
<1>1. RowsRead => RowsKept
  BY DEF RowsRead, RowsKept
<1>2. ASSUME NEW i \in Ids, AckDelivered(i) PROVE RowsKept
  <2>1. rows[i] \in Rows /\ rows' = [rows EXCEPT ![i] = DeliveredRow(rows[i])]
    BY <1>2, VisibleRows DEF AckDelivered
  <2>2. QED
    BY <2>1 DEF RowsKept, TypeOK
<1>3. QED
  BY <1>1, <1>2, RowsReadOrKept

LEMMA KeptRows ==
  ASSUME TypeOK, RowsKept
  PROVE  /\ Visible' = Visible
         /\ \A i \in Visible : /\ rows'[i].from = rows[i].from
                               /\ rows[i].read => rows'[i].read
<1>1. ASSUME NEW i \in Ids, rows[i] \in Rows, rows'[i] # rows[i]
      PROVE  /\ rows'[i] \in Rows /\ rows'[i].from = rows[i].from
             /\ rows[i].read => rows'[i].read
  BY <1>1, RowsTyped DEF RowsKept
<1>2. \A i \in Ids : rows'[i] # None <=> rows[i] # None
  BY <1>1, NoneAssumption DEF RowsKept
<1>3. QED
  BY <1>1, <1>2, VisibleRows DEF Visible

\* Which steps change what clients have seen.
LEMMA ClientsChange ==
  ASSUME [Next]_vars
  PROVE  /\ \/ page' = page
            \/ \E r \in Requests : Insert(r) \/ FetchPage(r)
            \/ \E n \in Limits : GetCached(n) \/ GetOlder(n)
         /\ \/ sync' = sync
            \/ \E r \in Requests : Insert(r)
            \/ \E l \in Nat \ {0} : Synced(l) /\ rows' = rows /\ page' = page
         /\ told' = told \/ \E r \in Requests : Tell(r) \/ TellLatest(r)
<1>1. ASSUME NEW r \in Requests, Step(r)
      PROVE  clients' = clients \/ Insert(r) \/ FetchPage(r) \/ Tell(r) \/ TellLatest(r)
  <2>1. ASSUME \/ \E u \in Users, rest \in BOOLEAN : Send(r, u, rest)
               \/ \E u \in Users, i \in Ids : AckRead(r, u, i)
               \/ \E u \in Users, p \in 0 .. MaxMessages : MarkGroup(r, u, p)
               \/ \E u \in Users : ReadAll(r, u) \/ GetList(r, u)
        PROVE  clients' = clients
    BY <2>1 DEF Send, AckRead, MarkGroup, ReadAll, GetList
  <2>2. ASSUME \/ InsertFails(r) \/ ReloadFails(r) \/ MembersFail(r)
               \/ \E k \in Keys : Invalidate(r, k) \/ InvalidateFails(r, k)
               \/ TellFails(r) \/ NoLatest(r)
        PROVE  clients' = clients
    BY <2>2 DEF InsertFails, ReloadFails, MembersFail, Invalidate, InvalidateFails,
                TellFails, NoLatest
  <2>3. ASSUME \/ \E n \in Limits : GetMissed(r, n)
               \/ FetchList(r) \/ Store(r) \/ GetFails(r)
        PROVE  clients' = clients
    BY <2>3 DEF GetMissed, FetchList, Store, GetFails
  <2>4. QED
    BY <1>1, <2>1, <2>2, <2>3 DEF Step
<1>2. ASSUME \/ \E i \in Ids : AckDelivered(i)
             \/ \E k \in Keys : Expire(k)
             \/ Crash \/ UNCHANGED vars
      PROVE  clients' = clients
  BY <1>2 DEF AckDelivered, Expire, Crash, vars
<1>3. ASSUME NEW r \in Requests, Insert(r) PROVE told' = told
  BY <1>3 DEF Insert
<1>4. ASSUME NEW r \in Requests, FetchPage(r) PROVE sync' = sync /\ told' = told
  BY <1>4 DEF FetchPage
<1>5. ASSUME NEW r \in Requests, Tell(r) \/ TellLatest(r)
      PROVE  page' = page /\ sync' = sync
  BY <1>5 DEF Tell, TellLatest
<1>6. ASSUME NEW n \in Limits, GetCached(n) \/ GetOlder(n)
      PROVE  sync' = sync /\ told' = told
  BY <1>6 DEF GetCached, GetOlder
<1>7. ASSUME NEW n \in Limits, SyncMessages(n)
      PROVE  /\ page' = page /\ told' = told
             /\ \E l \in Nat \ {0} : Synced(l) /\ rows' = rows /\ page' = page
  BY <1>7, LimitsTyped DEF SyncMessages
<1>8. ASSUME MessageSync
      PROVE  /\ page' = page /\ told' = told
             /\ \E l \in Nat \ {0} : Synced(l) /\ rows' = rows /\ page' = page
  BY <1>8, HistoryAssumption DEF MessageSync
<1>9. clients' = clients => page' = page /\ sync' = sync /\ told' = told
  BY DEF clients
<1>10. QED
  BY <1>1, <1>2, <1>3, <1>4, <1>5, <1>6, <1>7, <1>8, <1>9 DEF Next

-----------------------------------------------------------------------------
(***************************************************************************)
(* Statuses.                                                               *)
(***************************************************************************)

Backed(m) ==
  /\ m.status = "read" => m.read
  /\ m.status = "delivered" <=> m.delivered /\ m.status # "read"
  /\ m.read => m.status \in {"delivered", "read"}

LEMMA BackedRows ==
  /\ \A m : Backed(NewRow(m))
  /\ \A m \in Rows : Backed(m) => Backed(DeliveredRow(m)) /\ Backed(ReadRow(m))
  BY DEF Backed, NewRow, DeliveredRow, ReadRow, Rows

LEMMA NextBacked ==
  ASSUME TypeOK, StatusBacked, [Next]_vars
  PROVE  StatusBacked'
<1>1. \A i \in Visible : Backed(rows[i])
  BY DEF StatusBacked, Backed
<1>2. ASSUME NEW i \in Visible' PROVE Backed(rows'[i])
  <2>1. i \in Ids
    BY DEF Visible
  <2>2. CASE RowsKept
    <3>1. i \in Visible /\ rows[i] \in Rows
      BY <2>2, KeptRows, VisibleRows
    <3>2. QED
      BY <1>1, <2>1, <2>2, <3>1, BackedRows DEF RowsKept
  <2>3. ASSUME NEW r \in Requests, Insert(r) PROVE Backed(rows'[i])
    <3>1. rows' = [rows EXCEPT ![task[r].id] = NewRow(task[r])]
      BY <2>3 DEF Insert
    <3>2. CASE i = task[r].id
      BY <2>1, <3>1, <3>2, BackedRows DEF TypeOK
    <3>3. CASE i # task[r].id
      <4>1. rows'[i] = rows[i]
        BY <2>1, <3>1, <3>3 DEF TypeOK
      <4>2. QED
        BY <1>1, <4>1 DEF Visible
    <3>4. QED
      BY <3>2, <3>3
  <2>4. QED
    BY <2>2, <2>3, RowsChange
<1>3. QED
  BY <1>2 DEF StatusBacked, Backed

\* Whatever receipts come in whatever order, a row's status agrees with its
\* flags.
THEOREM StatusesBacked == Spec => []StatusBacked
<1>1. Init => StatusBacked
  BY DEF Init, StatusBacked, Visible
<1>2. TypeOK /\ StatusBacked /\ [Next]_vars => StatusBacked'
  BY NextBacked
<1>3. QED
  BY <1>1, <1>2, HistoryTypeCorrect, PTL DEF Spec

-----------------------------------------------------------------------------
(***************************************************************************)
(* Synchronisation.                                                        *)
(***************************************************************************)

\* The row of one message becomes visible, if any does.
LEMMA VisibleGrows ==
  ASSUME TypeOK, [Next]_vars
  PROVE  \/ Visible' = Visible
         \/ \E r \in Requests : /\ Insert(r) /\ task[r].id \in Ids
                                /\ Visible' \subseteq Visible \cup {task[r].id}
<1>1. ASSUME NEW r \in Requests, Insert(r)
      PROVE  task[r].id \in Ids /\ Visible' \subseteq Visible \cup {task[r].id}
  <2>1. task[r].id \in Ids
    BY <1>1, TaskFields DEF Insert, TypeOK
  <2>2. rows' = [rows EXCEPT ![task[r].id] = NewRow(task[r])]
    BY <1>1 DEF Insert
  <2>3. QED
    BY <2>1, <2>2 DEF Visible
<1>2. QED
  BY <1>1, RowsChange, KeptRows

\* The last message a client has is one it has been given.
SyncInv ==
  /\ SyncComplete
  /\ sync.last = 0 \/ sync.last \in sync.got

LEMMA SyncedSafe ==
  ASSUME TypeOK, SyncInv, NEW l \in Nat \ {0}, Synced(l), Visible' = Visible
  PROVE  SyncInv'
<1> DEFINE S == {i \in Visible : i > sync.last}
           n == SyncLimit(l)
           ids == Oldest(S, n)
<1>1. S \in SUBSET Ids /\ n \in Nat \ {0}
  BY HistoryAssumption DEF Visible, SyncLimit
<1>2. /\ ids \subseteq S
      /\ \A i \in S, j \in ids : i <= j => i \in ids
      /\ \A i \in S \ ids : Cardinality(ids) >= n
      /\ Cardinality(ids) \in Nat /\ Cardinality(ids) <= n
  <2> HIDE DEF S, n
  <2>1. QED
    BY <1>1, OldestCut
<1>3. /\ sync'.got = sync.got \cup ids /\ sync'.late = sync.late
      /\ sync'.last = IF ids = {} THEN sync.last ELSE Latest(ids)
      /\ sync'.more = (Cardinality(ids) = l) /\ sync'.limit = l
  <2>1. sync' = [sync EXCEPT !.got = @ \cup ids,
                             !.last = IF ids = {} THEN @ ELSE Latest(ids),
                             !.more = (Cardinality(ids) = l),
                             !.limit = l, !.since = {}]
    BY DEF Synced, Batch
  <2>2. sync \in Syncs
    BY DEF TypeOK
  <2> HIDE DEF ids
  <2>3. QED
    BY <2>1, <2>2 DEF Syncs
<1>4. sync.last \in Nat /\ \A i \in Visible : i \in Nat
  BY IdNumbers DEF TypeOK, Syncs, Visible
<1>5. \A i \in S : i \in Visible /\ i > sync.last
  OBVIOUS
<1>6. \A i \in Visible : i > sync.last => i \in S
  OBVIOUS
<1>7. l <= PageCap => n = l
  BY HistoryAssumption DEF SyncLimit
<1> HIDE DEF ids, S, n
<1>8. ids # {} => Latest(ids) \in ids
  BY <1>1, <1>2, LatestMember
<1>9. ASSUME NEW i \in Visible, i <= sync'.last PROVE i \in sync'.got \cup sync'.late
  <2>1. CASE i <= sync.last
    BY <1>3, <2>1 DEF SyncInv, SyncComplete
  <2>2. CASE i > sync.last
    <3>1. ids # {} /\ i <= Latest(ids)
      BY <1>3, <1>4, <1>9, <2>2
    <3>2. i \in ids
      BY <1>2, <1>6, <1>8, <2>2, <3>1
    <3>3. QED
      BY <1>3, <3>2
  <2>3. QED
    BY <1>4, <2>1, <2>2
<1>10. ASSUME NEW i \in Visible, ~sync'.more, sync'.limit <= PageCap
       PROVE  i \in sync'.got \cup sync'.late
  <2>1. CASE i <= sync.last
    BY <1>3, <2>1 DEF SyncInv, SyncComplete
  <2>2. CASE i > sync.last
    <3>1. ~(Cardinality(ids) >= n)
      <4>1. Cardinality(ids) # l
        BY <1>3, <1>10, Zenon
      <4>2. n = l
        BY <1>3, <1>7, <1>10
      <4>3. QED
        BY <1>1, <1>2, <4>1, <4>2
    <3>2. i \in ids
      BY <1>2, <1>6, <2>2, <3>1
    <3>3. QED
      BY <1>3, <3>2
  <2>3. QED
    BY <1>4, <2>1, <2>2
<1>11. sync'.last = 0 \/ sync'.last \in sync'.got
  BY <1>3, <1>8 DEF SyncInv
<1>12. QED
  BY <1>9, <1>10, <1>11 DEF SyncInv, SyncComplete

LEMMA NextSync ==
  ASSUME TypeOK, SyncInv, [Next]_vars
  PROVE  SyncInv'
<1>1. ASSUME NEW r \in Requests, Insert(r) PROVE SyncInv'
  <2> DEFINE i == task[r].id
  <2>1. i \in Ids /\ Visible' \subseteq Visible \cup {i}
    <3>1. i \in Ids
      BY <1>1, TaskFields DEF Insert, TypeOK
    <3>2. rows' = [rows EXCEPT ![i] = NewRow(task[r])]
      BY <1>1 DEF Insert
    <3>3. QED
      BY <3>1, <3>2 DEF Visible
  <2>2. /\ sync'.got = sync.got /\ sync'.last = sync.last
        /\ sync'.more = sync.more /\ sync'.limit = sync.limit
        /\ sync'.since = sync.since \cup {i}
        /\ sync'.late = IF i < sync.last THEN sync.late \cup {i} ELSE sync.late
    <3>1. sync' = [sync EXCEPT !.since = @ \cup {i},
                               !.late = IF i < sync.last THEN @ \cup {i} ELSE @]
      BY <1>1 DEF Insert, Appears
    <3>2. sync \in Syncs
      BY DEF TypeOK
    <3> HIDE DEF i
    <3>3. QED
      BY <3>1, <3>2 DEF Syncs
  <2>3. i \in Nat \ {0} /\ sync.last \in Nat
    BY <2>1, IdNumbers DEF TypeOK, Syncs
  <2> HIDE DEF i
  <2>4. i <= sync.last => i \in sync'.got \cup sync'.late
    BY <2>2, <2>3 DEF SyncInv
  <2>5. QED
    BY <2>1, <2>2, <2>4 DEF SyncInv, SyncComplete
<1>2. ASSUME NEW l \in Nat \ {0}, Synced(l), Visible' = Visible PROVE SyncInv'
  BY <1>2, SyncedSafe
<1>3. ASSUME sync' = sync, Visible' = Visible PROVE SyncInv'
  BY <1>3 DEF SyncInv, SyncComplete
<1>4. QED
  BY <1>1, <1>2, <1>3, VisibleGrows, ClientsChange

\* A client that synchronises, from either end, misses no message that was
\* there when it was told that there is no more.
THEOREM SynchronisationComplete == Spec => []SyncComplete
<1>1. Init => SyncInv
  BY DEF Init, SyncInv, SyncComplete, Visible
<1>2. TypeOK /\ SyncInv /\ [Next]_vars => SyncInv'
  BY NextSync
<1>3. SyncInv => SyncComplete
  BY DEF SyncInv
<1>4. QED
  BY <1>1, <1>2, <1>3, HistoryTypeCorrect, PTL DEF Spec

-----------------------------------------------------------------------------
(***************************************************************************)
(* Pages.                                                                  *)
(***************************************************************************)

Spans(ids, i) == Least(ids) <= i /\ i <= Latest(ids)

\* The newest messages leave out none between two of them.
LEMMA NewestSpans ==
  ASSUME NEW S \in SUBSET Ids, NEW n \in Nat, NEW i \in S,
         Newest(S, n) # {}, Spans(Newest(S, n), i)
  PROVE  i \in Newest(S, n)
<1> DEFINE ids == Newest(S, n)
<1>1. ids \subseteq S /\ \A a \in S, b \in ids : b <= a => a \in ids
  BY NewestCut
<1> HIDE DEF ids
<1>2. Least(ids) \in ids
  BY <1>1, LeastMember DEF ids
<1>3. QED
  BY <1>1, <1>2 DEF Spans, ids

LEMMA AnswerFields ==
  ASSUME NEW S, NEW L
  PROVE  /\ Answer(S, L).got = S /\ Answer(S, L).late = L
         /\ Answer(S, L).cursor = Least(S) /\ Answer(S, L).top = Latest(S)
  BY DEF Answer

\* A first page from the cache: what it lacks is excused or awaited.
LEMMA CachedPage ==
  ASSUME CacheInv, NEW n \in Limits, GetCached(n), Visible' = Visible
  PROVE  PagesComplete'
<1> DEFINE e == entry[Conv]
           have == IdsIn(e.facts)
           ids == Newest(have, PageLimit(n))
           late == IdsIn(e.excused \cup Pending(Conv))
<1>1. page' = Answer(ids, late) /\ e # None
  BY DEF GetCached
<1>2. e \in Entries /\ Conv \in Keys
  BY <1>1 DEF CacheInv, TypeOK, Keys
<1>4. have \in SUBSET Ids /\ have # {}
  BY <1>1 DEF CacheInv, PageFacts, IdsIn
<1>5. PageLimit(n) \in Nat \ {0}
  BY LimitsTyped
<1>6. ids \subseteq have /\ ids # {}
  <2> HIDE DEF have
  <2>1. QED
    BY <1>4, <1>5, NewestCut
<1>7. ASSUME NEW i \in Visible, Spans(ids, i) PROVE i \in ids \cup late
  <2>1. CASE i \in have
    <3> HIDE DEF have
    <3>1. QED
      BY <1>4, <1>5, <1>6, <1>7, <2>1, NewestSpans
  <2>2. CASE i \notin have
    <3> DEFINE f == <<"sent", i>>
    <3>1. f \in Now(Conv) \ e.facts
      BY <2>2, VisibleIds DEF Now, Messages, IdsIn
    <3>2. Least(ids) \in ids
      <4> HIDE DEF ids, have
      <4>1. QED
        BY <1>4, <1>6, LeastMember
    <3>3. Least(ids) # i /\ Least(ids) \in have /\ i \in Nat /\ Least(ids) \in Nat
      <4> HIDE DEF ids, have
      <4>1. QED
        BY <1>4, <1>6, <2>2, <3>2, IdNumbers DEF Visible
    <3>4. Least(ids) < i
      <4> HIDE DEF ids
      <4>1. QED
        BY <1>7, <3>3 DEF Spans
    <3>6. Covers(e, f)
      <4>1. f[2] = i
        OBVIOUS
      <4> HIDE DEF ids, f
      <4>2. QED
        BY <3>3, <3>4, <4>1 DEF Covers
    <3>7. f \in e.excused \cup Pending(Conv)
      BY <1>1, <1>2, <3>1, <3>6 DEF CacheInv, StaleNamed
    <3>8. i \in late
      BY <3>7, VisibleIds DEF IdsIn
    <3>9. QED
      BY <3>8
  <2>3. QED
    BY <2>1, <2>2
<1> HIDE DEF ids, late, e
<1>8. QED
  BY <1>1, <1>7, AnswerFields DEF PagesComplete, Spans

\* A first page from the database.
LEMMA FetchedPage ==
  ASSUME TypeOK, PagesComplete, NEW r \in Requests, FetchPage(r), Visible' = Visible
  PROVE  PagesComplete'
<1> DEFINE ids == Newest(Visible, task[r].limit)
<1>1. Visible \in SUBSET Ids /\ task[r].limit \in Nat
  BY VisibleIds, TaskFields DEF FetchPage, TypeOK
<1>2. CASE ids = {}
  BY <1>2 DEF FetchPage, PagesComplete
<1>3. CASE ids # {}
  <2>1. page' = Answer(ids, {})
    BY <1>3 DEF FetchPage
  <2>2. \A i \in Visible : Spans(ids, i) => i \in ids
    BY <1>1, <1>3, NewestSpans
  <2> HIDE DEF ids
  <2>3. QED
    BY <2>1, <2>2, AnswerFields DEF PagesComplete, Spans
<1>4. QED
  BY <1>2, <1>3

\* The next page reaches up to the cursor.
LEMMA OlderPage ==
  ASSUME TypeOK, PagesComplete, NEW n \in Limits, GetOlder(n), Visible' = Visible
  PROVE  PagesComplete'
<1> DEFINE S == {i \in Visible : i < page.cursor}
           ids == Newest(S, PageLimit(n))
<1>1. S \in SUBSET Ids /\ PageLimit(n) \in Nat
  BY VisibleIds, LimitsTyped
<1>2. ids # {} /\ page \in Pages
      /\ page' = [page EXCEPT !.got = @ \cup ids, !.cursor = Least(ids)]
  BY DEF GetOlder, Older, TypeOK
<1>3. page'.got = page.got \cup ids /\ page'.cursor = Least(ids)
      /\ page'.top = page.top /\ page'.late = page.late /\ page # None
  <2>1. page # None
    BY DEF GetOlder
  <2> HIDE DEF ids
  <2>2. QED
    BY <1>2, <2>1 DEF Pages
<1>4. page.cursor \in Nat /\ page.top \in Nat /\ \A i \in Visible : i \in Nat
  BY <1>2, IdNumbers DEF Pages, Visible
<1>5. \A i \in Visible : i < page.cursor => i \in S
  OBVIOUS
<1>6. ids \subseteq S /\ \A a \in S, b \in ids : b <= a => a \in ids
  <2> HIDE DEF S
  <2>1. QED
    BY <1>1, NewestCut
<1> HIDE DEF S, ids
<1>7. Least(ids) \in ids /\ Least(ids) \in Nat
  BY <1>1, <1>2, <1>6, LeastMember, IdNumbers
<1>8. ASSUME NEW i \in Visible, i \in page'.cursor .. page'.top
      PROVE  i \in page'.got \cup page'.late
  <2>1. Least(ids) <= i /\ i <= page.top
    BY <1>3, <1>4, <1>7, <1>8
  <2>2. CASE i < page.cursor
    BY <1>3, <1>5, <1>6, <1>7, <2>1, <2>2
  <2>3. CASE page.cursor <= i
    <3>1. i \in page.cursor .. page.top
      BY <1>4, <2>1, <2>3
    <3>2. QED
      BY <1>3, <3>1 DEF PagesComplete
  <2>4. QED
    BY <1>4, <2>2, <2>3
<1>9. QED
  BY <1>8 DEF PagesComplete

LEMMA NextPages ==
  ASSUME CacheInv, PagesComplete, [Next]_vars
  PROVE  PagesComplete'
<1>1. TypeOK
  BY DEF CacheInv
<1>2. ASSUME NEW r \in Requests, Insert(r) PROVE PagesComplete'
  <2> DEFINE i == task[r].id
  <2>1. Visible' \subseteq Visible \cup {i}
    BY <1>1, <1>2 DEF Insert, Visible, TypeOK
  <2>2. page' = IF page = None THEN None ELSE [page EXCEPT !.late = @ \cup {i}]
    BY <1>2 DEF Insert, Appears
  <2>3. page # None => page \in Pages
    BY <1>1 DEF TypeOK
  <2> HIDE DEF i
  <2>4. CASE page = None
    BY <2>2, <2>4 DEF PagesComplete
  <2>5. CASE page # None
    <3>1. /\ page'.got = page.got /\ page'.cursor = page.cursor /\ page'.top = page.top
          /\ page'.late = page.late \cup {i}
      BY <2>2, <2>3, <2>5 DEF Pages
    <3>2. QED
      BY <2>1, <2>5, <3>1 DEF PagesComplete
  <2>6. QED
    BY <2>4, <2>5
<1>3. ASSUME page' = page, Visible' = Visible PROVE PagesComplete'
  BY <1>3 DEF PagesComplete
<1>4. ASSUME Visible' = Visible PROVE PagesComplete'
  BY <1>1, <1>2, <1>3, <1>4, ClientsChange, CachedPage, FetchedPage, OlderPage
<1>5. QED
  BY <1>1, <1>2, <1>4, VisibleGrows

\* A client that follows next_cursor skips no message, whether its first page
\* came from the database or from the cache.
THEOREM PagesSkipNothing == Spec => []PagesComplete
<1>1. Init => PagesComplete
  BY DEF Init, PagesComplete
<1>2. CacheInv /\ PagesComplete /\ [Next]_vars => PagesComplete'
  BY NextPages
<1>3. QED
  BY <1>1, <1>2, CacheAlways, PTL DEF Spec

-----------------------------------------------------------------------------
(***************************************************************************)
(* Read updates.                                                           *)
(***************************************************************************)

\* None of these requests starts to insert a row or to tell of a reading, and
\* those that are about to tell of a whole conversation forget nothing.
TasksKept(requests) ==
  \A q \in requests :
    /\ task'[q].pc \in {"insert", "tell"} => task'[q] = task[q]
    /\ task'[q].pc = "latest" => /\ task[q].pc = "latest" /\ task'[q].by = task[q].by
                                 /\ task[q].since \subseteq task'[q].since

LEMMA GoesKept ==
  ASSUME TypeOK, NEW r \in Requests, NEW t, Goto(r, t)
  PROVE  /\ TasksKept(Requests \ {r})
         /\ t.pc \notin {"insert", "tell", "latest"} => TasksKept(Requests)
  BY DEF Goto, TasksKept, TypeOK

LEMMA OutdatedKept ==
  ASSUME NEW t \in Tasks, NEW F
  PROVE  /\ Outdated(t, F).pc \in {"insert", "tell"} => Outdated(t, F) = t
         /\ Outdated(t, F).pc = "latest" =>
              /\ t.pc = "latest" /\ Outdated(t, F).by = t.by
              /\ t.since \cup F \subseteq Outdated(t, F).since
<1>1. CASE t.pc \in {"store", "latest"}
  BY <1>1 DEF Outdated, Tasks, Idle
<1>2. CASE t.pc \notin {"store", "latest"}
  BY <1>2 DEF Outdated
<1>3. QED
  BY <1>1, <1>2

LEMMA HappensKept ==
  ASSUME TypeOK, NEW r \in Requests, NEW F, NEW K, NEW t, Happens(r, F, K, t)
  PROVE  /\ TasksKept(Requests \ {r})
         /\ t.pc \notin {"insert", "tell", "latest"} => TasksKept(Requests)
         /\ \A q \in Requests \ {r} : task'[q].pc = "latest" => F \subseteq task'[q].since
<1>1. \A q \in Requests : task'[q] = IF q = r THEN t ELSE Outdated(task[q], F)
  BY DEF Happens
<1>2. QED
  BY <1>1, OutdatedKept DEF TasksKept, TypeOK

LEMMA UnannouncedKept ==
  ASSUME TypeOK, NEW F, Unannounced(F)
  PROVE  TasksKept(Requests)
  BY OutdatedKept DEF Unannounced, TasksKept, TypeOK

LEMMA AnnouncePc ==
  ASSUME NEW u, NEW F, NEW K
  PROVE  Announce(u, F, K).pc \in {"idle", "announce"}
  BY DEF Announce, Idle

LEMMA TasksChange ==
  ASSUME TypeOK, [Next]_vars
  PROVE  \/ TasksKept(Requests) /\ taken' = taken
         \/ \E r \in Requests :
              /\ TasksKept(Requests \ {r})
              /\ \/ \E u \in Users, rest \in BOOLEAN : Send(r, u, rest)
                 \/ /\ taken' = taken
                    /\ \E u \in Users : \/ \E i \in Ids : AckRead(r, u, i)
                                        \/ ReadAll(r, u)
<1> DEFINE Quiet == TasksKept(Requests) /\ taken' = taken
<1>1. ASSUME task' = task PROVE TasksKept(Requests)
  BY <1>1 DEF TasksKept
<1>2. ASSUME NEW r \in Requests, NEW u \in Users, NEW rest \in BOOLEAN, Send(r, u, rest)
      PROVE  TasksKept(Requests \ {r})
  BY <1>2, GoesKept DEF Send
<1>3. ASSUME NEW r \in Requests, NEW u \in Users, NEW i \in Ids, AckRead(r, u, i)
      PROVE  TasksKept(Requests \ {r}) /\ taken' = taken
  BY <1>3, HappensKept DEF AckRead
<1>4. ASSUME NEW r \in Requests, NEW u \in Users, ReadAll(r, u)
      PROVE  TasksKept(Requests \ {r}) /\ taken' = taken
  BY <1>4, HappensKept DEF ReadAll
<1>5. ASSUME NEW r \in Requests, Insert(r) PROVE Quiet
  BY <1>5, HappensKept, AnnouncePc DEF Insert
<1>5a. ASSUME NEW r \in Requests, NEW u \in Users, NEW p \in 0 .. MaxMessages,
              MarkGroup(r, u, p)
       PROVE  Quiet
  BY <1>5a, HappensKept, AnnouncePc DEF MarkGroup
<1>6. ASSUME NEW r \in Requests,
             \/ InsertFails(r) \/ ReloadFails(r) \/ TellFails(r) \/ GetFails(r) \/ Store(r)
      PROVE  Quiet
  <2>1. Goto(r, Idle) /\ Idle.pc = "idle" /\ taken' = taken
    BY <1>6 DEF InsertFails, ReloadFails, TellFails, GivesUp, GetFails, Store, Idle
  <2>2. QED
    BY <2>1, GoesKept
<1>7. ASSUME NEW r \in Requests,
             \/ MembersFail(r) \/ (\E k \in Keys : Invalidate(r, k) \/ InvalidateFails(r, k))
             \/ Tell(r) \/ TellLatest(r) \/ NoLatest(r)
      PROVE  Quiet
  <2>1. taken' = taken
    BY <1>7 DEF MembersFail, Invalidate, InvalidateFails, Tell, TellLatest, NoLatest
  <2>2. \E u, F, K : Goto(r, Announce(u, F, K))
    BY <1>7 DEF MembersFail, Invalidate, InvalidateFails, GivesUp, Rest, Tell, TellLatest,
                NoLatest
  <2>3. QED
    BY <2>1, <2>2, GoesKept, AnnouncePc
<1>8. ASSUME NEW r \in Requests,
             \/ \E u \in Users : GetList(r, u)
             \/ \E n \in Limits : GetMissed(r, n)
             \/ FetchPage(r) \/ FetchList(r)
      PROVE  Quiet
  <2>1. taken' = taken
    <3>1. FetchPage(r) => taken' = taken
      BY DEF FetchPage
    <3>2. QED
      BY <1>8, <3>1 DEF GetList, GetMissed, FetchList
  <2>2. \E t : Goto(r, t) /\ t.pc \in {"idle", "fetch", "store"}
    <3>1. ASSUME FetchPage(r)
          PROVE  \E t : Goto(r, t) /\ t.pc \in {"idle", "store"}
      <4> DEFINE ids == Newest(Visible, task[r].limit)
                 t == [pc |-> "store", key |-> Conv, limit |-> task[r].limit,
                       facts |-> Messages(ids), since |-> {}]
      <4>1. Goto(r, Idle) \/ Goto(r, t)
        BY <3>1 DEF FetchPage
      <4>2. Idle.pc = "idle" /\ t.pc = "store"
        BY DEF Idle
      <4> HIDE DEF t
      <4>3. QED
        BY <4>1, <4>2
    <3>2. ASSUME FetchList(r)
          PROVE  \E t : Goto(r, t) /\ t.pc = "store"
      <4> DEFINE t == [pc |-> "store", key |-> task[r].key, limit |-> task[r].limit,
                       facts |-> Now(task[r].key), since |-> {}]
      <4>1. Goto(r, t) /\ t.pc = "store"
        BY <3>2 DEF FetchList
      <4> HIDE DEF t
      <4>2. QED
        BY <4>1
    <3>3. ASSUME NEW k, NEW n, Goto(r, [pc |-> "fetch", key |-> k, limit |-> n])
          PROVE  \E t : Goto(r, t) /\ t.pc = "fetch"
      <4> DEFINE t == [pc |-> "fetch", key |-> k, limit |-> n]
      <4>1. Goto(r, t) /\ t.pc = "fetch"
        BY <3>3
      <4> HIDE DEF t
      <4>2. QED
        BY <4>1
    <3>4. QED
      BY <1>8, <3>1, <3>2, <3>3 DEF GetList, GetMissed
  <2>3. QED
    BY <2>1, <2>2, GoesKept
<1>8a. ASSUME NEW i \in Ids, AckDelivered(i) PROVE Quiet
  BY <1>8a, UnannouncedKept DEF AckDelivered
<1>9. ASSUME \/ \E k \in Keys : Expire(k)
             \/ \E n \in Limits : GetCached(n) \/ GetOlder(n) \/ SyncMessages(n)
             \/ MessageSync \/ UNCHANGED vars
      PROVE  Quiet
  BY <1>1, <1>9 DEF Expire, GetCached, GetOlder, SyncMessages, MessageSync, vars
<1>10. ASSUME Crash PROVE Quiet
  BY <1>10 DEF Crash, TasksKept, Idle
<1> HIDE DEF Quiet
<1>11. ASSUME NEW r \in Requests, Step(r)
       PROVE  \/ Quiet
              \/ \E u \in Users, rest \in BOOLEAN : Send(r, u, rest)
              \/ \E u \in Users : (\E i \in Ids : AckRead(r, u, i)) \/ ReadAll(r, u)
  BY <1>5, <1>5a, <1>6, <1>7, <1>8, <1>11 DEF Step
<1>12. QED
  BY <1>2, <1>3, <1>4, <1>8a, <1>9, <1>10, <1>11 DEF Next, Quiet

\* Ids are taken once, and a request that is about to tell of a reading has
\* seen it done.
FreshIds ==
  /\ \A i \in Visible : i <= taken
  /\ \A q \in Requests : task[q].pc = "insert" =>
       /\ task[q].id <= taken
       /\ task[q].id \notin Visible
       /\ \A r \in Requests \ {q} : task[r].pc = "insert" => task[r].id # task[q].id

ReadBeforeTold ==
  \A q \in Requests :
    /\ task[q].pc = "tell" => task[q].id \in Visible /\ rows[task[q].id].read
    /\ task[q].pc = "latest" =>
         \A i \in Visible : \/ rows[i].read \/ rows[i].from = task[q].by
                            \/ <<"sent", i>> \in task[q].since

TellInv == TypeOK /\ FreshIds /\ ReadBeforeTold

\* What requests hold on to, while rows stay.
LEMMA KeptTells ==
  ASSUME TypeOK, TypeOK', ReadBeforeTold, RowsKept, NEW R \in SUBSET Requests,
         TasksKept(R), NEW q \in R
  PROVE  /\ task'[q].pc = "tell" => task'[q].id \in Visible' /\ rows'[task'[q].id].read
         /\ task'[q].pc = "latest" =>
              \A i \in Visible' : \/ rows'[i].read \/ rows'[i].from = task'[q].by
                                  \/ <<"sent", i>> \in task'[q].since
<1>1. /\ Visible' = Visible
      /\ \A i \in Visible : /\ rows'[i].from = rows[i].from
                            /\ rows[i].read => rows'[i].read
  BY KeptRows
<1>2. ASSUME task'[q].pc = "tell"
      PROVE  task'[q].id \in Visible' /\ rows'[task'[q].id].read
  BY <1>1, <1>2 DEF TasksKept, ReadBeforeTold
<1>3. ASSUME task'[q].pc = "latest", NEW i \in Visible'
      PROVE  \/ rows'[i].read \/ rows'[i].from = task'[q].by
             \/ <<"sent", i>> \in task'[q].since
  BY <1>1, <1>3 DEF TasksKept, ReadBeforeTold
<1>4. QED
  BY <1>2, <1>3

\* Sending: a new id.
LEMMA SendTells ==
  ASSUME TellInv, NEW r \in Requests, NEW u \in Users, NEW rest \in BOOLEAN,
         Send(r, u, rest), TasksKept(Requests \ {r}), TypeOK'
  PROVE  TellInv'
<1> USE DEF TellInv
<1>1. /\ \A q \in Requests : task'[q] = IF q = r THEN [pc |-> "insert", id |-> taken + 1,
                                                       from |-> u, rest |-> rest]
                                        ELSE task[q]
      /\ taken' = taken + 1 /\ rows' = rows /\ taken \in Nat
  BY IdNumbers DEF Send, Goto, TypeOK
<1>2. Visible' = Visible /\ RowsKept /\ \A i \in Visible : i \in Nat
  BY <1>1, IdNumbers DEF Visible, RowsKept
<1>3. \A i \in Visible' : i <= taken'
  BY <1>1, <1>2 DEF FreshIds
<1>4. ASSUME NEW q \in Requests, task'[q].pc = "insert"
      PROVE  /\ task'[q].id <= taken' /\ task'[q].id \notin Visible'
             /\ \A p \in Requests \ {q} : task'[p].pc = "insert" => task'[p].id # task'[q].id
  <2>1. \A p \in Requests : task[p].pc = "insert" => task[p].id \in Nat /\ task[p].id <= taken
    BY TaskFields, IdNumbers DEF TypeOK, FreshIds
  <2>2. task'[r].id = taken + 1
    BY <1>1
  <2>3. CASE q = r
    BY <1>1, <1>2, <2>1, <2>2, <2>3 DEF FreshIds
  <2>4. CASE q # r
    <3>1. task'[q] = task[q] /\ task[q].pc = "insert"
      BY <1>1, <1>4, <2>4
    <3>2. \A p \in Requests \ {q, r} : task'[p] = task[p]
      BY <1>1
    <3>3. QED
      BY <1>1, <1>2, <2>1, <2>2, <3>1, <3>2 DEF FreshIds
  <2>5. QED
    BY <2>3, <2>4
<1>5. FreshIds'
  BY <1>3, <1>4 DEF FreshIds
<1>6. ReadBeforeTold'
  BY <1>1, <1>2, KeptTells DEF ReadBeforeTold
<1>7. QED
  BY <1>5, <1>6

\* The row of a new message, which no request is about to tell of.
LEMMA InsertTells ==
  ASSUME TellInv, NEW r \in Requests, Insert(r), TypeOK'
  PROVE  TellInv'
<1> USE DEF TellInv
<1> DEFINE m == task[r]
           t == Announce(m.from, Sent({m.id}), KeysOf(m))
<1>1. /\ m.pc = "insert" /\ m.id \in Ids
      /\ rows' = [rows EXCEPT ![m.id] = NewRow(m)]
      /\ Happens(r, Sent({m.id}), Forgone(m), t) /\ taken' = taken
  BY TaskFields DEF Insert, TypeOK
<1>2. t.pc \in {"idle", "announce"} /\ task'[r] = t
  BY <1>1, AnnouncePc DEF Happens
<1> HIDE DEF t
<1>3. /\ TasksKept(Requests)
      /\ \A q \in Requests \ {r} :
           task'[q].pc = "latest" => Sent({m.id}) \subseteq task'[q].since
  BY <1>1, <1>2, HappensKept
<1>4. /\ Visible' \subseteq Visible \cup {m.id}
      /\ \A i \in Visible : rows'[i] = rows[i] /\ i \in Visible'
  BY <1>1 DEF Visible, FreshIds, TypeOK
<1>5. FreshIds'
  <2>1. \A i \in Visible' : i <= taken'
    BY <1>1, <1>4 DEF FreshIds
  <2>2. ASSUME NEW q \in Requests, task'[q].pc = "insert"
        PROVE  /\ q # r /\ task'[q] = task[q] /\ task[q].id # m.id
    BY <1>1, <1>2, <1>3, <2>2 DEF TasksKept, FreshIds
  <2>3. QED
    BY <1>1, <1>4, <2>1, <2>2 DEF FreshIds
<1>6. ASSUME NEW q \in Requests, task'[q].pc = "tell"
      PROVE  task'[q].id \in Visible' /\ rows'[task'[q].id].read
  BY <1>3, <1>4, <1>6 DEF TasksKept, ReadBeforeTold
<1>7. ASSUME NEW q \in Requests, task'[q].pc = "latest", NEW i \in Visible'
      PROVE  \/ rows'[i].read \/ rows'[i].from = task'[q].by
             \/ <<"sent", i>> \in task'[q].since
  <2>1. q # r
    BY <1>2, <1>7
  <2>2. CASE i = m.id
    BY <1>3, <1>7, <2>1, <2>2 DEF Sent
  <2>3. CASE i \in Visible
    BY <1>3, <1>4, <1>7, <2>3 DEF TasksKept, ReadBeforeTold
  <2>4. QED
    BY <1>4, <2>2, <2>3
<1>8. ReadBeforeTold'
  BY <1>6, <1>7 DEF ReadBeforeTold
<1>9. QED
  BY <1>5, <1>8

LEMMA QuietTells ==
  ASSUME TellInv, TypeOK', RowsKept, taken' = taken, NEW R \in SUBSET Requests,
         TasksKept(R), \A q \in Requests \ R : task'[q].pc \in {"idle", "tell", "latest"},
         \A q \in Requests \ R :
           /\ task'[q].pc = "tell" => task'[q].id \in Visible' /\ rows'[task'[q].id].read
           /\ task'[q].pc = "latest" =>
                \A i \in Visible' : rows'[i].read \/ rows'[i].from = task'[q].by
  PROVE  TellInv'
<1> USE DEF TellInv
<1>1. Visible' = Visible
  BY KeptRows
<1>2. \A q \in Requests : task'[q].pc = "insert" => q \in R /\ task'[q] = task[q]
  BY DEF TasksKept
<1>3. FreshIds'
  BY <1>1, <1>2 DEF FreshIds
<1>4. ReadBeforeTold'
  BY KeptTells DEF ReadBeforeTold
<1>5. QED
  BY <1>3, <1>4

\* Receipts: the request has marked what it will tell.
LEMMA ReceiptTells ==
  ASSUME TellInv, TypeOK', NEW r \in Requests, NEW u \in Users,
         (\E i \in Ids : AckRead(r, u, i)) \/ ReadAll(r, u),
         TasksKept(Requests \ {r}), taken' = taken, RowsKept
  PROVE  TellInv'
<1> USE DEF TellInv
<1>1. /\ Visible' = Visible
      /\ \A i \in Visible : rows[i].read => rows'[i].read
      /\ \A i \in Visible : rows'[i].from = rows[i].from
  BY KeptRows
<1>2. ASSUME NEW i \in Ids, AckRead(r, u, i)
      PROVE  /\ task'[r].pc \in {"idle", "tell"}
             /\ task'[r].pc = "tell" => task'[r].id \in Visible' /\ rows'[task'[r].id].read
  <2>1. i \in Visible /\ rows'[i].read
    <3>1. i \in Visible /\ rows' = [rows EXCEPT ![i] = ReadRow(rows[i])]
      BY <1>2 DEF AckRead
    <3>2. QED
      BY <3>1, VisibleRows, RowsTyped DEF TypeOK
  <2>2. task'[r].pc = "idle" \/ (task'[r].pc = "tell" /\ task'[r].id = i)
    BY <1>2 DEF AckRead, Happens, Idle
  <2>3. QED
    BY <1>1, <2>1, <2>2
<1>3. ASSUME ReadAll(r, u)
      PROVE  /\ task'[r].pc = "latest" /\ task'[r].by = u
             /\ \A i \in Visible' : rows'[i].read \/ rows'[i].from = u
  <2> DEFINE M == {i \in {j \in Visible : rows[j].from # u} : ToMark(rows[i])}
  <2>1. task'[r].pc = "latest" /\ task'[r].by = u
    BY <1>3 DEF ReadAll, Happens
  <2>2. rows' = [i \in Ids |-> IF i \in M THEN ReadRow(rows[i]) ELSE rows[i]]
    BY <1>3 DEF ReadAll
  <2>3. ASSUME NEW i \in Visible, rows[i].from # u PROVE rows'[i].read
    <3>1. i \in Ids /\ rows[i] \in Rows
      BY VisibleRows
    <3>2. CASE rows[i].read
      BY <1>1, <3>2
    <3>3. CASE ~rows[i].read
      <4>1. rows'[i] = ReadRow(rows[i])
        BY <2>2, <2>3, <3>1, <3>3 DEF ToMark
      <4>2. QED
        BY <3>1, <4>1, RowsTyped
    <3>4. QED
      BY <3>2, <3>3
  <2>4. QED
    BY <1>1, <2>1, <2>3
<1>4. QED
  BY <1>2, <1>3, QuietTells

LEMMA InitTells == Init => TellInv
<1>1. ASSUME Init PROVE FreshIds /\ ReadBeforeTold
  BY <1>1 DEF Init, FreshIds, ReadBeforeTold, Visible, Idle
<1>2. QED
  BY <1>1, InitTyped DEF TellInv

LEMMA NextTells ==
  ASSUME CacheInv, TellInv, [Next]_vars
  PROVE  TellInv'
<1>1. TypeOK /\ TypeOK'
  BY NextCache DEF CacheInv
<1>2. ASSUME NEW r \in Requests, Insert(r) PROVE TellInv'
  BY <1>1, <1>2, InsertTells
<1>3. ASSUME TasksKept(Requests), taken' = taken, RowsKept PROVE TellInv'
  BY <1>1, <1>3, QuietTells
<1>4. ASSUME NEW r \in Requests, TasksKept(Requests \ {r}), RowsKept,
             \/ \E u \in Users, rest \in BOOLEAN : Send(r, u, rest)
             \/ /\ taken' = taken
                /\ \E u \in Users : (\E i \in Ids : AckRead(r, u, i)) \/ ReadAll(r, u)
      PROVE  TellInv'
  BY <1>1, <1>4, SendTells, ReceiptTells
<1>5. QED
  BY <1>1, <1>2, <1>3, <1>4, RowsChange, TasksChange

\* What a step tells, if it tells anything.
Grounded ==
  told' # told =>
    \A i \in Visible :
      (IF told'.all THEN i <= told'.last ELSE i = told'.last)
        => \/ rows[i].read
           \/ rows[i].from = told'.by
           \/ <<"sent", i>> \in told'.since

LEMMA TellsGrounded ==
  ASSUME TellInv, [Next]_vars
  PROVE  Grounded
<1>1. ASSUME NEW r \in Requests, Tell(r) PROVE Grounded
  <2>1. task[r].pc = "tell" /\ ~told'.all /\ told'.last = task[r].id
    BY <1>1 DEF Tell
  <2>2. rows[told'.last].read
    BY <2>1 DEF TellInv, ReadBeforeTold
  <2>3. QED
    BY <2>1, <2>2 DEF Grounded
<1>2. ASSUME NEW r \in Requests, TellLatest(r) PROVE Grounded
  <2>1. task[r].pc = "latest" /\ told'.by = task[r].by /\ told'.since = task[r].since
    BY <1>2 DEF TellLatest
  <2>2. QED
    BY <2>1 DEF TellInv, ReadBeforeTold, Grounded
<1>3. QED
  BY <1>1, <1>2, ClientsChange DEF Grounded

\* A read update never claims more than has been read, in any interleaving of
\* readers, senders and failures.
THEOREM UpdatesGrounded == Spec => UpdateGrounded
<1>1. Init => TellInv
  BY InitTells
<1>2. CacheInv /\ TellInv /\ [Next]_vars => TellInv'
  BY NextTells
<1>3. TellInv /\ [Next]_vars => [Grounded]_vars
  BY TellsGrounded
<1>4. UpdateGrounded <=> [][Grounded]_vars
  BY PTL DEF UpdateGrounded, Grounded
<1>5. QED
  BY <1>1, <1>2, <1>3, <1>4, CacheAlways, PTL DEF Spec

-----------------------------------------------------------------------------
(***************************************************************************)
(* Status progression.                                                     *)
(***************************************************************************)

Forward ==
  \A i \in Visible : Rank(rows'[i].status) >= Rank(rows[i].status)

LEMMA ReadingGoesForward ==
  ASSUME TellInv, [Next]_vars, "delivered" \notin load.serves
  PROVE  Forward
<1>1. ASSUME NEW i \in Visible
      PROVE  i \in Ids /\ rows[i] \in Rows /\ Rank(rows[i].status) \in 0 .. 3
  <2>1. i \in Ids /\ rows[i] \in Rows
    BY VisibleRows DEF TellInv
  <2>2. rows[i].status \in {"pending", "sent", "delivered", "read"}
    BY <2>1 DEF Rows
  <2>3. QED
    BY <2>1, <2>2 DEF Rank
<1>2. CASE RowsRead
  <2>1. ASSUME NEW i \in Visible
        PROVE  rows'[i] = rows[i] \/ Rank(rows'[i].status) = 3
    <3>1. i \in Ids /\ rows[i] \in Rows
      BY <1>1
    <3>2. ReadRow(rows[i]).status = "read" /\ Rank("read") = 3
      BY <3>1 DEF ReadRow, Rows, Rank
    <3>3. QED
      BY <1>2, <3>1, <3>2 DEF RowsRead
  <2>2. QED
    BY <1>1, <2>1 DEF Forward
<1>3. ASSUME NEW r \in Requests, Insert(r) PROVE Forward
  <2>1. rows' = [rows EXCEPT ![task[r].id] = NewRow(task[r])] /\ task[r].id \notin Visible
    BY <1>3 DEF Insert, TellInv, FreshIds
  <2>2. \A i \in Visible : rows'[i] = rows[i]
    BY <2>1 DEF Visible, TellInv, TypeOK
  <2>3. QED
    BY <1>1, <2>2 DEF Forward
<1>4. ~ \E i \in Ids : AckDelivered(i)
  BY DEF AckDelivered, Serves
<1>5. QED
  BY <1>2, <1>3, <1>4, RowsReadOrKept DEF TellInv

\* The status progression of BACKEND_API.md:602, which the run status refutes,
\* holds of every history in which no delivery is acknowledged: inserts, read
\* marks of all kinds and failures only move a status forward, and what takes
\* it back is MarkAsDelivered alone (message_repository.go:83-92).
THEOREM ReadingProgresses ==
  ASSUME \A w \in Workloads : "delivered" \notin w.serves
  PROVE  Spec => StatusProgresses
<1>1. Init => TellInv
  BY InitTells
<1>2. CacheInv /\ TellInv /\ [Next]_vars => TellInv'
  BY NextTells
<1>3. TellInv /\ [Next]_vars => [Forward]_vars
  <2>1. TellInv => load \in Workloads
    BY DEF TellInv, TypeOK
  <2>2. QED
    BY <2>1, ReadingGoesForward
<1>4. StatusProgresses <=> [][Forward]_vars
  BY PTL DEF StatusProgresses, Forward
<1>5. QED
  BY <1>1, <1>2, <1>3, <1>4, CacheAlways, PTL DEF Spec

-----------------------------------------------------------------------------
(***************************************************************************)
(* The conversation behind the cache and the requests.                     *)
(***************************************************************************)

\* What is cached, or about to be, has been sent.
NoPhantoms ==
  /\ entry[Conv] # None => IdsIn(entry[Conv].facts) \subseteq Visible
  /\ \A r \in Requests : task[r].pc = "store" /\ task[r].key = Conv =>
       IdsIn(task[r].facts) \subseteq Visible

LEMMA VisibleStays ==
  ASSUME TypeOK, [Next]_vars
  PROVE  Visible \subseteq Visible'
<1>1. ASSUME NEW r \in Requests, Insert(r) PROVE Visible \subseteq Visible'
  <2>1. task[r].id \in Ids /\ task[r].from \in Users
    BY <1>1, TaskFields DEF Insert, TypeOK
  <2>2. NewRow(task[r]) \in Rows /\ rows' = [rows EXCEPT ![task[r].id] = NewRow(task[r])]
    <3>1. task[r].rest \in BOOLEAN
      BY <1>1, TaskFields DEF Insert, TypeOK
    <3>2. QED
      BY <1>1, <2>1, <3>1 DEF Insert, NewRow, Rows
  <2>3. NewRow(task[r]) # None
    BY <2>2, NoneAssumption
  <2>4. QED
    BY <2>1, <2>2, <2>3 DEF Visible, TypeOK
<1>2. QED
  BY <1>1, RowsChange, KeptRows

LEMMA StepPhantoms ==
  ASSUME NoPhantoms, Visible \subseteq Visible', NEW F, CacheStep(F)
  PROVE  NoPhantoms'
<1>1. Conv \in Keys
  BY DEF Keys
<1>2. QED
  BY <1>1 DEF NoPhantoms, CacheStep

\* Every step that does not read the database for the cache, or fill it.
LEMMA CacheSteps ==
  ASSUME TypeOK, [Next]_vars
  PROVE  \/ \E F : CacheStep(F)
         \/ \E r \in Requests : FetchPage(r) \/ FetchList(r) \/ Store(r)
<1>1. ASSUME NEW r \in Requests,
             \/ \E u \in Users : GetList(r, u)
             \/ \E n \in Limits : GetMissed(r, n)
             \/ GetFails(r)
      PROVE  CacheStep({})
  <2>1. ASSUME NEW u \in Users, GetList(r, u) PROVE CacheStep({})
    BY <2>1, GoesSafe DEF GetList, Begins, Idle
  <2>2. ASSUME NEW n \in Limits, GetMissed(r, n) PROVE CacheStep({})
    BY <2>2, GoesSafe DEF GetMissed, Begins, Idle
  <2>3. ASSUME GetFails(r) PROVE CacheStep({})
    BY <2>3, GoesSafe DEF GetFails, Idle
  <2>4. QED
    BY <1>1, <2>1, <2>2, <2>3
<1>2. ASSUME NEW r \in Requests, Step(r)
      PROVE  (\E F : CacheStep(F)) \/ FetchPage(r) \/ FetchList(r) \/ Store(r)
  <2>1. CASE \/ \E u \in Users, rest \in BOOLEAN : Send(r, u, rest)
             \/ Insert(r) \/ InsertFails(r) \/ ReloadFails(r) \/ MembersFail(r)
             \/ \E k \in Keys : Invalidate(r, k) \/ InvalidateFails(r, k)
    BY <2>1, SendSafe
  <2>2. CASE \/ \E u \in Users, i \in Ids : AckRead(r, u, i)
             \/ \E u \in Users : ReadAll(r, u)
             \/ \E u \in Users, p \in 0 .. MaxMessages : MarkGroup(r, u, p)
             \/ Tell(r) \/ TellFails(r) \/ TellLatest(r) \/ NoLatest(r)
    BY <2>2, ReceiptSafe
  <2>3. CASE \/ \E u \in Users : GetList(r, u)
             \/ \E n \in Limits : GetMissed(r, n)
             \/ FetchPage(r) \/ FetchList(r) \/ Store(r) \/ GetFails(r)
    BY <1>1, <2>3
  <2>4. QED
    BY <1>2, <2>1, <2>2, <2>3 DEF Step
<1>3. ASSUME NEW i \in Ids, AckDelivered(i) PROVE \E F : CacheStep(F)
  BY <1>3, DeliveredSafe
<1>4. ASSUME \/ \E k \in Keys : Expire(k)
             \/ \E n \in Limits : GetCached(n) \/ GetOlder(n) \/ SyncMessages(n)
             \/ MessageSync \/ Crash \/ UNCHANGED vars
      PROVE  CacheStep({})
  BY <1>4, OtherSafe
<1>5. QED
  BY <1>2, <1>3, <1>4 DEF Next

\* What fetches and stores do to the entry of the conversation, and to what is
\* about to become it.
LEMMA FetchedFacts ==
  ASSUME TypeOK, NEW r \in Requests, FetchPage(r) \/ FetchList(r) \/ Store(r)
  PROVE  /\ Visible' = Visible
         /\ entry'[Conv] # None =>
              \/ entry[Conv] # None /\ entry'[Conv].facts = entry[Conv].facts
              \/ /\ task[r].pc = "store" /\ task[r].key = Conv
                 /\ entry'[Conv].facts = task[r].facts
         /\ \A q \in Requests : task'[q].pc = "store" /\ task'[q].key = Conv =>
              \/ task'[q] = task[q]
              \/ /\ q = r /\ task[r].pc = "fetch" /\ task[r].key = Conv
                 /\ Newest(Visible, task[r].limit) # {}
                 /\ task'[q].facts = Messages(Newest(Visible, task[r].limit))
<1>1. ASSUME FetchPage(r)
      PROVE  /\ entry' = entry
             /\ \A q \in Requests : task'[q].pc = "store" =>
                  \/ task'[q] = task[q]
                  \/ /\ q = r /\ task[r].pc = "fetch" /\ task[r].key = Conv
                     /\ Newest(Visible, task[r].limit) # {}
                     /\ task'[q].facts = Messages(Newest(Visible, task[r].limit))
  <2> DEFINE ids == Newest(Visible, task[r].limit)
             t == [pc |-> "store", key |-> Conv, limit |-> task[r].limit,
                   facts |-> Messages(ids), since |-> {}]
  <2>1. /\ entry' = entry /\ task[r].pc = "fetch" /\ task[r].key = Conv
        /\ Goto(r, Idle) \/ (ids # {} /\ Goto(r, t))
    BY <1>1 DEF FetchPage
  <2>2. t.facts = Messages(ids) /\ Idle.pc # "store"
    BY DEF Idle
  <2> HIDE DEF t
  <2>3. QED
    BY <2>1, <2>2 DEF Goto, TypeOK
<1>2. ASSUME FetchList(r)
      PROVE  /\ entry' = entry
             /\ \A q \in Requests : task'[q].pc = "store" /\ task'[q].key = Conv =>
                  task'[q] = task[q]
  <2> DEFINE t == [pc |-> "store", key |-> task[r].key, limit |-> task[r].limit,
                   facts |-> Now(task[r].key), since |-> {}]
  <2>1. entry' = entry /\ Goto(r, t) /\ t.key # Conv
    BY <1>2 DEF FetchList
  <2> HIDE DEF t
  <2>2. QED
    BY <2>1 DEF Goto, TypeOK
<1>3. ASSUME Store(r)
      PROVE  /\ \A q \in Requests : task'[q].pc = "store" => task'[q] = task[q]
             /\ entry'[Conv] # None => \/ entry'[Conv] = entry[Conv]
                                       \/ /\ task[r].pc = "store" /\ task[r].key = Conv
                                          /\ entry'[Conv].facts = task[r].facts
  <2>1. /\ task[r].pc = "store" /\ Goto(r, Idle)
        /\ entry' = [entry EXCEPT ![task[r].key] =
                       [facts |-> task[r].facts, limit |-> task[r].limit,
                        excused |-> task[r].since]]
    BY <1>3 DEF Store
  <2>2. QED
    BY <2>1 DEF Goto, Idle, Keys, TypeOK
<1>4. rows' = rows
  BY DEF FetchPage, FetchList, Store
<1>5. QED
  BY <1>1, <1>2, <1>3, <1>4 DEF Visible

LEMMA NextPhantoms ==
  ASSUME CacheInv, NoPhantoms, [Next]_vars
  PROVE  NoPhantoms'
<1>1. TypeOK /\ Visible \subseteq Visible'
  BY VisibleStays DEF CacheInv
<1>2. ASSUME NEW F, CacheStep(F) PROVE NoPhantoms'
  BY <1>1, <1>2, StepPhantoms
<1>3. ASSUME NEW r \in Requests, FetchPage(r) \/ FetchList(r) \/ Store(r) PROVE NoPhantoms'
  <2>1. Visible' = Visible
    BY <1>1, <1>3, FetchedFacts
  <2>2. IdsIn(Messages(Newest(Visible, task[r].limit))) \subseteq Visible
    <3>1. Newest(Visible, task[r].limit) \in SUBSET Visible
      BY DEF Newest
    <3>2. QED
      BY <3>1, VisibleIds, MessagesTyped
  <2>3. entry'[Conv] # None => IdsIn(entry'[Conv].facts) \subseteq Visible
    BY <1>1, <1>3, FetchedFacts DEF NoPhantoms
  <2>4. \A q \in Requests : task'[q].pc = "store" /\ task'[q].key = Conv =>
          IdsIn(task'[q].facts) \subseteq Visible
    BY <1>1, <1>3, <2>2, FetchedFacts DEF NoPhantoms
  <2>5. QED
    BY <2>1, <2>3, <2>4 DEF NoPhantoms
<1>4. QED
  BY <1>1, <1>2, <1>3, CacheSteps

TalkInv == CacheInv /\ TellInv /\ NoPhantoms

LEMMA LogFields ==
  /\ DOMAIN Log = Visible /\ \A i \in Visible : Log[i] = Shown(rows[i])
  /\ Talk!Present = Visible
  BY DEF Log, Talk!Present

LEMMA TalkFits ==
  ASSUME NEW ids
  PROVE  Talk!Fits(ids) <=> Cardinality(ids) <= PageCap
  BY DEF Talk!Fits, Talk!Cardinality, Cardinality, Talk!IsFiniteSet, IsFiniteSet

LEMMA GivenFields ==
  /\ Given.got = sync.got /\ Given.last = sync.last
  /\ page # None => /\ Paged.got = page.got /\ Paged.cursor = page.cursor
                    /\ Paged.top = page.top
  BY DEF Given, Paged

\* Rows that stay in place: receipts, or nothing.
LEMMA TalkReceipts ==
  ASSUME TypeOK, RowsKept, page' = page, sync' = sync
  PROVE  Talk!Receipts
<1>1. Paged' = Paged /\ Given' = Given
  BY DEF Paged, Given
<1>2. Visible' = Visible
  BY KeptRows
<1>3. DOMAIN Log' = Visible /\ \A i \in Visible : Log'[i] = Shown(rows'[i])
  BY <1>2 DEF Log
<1>4. ASSUME NEW i \in Visible
      PROVE  \E delivered, read \in BOOLEAN :
               Shown(rows'[i]) = [from      |-> Log[i].from,
                                  delivered |-> Log[i].delivered \/ delivered,
                                  read      |-> Log[i].read \/ read]
  <2>1. i \in Ids /\ rows[i] \in Rows
    BY VisibleRows
  <2>2. /\ rows[i].delivered \in BOOLEAN /\ rows[i].read \in BOOLEAN
        /\ Log[i].from = rows[i].from /\ Log[i].delivered = rows[i].delivered
        /\ Log[i].read = rows[i].read
    BY <2>1, LogFields DEF Shown, Rows
  <2>3. CASE rows'[i] = rows[i]
    <3>1. Shown(rows'[i]) = [from      |-> Log[i].from,
                             delivered |-> Log[i].delivered \/ FALSE,
                             read      |-> Log[i].read \/ FALSE]
      BY <2>2, <2>3 DEF Shown
    <3>2. QED
      BY <3>1
  <2>4. CASE rows'[i] = DeliveredRow(rows[i])
    <3>1. /\ rows'[i].from = rows[i].from /\ rows'[i].delivered = TRUE
          /\ rows'[i].read = rows[i].read
      BY <2>1, <2>4 DEF DeliveredRow, Rows
    <3>2. Shown(rows'[i]) = [from      |-> Log[i].from,
                             delivered |-> Log[i].delivered \/ TRUE,
                             read      |-> Log[i].read \/ FALSE]
      BY <2>2, <3>1 DEF Shown
    <3>3. QED
      BY <3>2
  <2>5. CASE rows'[i] = ReadRow(rows[i])
    <3>1. /\ rows'[i].from = rows[i].from /\ rows'[i].delivered = rows[i].delivered
          /\ rows'[i].read = TRUE
      BY <2>1, <2>5 DEF ReadRow, Rows
    <3>2. Shown(rows'[i]) = [from      |-> Log[i].from,
                             delivered |-> Log[i].delivered \/ FALSE,
                             read      |-> Log[i].read \/ TRUE]
      BY <2>2, <3>1 DEF Shown
    <3>3. QED
      BY <3>2
  <2>6. QED
    BY <2>1, <2>3, <2>4, <2>5 DEF RowsKept
<1>5. QED
  BY <1>1, <1>3, <1>4, LogFields DEF Talk!Receipts

LEMMA StaysTalk ==
  ASSUME TypeOK, Log' = Log, Paged' = Paged, Given' = Given
  PROVE  Talk!Receipts
<1>1. ASSUME NEW i \in Visible
      PROVE  Log[i] = [from      |-> Log[i].from,
                       delivered |-> Log[i].delivered \/ FALSE,
                       read      |-> Log[i].read \/ FALSE]
  <2>1. rows[i] \in Rows
    BY VisibleRows
  <2>2. QED
    BY <2>1, LogFields DEF Shown, Rows
<1>2. QED
  BY <1>1, LogFields DEF Talk!Receipts

\* A row that was not there before.
LEMMA TalkAppear ==
  ASSUME TellInv, NEW r \in Requests, Insert(r)
  PROVE  \E i \in Ids, u \in Users : Talk!Appear(i, u)
<1> DEFINE m == task[r]
<1>1. /\ m.pc = "insert" /\ m.id \in Ids /\ m.from \in Users
      /\ rows' = [rows EXCEPT ![m.id] = NewRow(m)] /\ Appears(m.id)
      /\ m.id \notin Visible
  BY TaskFields DEF Insert, TellInv, TypeOK, FreshIds
<1>2. NewRow(m) # None
  <2>1. m.rest \in BOOLEAN
    BY <1>1, TaskFields DEF TellInv, TypeOK
  <2>2. NewRow(m) \in Rows
    BY <1>1, <2>1 DEF NewRow, Rows
  <2>3. QED
    BY <2>2, NoneAssumption
<1>3. /\ Visible' = Visible \cup {m.id}
      /\ \A i \in Visible : rows'[i] = rows[i]
      /\ rows'[m.id] = NewRow(m)
  BY <1>1, <1>2 DEF Visible, TellInv, TypeOK
<1>4. Paged' = Paged
  <2>1. CASE page = None
    BY <1>1, <2>1 DEF Appears, Paged
  <2>2. CASE page # None
    <3>1. page \in Pages /\ page' = [page EXCEPT !.late = @ \cup {m.id}]
      BY <1>1, <2>2 DEF Appears, TellInv, TypeOK
    <3>2. /\ page'.got = page.got /\ page'.cursor = page.cursor /\ page'.top = page.top
      BY <3>1 DEF Pages
    <3>3. page' # None
      <4>1. page' \in Pages
        BY <1>1, <3>1 DEF Pages
      <4>2. QED
        BY <4>1, NoneAssumption
    <3>4. QED
      BY <2>2, <3>2, <3>3 DEF Paged
  <2>3. QED
    BY <2>1, <2>2
<1>5. Given' = Given
  <2>1. sync \in Syncs
    BY DEF TellInv, TypeOK
  <2>2. sync'.got = sync.got /\ sync'.last = sync.last
    BY <1>1, <2>1 DEF Appears, Syncs
  <2>3. QED
    BY <2>2 DEF Given
<1>6. Shown(NewRow(m)) = [from |-> m.from, delivered |-> FALSE, read |-> FALSE]
  BY DEF Shown, NewRow
<1>7. Log' = [j \in Visible \cup {m.id} |->
                IF j = m.id THEN [from |-> m.from, delivered |-> FALSE, read |-> FALSE]
                ELSE Log[j]]
  <2>1. Log' = [j \in Visible' |-> Shown(rows'[j])]
    BY DEF Log
  <2>2. \A j \in Visible \cup {m.id} :
          Shown(rows'[j]) = IF j = m.id
                            THEN [from |-> m.from, delivered |-> FALSE, read |-> FALSE]
                            ELSE Log[j]
    <3> TAKE j \in Visible \cup {m.id}
    <3>1. CASE j = m.id
      <4>1. rows'[j] = NewRow(m)
        BY <1>3, <3>1
      <4>2. Shown(rows'[j]) = Shown(NewRow(m))
        BY <4>1
      <4>3. QED
        BY <1>6, <3>1, <4>2
    <3>2. CASE j # m.id
      <4>1. j \in Visible /\ rows'[j] = rows[j] /\ Log[j] = Shown(rows[j])
        BY <1>3, <3>2, LogFields
      <4>2. QED
        BY <3>2, <4>1
    <3>3. QED
      BY <3>1, <3>2
  <2>3. QED
    BY <1>3, <2>1, <2>2
<1> HIDE DEF m
<1>8. Talk!Appear(m.id, m.from)
  BY <1>1, <1>4, <1>5, <1>7, LogFields DEF Talk!Appear
<1>9. QED
  BY <1>1, <1>8

\* A page that answers a request with no cursor.
LEMMA TalkFirst ==
  ASSUME NEW ids \in SUBSET Visible, ids # {}, Cardinality(ids) <= PageCap,
         NEW late \in SUBSET Ids, page' = Answer(ids, late), sync' = sync, rows' = rows
  PROVE  Talk!FirstPage(ids)
<1>1. Log' = Log /\ Given' = Given
  BY DEF Log, Given, Visible
<1>2. ids \in SUBSET Ids
  BY DEF Visible
<1>3. Least(ids) \in ids /\ Latest(ids) \in ids
      /\ \A i \in ids : Least(ids) <= i /\ i <= Latest(ids)
  BY <1>2, LeastMember, LatestMember
<1>4. Paged' = [got |-> ids, cursor |-> Least(ids), top |-> Latest(ids)]
  <2>1. page' # None
    BY <1>2, AnswerTyped, NoneAssumption
  <2>2. QED
    BY <2>1, AnswerFields DEF Paged
<1>5. \E low, high \in ids : /\ \A i \in ids : low <= i /\ i <= high
                            /\ Paged' = [got |-> ids, cursor |-> low, top |-> high]
  BY <1>3, <1>4
<1>6. QED
  BY <1>1, <1>5, TalkFits DEF Talk!FirstPage

LEMMA TalkCached ==
  ASSUME TalkInv, NEW n \in Limits, GetCached(n)
  PROVE  \E ids \in SUBSET Visible : Talk!FirstPage(ids)
<1> DEFINE have == IdsIn(entry[Conv].facts)
           ids == Newest(have, PageLimit(n))
           late == IdsIn(entry[Conv].excused \cup Pending(Conv))
<1>1. page' = Answer(ids, late) /\ entry[Conv] # None /\ sync' = sync /\ rows' = rows
  BY DEF GetCached
<1>3. have \in SUBSET Ids /\ have # {} /\ have \subseteq Visible
  <2>1. have # {} /\ have \subseteq Visible
    BY <1>1 DEF TalkInv, CacheInv, PageFacts, NoPhantoms
  <2>2. QED
    BY <2>1 DEF IdsIn
<1>4. late \in SUBSET Ids
  BY DEF IdsIn
<1>5. PageLimit(n) \in Nat \ {0} /\ PageLimit(n) <= PageCap
  BY LimitsTyped
<1> HIDE DEF have, late
<1>6. ids \subseteq have /\ ids # {} /\ Cardinality(ids) <= PageLimit(n)
  BY <1>3, <1>5, NewestCut, NewestAtMost
<1>7. ids \in SUBSET Ids /\ Cardinality(ids) \in Nat
  <2> HIDE DEF ids
  <2>1. QED
    BY <1>3, <1>6, IdsFinite
<1> HIDE DEF ids
<1>8. Cardinality(ids) <= PageCap
  BY <1>5, <1>6, <1>7, HistoryAssumption
<1>9. QED
  BY <1>1, <1>3, <1>4, <1>6, <1>8, TalkFirst

LEMMA TalkFetched ==
  ASSUME TypeOK, NEW r \in Requests, FetchPage(r)
  PROVE  Talk!Receipts \/ \E ids \in SUBSET Visible : Talk!FirstPage(ids)
<1> DEFINE ids == Newest(Visible, task[r].limit)
<1>1. /\ task[r].limit \in Nat /\ task[r].limit <= PageCap /\ Visible \in SUBSET Ids
  BY TaskFields, VisibleIds DEF FetchPage, TypeOK
<1>2. sync' = sync /\ rows' = rows
  BY DEF FetchPage
<1>3. CASE ids = {}
  <2>1. page' = page /\ RowsKept
    BY <1>2, <1>3 DEF FetchPage, RowsKept
  <2>2. QED
    BY <1>2, <2>1, TalkReceipts
<1>4. CASE ids # {}
  <2>1. page' = Answer(ids, {})
    BY <1>4 DEF FetchPage
  <2>2. ids \in SUBSET Visible /\ Cardinality(ids) <= task[r].limit
    BY <1>1, NewestCut, NewestAtMost
  <2>3. Cardinality(ids) \in Nat
    <3> HIDE DEF ids
    <3>1. QED
      BY <1>1, <2>2, IdsFinite
  <2> HIDE DEF ids
  <2>4. Cardinality(ids) <= PageCap
    BY <1>1, <2>2, <2>3, HistoryAssumption
  <2>5. QED
    BY <1>2, <1>4, <2>1, <2>2, <2>4, TalkFirst
<1>5. QED
  BY <1>3, <1>4

\* The page below the cursor.
LEMMA TalkOlder ==
  ASSUME TypeOK, NEW n \in Limits, GetOlder(n)
  PROVE  \E i \in Visible : Talk!OlderPage(i)
<1> DEFINE S == {i \in Visible : i < page.cursor}
           ids == Newest(S, PageLimit(n))
           low == Least(ids)
<1>1. S \in SUBSET Ids /\ PageLimit(n) \in Nat /\ PageLimit(n) <= PageCap
  BY VisibleIds, LimitsTyped
<1>2. ids # {} /\ page # None /\ page \in Pages /\ sync' = sync /\ rows' = rows
      /\ page' = [page EXCEPT !.got = @ \cup ids, !.cursor = Least(ids)]
  BY DEF GetOlder, Older, TypeOK
<1>3. /\ ids \subseteq S /\ \A i \in S, j \in ids : j <= i => i \in ids
      /\ Cardinality(ids) <= PageLimit(n)
  <2> HIDE DEF S
  <2>1. QED
    BY <1>1, NewestCut, NewestAtMost
<1>4. ids \in SUBSET Ids /\ Cardinality(ids) \in Nat
  <2> HIDE DEF S, ids
  <2>1. QED
    BY <1>1, <1>3, IdsFinite
<1>5. Cardinality(ids) <= PageCap
  <2> HIDE DEF ids
  <2>1. QED
    BY <1>1, <1>3, <1>4, HistoryAssumption
<1>6. low \in ids /\ \A i \in ids : low <= i
  <2> HIDE DEF ids
  <2>1. QED
    BY <1>2, <1>4, LeastMember
<1>7. ids = {i \in Visible : low <= i /\ i < page.cursor}
  <2>1. \A i \in Visible : low <= i /\ i < page.cursor => i \in ids
    <3>1. \A i \in Visible : i < page.cursor => i \in S
      OBVIOUS
    <3> HIDE DEF S, ids, low
    <3>2. QED
      BY <1>3, <1>6, <3>1
  <2>2. \A i \in ids : i \in Visible /\ i < page.cursor
    BY <1>3
  <2> HIDE DEF S, ids, low
  <2>3. QED
    BY <1>6, <2>1, <2>2
<1>8. low \in Visible /\ low < page.cursor
  BY <1>3, <1>6
<1>9. Log' = Log /\ Given' = Given
  BY <1>2 DEF Log, Given, Visible
<1> HIDE DEF S, ids, low
<1>10. /\ page'.got = page.got \cup ids /\ page'.cursor = low /\ page'.top = page.top
       /\ page' \in Pages
  <2>1. low \in Ids
    BY <1>4, <1>6
  <2>2. QED
    BY <1>2, <1>4, <2>1 DEF Pages, low
<1>11. Paged' = [got |-> Paged.got \cup ids, cursor |-> low, top |-> Paged.top]
  <2>1. page' # None
    BY <1>10, NoneAssumption
  <2>2. Paged' = [got |-> page.got \cup ids, cursor |-> low, top |-> page.top]
    BY <1>10, <2>1 DEF Paged
  <2>3. QED
    BY <1>2, <2>2, GivenFields
<1>12. Talk!OlderPage(low)
  <2>1. Paged.cursor = page.cursor
    BY <1>2, GivenFields
  <2>2. ids = {i \in Talk!Present : low <= i /\ i < Paged.cursor}
    <3>1. \A i : i \in ids <=> i \in Talk!Present /\ low <= i /\ i < Paged.cursor
      BY <1>7, <2>1, LogFields
    <3>2. QED
      BY <3>1
  <2>3. QED
    BY <1>5, <1>8, <1>9, <1>11, <2>1, <2>2, TalkFits DEF Talk!OlderPage
<1>13. QED
  BY <1>8, <1>12

\* What comes after the last message, if there is anything.
LEMMA TalkSynced ==
  ASSUME TypeOK, NEW l \in Nat \ {0}, Synced(l), rows' = rows, page' = page
  PROVE  Talk!Receipts \/ \E i \in Visible : Talk!Synchronise(i)
<1> DEFINE S == {i \in Visible : i > sync.last}
           ids == Oldest(S, SyncLimit(l))
           last == Latest(ids)
<1>1. S \in SUBSET Ids /\ SyncLimit(l) \in Nat /\ SyncLimit(l) <= PageCap
  BY HistoryAssumption DEF Visible, SyncLimit
<1>2. /\ ids \subseteq S /\ \A i \in S, j \in ids : i <= j => i \in ids
      /\ Cardinality(ids) \in Nat /\ Cardinality(ids) <= SyncLimit(l)
  <2> HIDE DEF S
  <2>1. QED
    BY <1>1, OldestCut
<1>3. /\ sync'.got = sync.got \cup ids
      /\ sync'.last = IF ids = {} THEN sync.last ELSE last
  <2>1. sync' = [sync EXCEPT !.got = @ \cup ids,
                             !.last = IF ids = {} THEN @ ELSE last,
                             !.more = (Cardinality(ids) = l),
                             !.limit = l, !.since = {}]
    BY DEF Synced, Batch
  <2>2. sync \in Syncs
    BY DEF TypeOK
  <2> HIDE DEF ids, last
  <2>3. QED
    BY <2>1, <2>2 DEF Syncs
<1>4. Log' = Log /\ Paged' = Paged
  BY DEF Log, Paged, Visible
<1>5. CASE ids = {}
  <2>1. Given' = Given
    <3> HIDE DEF ids, last
    <3>1. QED
      BY <1>3, <1>5 DEF Given
  <2>2. Talk!Receipts
    BY <1>4, <2>1, StaysTalk
  <2>3. QED
    BY <2>2
<1>6. CASE ids # {}
  <2>1. last \in ids /\ \A i \in ids : i <= last
    <3>1. ids \in SUBSET Ids
      BY <1>1, <1>2
    <3> HIDE DEF S, ids
    <3>2. QED
      BY <1>6, <3>1, LatestMember
  <2>2. ids = {i \in Visible : sync.last < i /\ i <= last}
    <3>1. \A i \in Visible : sync.last < i => i \in S
      BY IdNumbers DEF TypeOK, Syncs, Visible
    <3>2. \A i \in ids : i \in Visible /\ sync.last < i
      BY <1>2, IdNumbers DEF TypeOK, Syncs, Visible
    <3> HIDE DEF S, ids, last
    <3>3. QED
      BY <1>2, <2>1, <3>1, <3>2
  <2>3. last \in Visible /\ last > sync.last
    BY <1>2, <2>1
  <2>4. Cardinality(ids) <= PageCap
    <3> HIDE DEF ids
    <3>1. QED
      BY <1>1, <1>2, HistoryAssumption
  <2> HIDE DEF S, ids, last
  <2>5. Given' = [got |-> Given.got \cup ids, last |-> last]
    BY <1>3, <1>6 DEF Given
  <2>6. Talk!Synchronise(last)
    <3>1. ids = {i \in Talk!Present : Given.last < i /\ i <= last}
      <4>1. \A i : i \in ids <=> i \in Talk!Present /\ Given.last < i /\ i <= last
        BY <2>2, LogFields, GivenFields
      <4>2. QED
        BY <4>1
    <3>2. last > Given.last
      BY <2>3, GivenFields
    <3>3. QED
      BY <1>4, <2>4, <2>5, <3>1, <3>2, TalkFits DEF Talk!Synchronise
  <2>7. QED
    BY <2>3, <2>6
<1>7. QED
  BY <1>5, <1>6

LEMMA TalkNext ==
  ASSUME TalkInv, [Next]_vars
  PROVE  Talk!Next
<1>1. TypeOK
  BY DEF TalkInv, CacheInv
<1>2. ASSUME NEW r \in Requests, Insert(r) PROVE Talk!Next
  BY <1>2, TalkAppear DEF TalkInv, Talk!Next
<1>3. ASSUME NEW r \in Requests, FetchPage(r) PROVE Talk!Next
  BY <1>1, <1>3, TalkFetched, LogFields DEF Talk!Next
<1>4. ASSUME NEW n \in Limits, GetCached(n) PROVE Talk!Next
  BY <1>4, TalkCached, LogFields DEF Talk!Next
<1>5. ASSUME NEW n \in Limits, GetOlder(n) PROVE Talk!Next
  BY <1>1, <1>5, TalkOlder, LogFields DEF Talk!Next
<1>6. ASSUME NEW l \in Nat \ {0}, Synced(l), rows' = rows, page' = page PROVE Talk!Next
  BY <1>1, <1>6, TalkSynced, LogFields DEF Talk!Next
<1>7. ASSUME RowsKept, page' = page, sync' = sync PROVE Talk!Next
  BY <1>1, <1>7, TalkReceipts DEF Talk!Next
<1>8. QED
  BY <1>1, <1>2, <1>3, <1>4, <1>5, <1>6, <1>7, RowsChange, ClientsChange

LEMMA InitTalk == Init => TalkInv
<1>1. ASSUME Init PROVE NoPhantoms
  BY <1>1 DEF Init, NoPhantoms, Idle, Keys
<1>2. QED
  BY <1>1, InitTells, InitCache DEF TalkInv

\* Whatever the cache holds and however requests interleave and fail, members
\* see one conversation: receipts are only added, pages show nothing that was
\* not sent, and pages and batches continue without a gap and under the cap.
THEOREM HistoryImplementsConversation == Spec => ImplementsConversation
<1>1. Init => TalkInv /\ Talk!Init
  <2>1. ASSUME Init PROVE Talk!Init
    <3>1. Visible = {}
      BY <2>1 DEF Init, Visible
    <3>2. QED
      BY <2>1, <3>1, LogFields DEF Init, Talk!Init, Paged, Given
  <2>2. QED
    BY <2>1, InitTalk
<1>2. TalkInv /\ [Next]_vars => TalkInv'
  BY NextCache, NextTells, NextPhantoms DEF TalkInv
<1>3. TalkInv /\ [Next]_vars => [Talk!Next]_(Talk!cvars)
  BY TalkNext
<1>4. QED
  BY <1>1, <1>2, <1>3, PTL DEF Spec, ImplementsConversation, Talk!Spec

-----------------------------------------------------------------------------
(***************************************************************************)
(* One request at a time.                                                  *)
(***************************************************************************)

Alone == \A q, r \in Requests : task[q] # Idle /\ task[r] # Idle => q = r

\* A step of a request begins its work, or goes on with it; nobody else begins.
LEMMA BeginsOrGoesOn ==
  ASSUME TypeOK, [Next]_vars
  PROVE  \/ \A q \in Requests : task[q] = Idle => task'[q] = Idle
         \/ \E r \in Requests :
              /\ Begins(r)
              /\ \A q \in Requests \ {r} : task[q] = Idle => task'[q] = Idle
<1>1. ASSUME NEW r \in Requests, NEW t, Goto(r, t)
      PROVE  \A q \in Requests \ {r} : task'[q] = task[q]
  BY <1>1 DEF Goto, TypeOK
<1>2. ASSUME NEW r \in Requests, NEW F, NEW K, NEW t, Happens(r, F, K, t)
      PROVE  \A q \in Requests \ {r} : task[q] = Idle => task'[q] = Idle
  BY <1>2 DEF Happens, Outdated, Idle
<1>3. ASSUME NEW r \in Requests,
             \/ \E u \in Users, rest \in BOOLEAN : Send(r, u, rest)
             \/ \E u \in Users : GetList(r, u)
             \/ \E n \in Limits : GetMissed(r, n)
      PROVE  /\ Begins(r)
             /\ \A q \in Requests \ {r} : task[q] = Idle => task'[q] = Idle
  BY <1>1, <1>3 DEF Send, GetList, GetMissed
<1>4. ASSUME NEW r \in Requests,
             \/ \E u \in Users, i \in Ids : AckRead(r, u, i)
             \/ \E u \in Users : ReadAll(r, u)
             \/ \E u \in Users, p \in 0 .. MaxMessages : MarkGroup(r, u, p)
      PROVE  /\ Begins(r)
             /\ \A q \in Requests \ {r} : task[q] = Idle => task'[q] = Idle
  BY <1>2, <1>4 DEF AckRead, ReadAll, MarkGroup
<1>5. Idle.pc = "idle"
  BY DEF Idle
<1>6. ASSUME NEW r \in Requests, Insert(r)
      PROVE  \A q \in Requests : task[q] = Idle => task'[q] = Idle
  BY <1>2, <1>5, <1>6 DEF Insert
<1>7. ASSUME NEW r \in Requests,
             \/ InsertFails(r) \/ ReloadFails(r) \/ MembersFail(r)
             \/ \E k \in Keys : Invalidate(r, k) \/ InvalidateFails(r, k)
             \/ Tell(r) \/ TellFails(r) \/ TellLatest(r) \/ NoLatest(r)
      PROVE  \A q \in Requests : task[q] = Idle => task'[q] = Idle
  <2>1. task[r] # Idle
    BY <1>5, <1>7 DEF InsertFails, ReloadFails, MembersFail, Invalidate, InvalidateFails,
                      Due, Tell, TellFails, TellLatest, NoLatest
  <2>2. \E t : Goto(r, t)
    BY <1>7 DEF InsertFails, ReloadFails, MembersFail, Invalidate, InvalidateFails,
                GivesUp, Tell, TellFails, TellLatest, NoLatest
  <2>3. QED
    BY <1>1, <2>1, <2>2
<1>8. ASSUME NEW r \in Requests, FetchPage(r) \/ FetchList(r) \/ Store(r) \/ GetFails(r)
      PROVE  \A q \in Requests : task[q] = Idle => task'[q] = Idle
  <2>1. task[r] # Idle
    BY <1>5, <1>8 DEF FetchPage, FetchList, Store, GetFails
  <2>2. \E t : Goto(r, t)
    BY <1>8 DEF FetchPage, FetchList, Store, GetFails
  <2>3. QED
    BY <1>1, <2>1, <2>2
<1>8a. ASSUME NEW i \in Ids, AckDelivered(i)
       PROVE  \A q \in Requests : task[q] = Idle => task'[q] = Idle
  BY <1>5, <1>8a DEF AckDelivered, Unannounced, Outdated
<1>9. ASSUME \/ \E k \in Keys : Expire(k)
             \/ \E n \in Limits : GetCached(n) \/ GetOlder(n) \/ SyncMessages(n)
             \/ MessageSync \/ Crash \/ UNCHANGED vars
      PROVE  \A q \in Requests : task[q] = Idle => task'[q] = Idle
  BY <1>9 DEF Expire, GetCached, GetOlder, SyncMessages, MessageSync, Crash, vars
<1>10. ASSUME NEW r \in Requests, Step(r)
       PROVE  \/ \A q \in Requests : task[q] = Idle => task'[q] = Idle
              \/ /\ Begins(r)
                 /\ \A q \in Requests \ {r} : task[q] = Idle => task'[q] = Idle
  BY <1>3, <1>4, <1>6, <1>7, <1>8, <1>10 DEF Step
<1>11. QED
  BY <1>8a, <1>9, <1>10 DEF Next

\* When a request may begin, no other is at work.
LEMMA BeginsAlone ==
  ASSUME \A w \in Workloads : w.atOnce = 1,
         TypeOK, Alone, NEW r \in Requests, Begins(r)
  PROVE  \A q \in Requests : task[q] = Idle
<1> DEFINE busy == {q \in Requests : task[q] # Idle}
<1>1. Cardinality(busy) < 1
  BY DEF Begins, TypeOK
<1>2. ASSUME NEW x \in Requests, task[x] # Idle PROVE FALSE
  <2>1. busy = {x}
    BY <1>2 DEF Alone
  <2>2. Cardinality({x}) = 1
    BY FS_Singleton
  <2>3. QED
    BY <1>1, <2>1, <2>2
<1>3. QED
  BY <1>2

LEMMA NextAlone ==
  ASSUME \A w \in Workloads : w.atOnce = 1, TypeOK, Alone, [Next]_vars
  PROVE  Alone'
<1>1. CASE \A q \in Requests : task[q] = Idle => task'[q] = Idle
  BY <1>1 DEF Alone, Idle
<1>2. ASSUME NEW r \in Requests, Begins(r),
             \A q \in Requests \ {r} : task[q] = Idle => task'[q] = Idle
      PROVE  Alone'
  <2>1. \A q \in Requests \ {r} : task'[q] = Idle
    BY <1>2, BeginsAlone
  <2>2. QED
    BY <2>1 DEF Alone, Idle
<1>3. QED
  BY <1>1, <1>2, BeginsOrGoesOn

\* A request that inserts has the last id.
InsertsLast == \A r \in Requests : task[r].pc = "insert" => task[r].id = taken

LEMMA NextInsertsLast ==
  ASSUME \A w \in Workloads : w.atOnce = 1, TypeOK, Alone, InsertsLast, [Next]_vars
  PROVE  InsertsLast'
<1>1. ASSUME TasksKept(Requests), taken' = taken PROVE InsertsLast'
  BY <1>1 DEF InsertsLast, TasksKept
<1>2. ASSUME NEW r \in Requests, NEW u \in Users, NEW rest \in BOOLEAN, Send(r, u, rest)
      PROVE  InsertsLast'
  <2>1. \A q \in Requests : task[q] = Idle
    BY <1>2, BeginsAlone DEF Send
  <2>2. /\ \A q \in Requests \ {r} : task'[q] = task[q]
        /\ task'[r].id = taken'
    BY <1>2 DEF Send, Goto, TypeOK
  <2>3. QED
    BY <2>1, <2>2 DEF InsertsLast, Idle
<1>3. ASSUME NEW r \in Requests, NEW u \in Users, TasksKept(Requests \ {r}), taken' = taken,
             (\E i \in Ids : AckRead(r, u, i)) \/ ReadAll(r, u)
      PROVE  InsertsLast'
  <2>1. task'[r].pc # "insert"
    <3>1. ASSUME NEW i \in Ids, AckRead(r, u, i) PROVE task'[r].pc # "insert"
      BY <3>1 DEF AckRead, Happens, Idle
    <3>2. ASSUME ReadAll(r, u) PROVE task'[r].pc # "insert"
      BY <3>2 DEF ReadAll, Happens
    <3>3. QED
      BY <1>3, <3>1, <3>2
  <2>2. QED
    BY <1>3, <2>1 DEF InsertsLast, TasksKept
<1>4. QED
  BY <1>1, <1>2, <1>3, TasksChange

\* So a message that appears comes after all that are there.
LEMMA AppearsLast ==
  ASSUME TellInv, InsertsLast, NEW r \in Requests, Insert(r)
  PROVE  /\ task[r].id \in Ids /\ Visible' \subseteq Visible \cup {task[r].id}
         /\ \A i \in Visible : i < task[r].id
<1>1. task[r].id \in Ids /\ Visible' \subseteq Visible \cup {task[r].id}
  <2>1. task[r].id \in Ids
    BY TaskFields DEF Insert, TellInv, TypeOK
  <2>2. rows' = [rows EXCEPT ![task[r].id] = NewRow(task[r])]
    BY DEF Insert
  <2>3. QED
    BY <2>1, <2>2 DEF Visible
<1>2. ASSUME NEW i \in Visible PROVE i < task[r].id
  <2>1. i <= taken /\ task[r].id = taken /\ i # taken
    BY DEF TellInv, FreshIds, InsertsLast, Insert
  <2>2. i \in Nat /\ taken \in Nat
    BY <1>1, <2>1, IdNumbers DEF Visible
  <2>3. QED
    BY <2>1, <2>2
<1>3. QED
  BY <1>1, <1>2

-----------------------------------------------------------------------------
\* Of what is visible, the ids leave out nothing between two of them.
Whole(ids, visible) ==
  \A i \in visible, low, high \in ids : low <= i /\ i <= high => i \in ids

\* What is cached, or about to be, is in one piece.
InOnePiece ==
  /\ entry[Conv] # None => Whole(IdsIn(entry[Conv].facts), Visible)
  /\ \A r \in Requests : task[r].pc = "store" /\ task[r].key = Conv =>
       Whole(IdsIn(task[r].facts), Visible)

LEMMA NewestWhole ==
  ASSUME NEW n \in Nat
  PROVE  Whole(Newest(Visible, n), Visible)
<1>1. \A i \in Visible, j \in Newest(Visible, n) : j <= i => i \in Newest(Visible, n)
  BY NewestCut DEF Visible
<1>2. QED
  BY <1>1 DEF Whole

\* A message that comes after all others does not come between two of them.
LEMMA WholeStays ==
  ASSUME TellInv, InsertsLast, [Next]_vars,
         NEW ids \in SUBSET Visible, Whole(ids, Visible)
  PROVE  Whole(ids, Visible')
<1>1. CASE Visible' = Visible
  BY <1>1
<1>2. ASSUME NEW r \in Requests, Insert(r) PROVE Whole(ids, Visible')
  <2>1. /\ task[r].id \in Ids /\ Visible' \subseteq Visible \cup {task[r].id}
        /\ \A i \in Visible : i < task[r].id
    BY <1>2, AppearsLast
  <2>2. \A high \in ids : ~ (task[r].id <= high)
    BY <2>1, IdNumbers DEF Visible
  <2>3. QED
    BY <2>1, <2>2 DEF Whole
<1>3. QED
  BY <1>1, <1>2, VisibleGrows DEF TellInv

LEMMA NextInOnePiece ==
  ASSUME TalkInv, InsertsLast, InOnePiece, [Next]_vars
  PROVE  InOnePiece'
<1>1. TypeOK /\ TellInv /\ NoPhantoms
  BY DEF TalkInv, TellInv
<1>2. \A facts : IdsIn(facts) \subseteq Visible /\ Whole(IdsIn(facts), Visible)
                  => Whole(IdsIn(facts), Visible')
  BY <1>1, WholeStays
<1>3. entry[Conv] # None => Whole(IdsIn(entry[Conv].facts), Visible')
  BY <1>1, <1>2 DEF NoPhantoms, InOnePiece
<1>4. \A r \in Requests : task[r].pc = "store" /\ task[r].key = Conv =>
        Whole(IdsIn(task[r].facts), Visible')
  BY <1>1, <1>2 DEF NoPhantoms, InOnePiece
<1>5. ASSUME NEW F, CacheStep(F) PROVE InOnePiece'
  BY <1>3, <1>4, <1>5 DEF CacheStep, InOnePiece, Keys
<1>6. ASSUME NEW r \in Requests, FetchPage(r) \/ FetchList(r) \/ Store(r) PROVE InOnePiece'
  <2>1. ASSUME task[r].pc = "fetch", task[r].key = Conv
        PROVE  Whole(IdsIn(Messages(Newest(Visible, task[r].limit))), Visible)
    <3>1. task[r].limit \in Nat
      BY <1>1, <2>1, TaskFields DEF TypeOK
    <3>2. Newest(Visible, task[r].limit) \in SUBSET Ids
      BY VisibleIds DEF Newest
    <3>3. QED
      BY <3>1, <3>2, MessagesTyped, NewestWhole
  <2>2. Visible' = Visible
    BY <1>1, <1>6, FetchedFacts
  <2>3. entry'[Conv] # None => Whole(IdsIn(entry'[Conv].facts), Visible')
    BY <1>1, <1>3, <1>4, <1>6, FetchedFacts
  <2>4. ASSUME NEW q \in Requests, task'[q].pc = "store", task'[q].key = Conv
        PROVE  Whole(IdsIn(task'[q].facts), Visible')
    BY <1>1, <1>4, <1>6, <2>1, <2>2, <2>4, FetchedFacts
  <2>5. QED
    BY <2>3, <2>4 DEF InOnePiece
<1>7. QED
  BY <1>1, <1>5, <1>6, CacheSteps

\* What clients have been given, and have been told to ask for next, leaves out
\* nothing: no message between the cursor of the pages and their top, and none
\* up to the last one of a synchronisation.
NothingMissed ==
  /\ page # None => \A i \in Visible : i \in page.cursor .. page.top => i \in page.got
  /\ \A i \in Visible : i <= sync.last => i \in sync.got

GapFree ==
  /\ page # None => page.top \in Visible
  /\ sync.last \in Visible \cup {0}
  /\ NothingMissed

\* A first page that is in one piece.
LEMMA FirstPageWhole ==
  ASSUME NEW ids \in SUBSET Visible, ids # {}, Whole(ids, Visible),
         NEW late, page' = Answer(ids, late), Visible' = Visible
  PROVE  /\ page'.top \in Visible'
         /\ \A i \in Visible' : i \in page'.cursor .. page'.top => i \in page'.got
<1>1. ids \in SUBSET Ids
  BY DEF Visible
<1>2. Least(ids) \in ids /\ Latest(ids) \in ids
  BY <1>1, LeastMember, LatestMember
<1>3. \A i \in Least(ids) .. Latest(ids) : Least(ids) <= i /\ i <= Latest(ids)
  OBVIOUS
<1>4. QED
  BY <1>2, <1>3, AnswerFields DEF Whole

LEMMA NextPageWhole ==
  ASSUME TalkInv, InsertsLast, InOnePiece, GapFree, [Next]_vars
  PROVE  page' # None =>
           /\ page'.top \in Visible'
           /\ \A i \in Visible' : i \in page'.cursor .. page'.top => i \in page'.got
<1>1. TypeOK /\ TellInv /\ NoPhantoms /\ CacheInv /\ Visible \subseteq Visible'
  BY VisibleStays DEF TalkInv, TellInv
<1>2. page # None => /\ page.top \in Visible
                     /\ \A i \in Visible : i \in page.cursor .. page.top => i \in page.got
  BY DEF GapFree, NothingMissed
<1>3. ASSUME NEW r \in Requests, Insert(r), page' # None
      PROVE  /\ page'.top \in Visible'
             /\ \A i \in Visible' : i \in page'.cursor .. page'.top => i \in page'.got
  <2>1. /\ task[r].id \in Ids /\ Visible' \subseteq Visible \cup {task[r].id}
        /\ \A i \in Visible : i < task[r].id
    BY <1>1, <1>3, AppearsLast
  <2>2. page # None /\ page' = [page EXCEPT !.late = @ \cup {task[r].id}]
    BY <1>3 DEF Insert, Appears
  <2>3. page \in Pages
    BY <1>1, <2>2 DEF TypeOK
  <2>4. page'.got = page.got /\ page'.cursor = page.cursor /\ page'.top = page.top
    BY <2>2, <2>3 DEF Pages
  <2>5. task[r].id \notin page.cursor .. page.top
    BY <1>2, <2>1, <2>2, IdNumbers DEF Visible
  <2>6. QED
    BY <1>1, <1>2, <2>1, <2>2, <2>4, <2>5
<1>4. ASSUME NEW r \in Requests, FetchPage(r), page' # page
      PROVE  /\ page'.top \in Visible'
             /\ \A i \in Visible' : i \in page'.cursor .. page'.top => i \in page'.got
  <2> DEFINE ids == Newest(Visible, task[r].limit)
  <2>1. ids # {} /\ page' = Answer(ids, {}) /\ Visible' = Visible
    BY <1>4 DEF FetchPage, Visible
  <2>2. task[r].limit \in Nat
    BY <1>1, <1>4, TaskFields DEF FetchPage, TypeOK
  <2>3. ids \in SUBSET Visible /\ Whole(ids, Visible)
    BY <2>2, NewestWhole DEF Newest
  <2> HIDE DEF ids
  <2>4. QED
    BY <2>1, <2>3, FirstPageWhole
<1>5. ASSUME NEW n \in Limits, GetCached(n)
      PROVE  /\ page'.top \in Visible'
             /\ \A i \in Visible' : i \in page'.cursor .. page'.top => i \in page'.got
  <2> DEFINE have == IdsIn(entry[Conv].facts)
             ids == Newest(have, PageLimit(n))
             late == IdsIn(entry[Conv].excused \cup Pending(Conv))
  <2>1. page' = Answer(ids, late) /\ entry[Conv] # None /\ Visible' = Visible
    BY <1>5 DEF GetCached, Visible
  <2>2. have \subseteq Visible /\ have # {} /\ Whole(have, Visible)
    <3>1. have \subseteq Visible /\ have # {}
      BY <1>1, <2>1 DEF CacheInv, PageFacts, NoPhantoms
    <3>2. QED
      BY <2>1, <3>1 DEF InOnePiece
  <2>3. have \in SUBSET Ids /\ PageLimit(n) \in Nat \ {0}
    BY <2>2, LimitsTyped DEF Visible
  <2> HIDE DEF have, late
  <2>4. ids \subseteq have /\ ids # {} /\ \A i \in have, j \in ids : j <= i => i \in ids
    BY <2>2, <2>3, NewestCut
  <2> HIDE DEF ids
  <2>5. Whole(ids, Visible)
    BY <2>2, <2>4 DEF Whole
  <2>6. QED
    BY <2>1, <2>2, <2>4, <2>5, FirstPageWhole
<1>6. ASSUME NEW n \in Limits, GetOlder(n)
      PROVE  /\ page'.top \in Visible'
             /\ \A i \in Visible' : i \in page'.cursor .. page'.top => i \in page'.got
  <2>1. PICK low \in Visible : Talk!OlderPage(low)
    BY <1>1, <1>6, TalkOlder
  <2> DEFINE ids == {i \in Talk!Present : low <= i /\ i < Paged.cursor}
  <2>2. /\ page # None /\ page' # None /\ Visible' = Visible
        /\ page \in Pages /\ page' \in Pages
    <3>1. page # None /\ page \in Pages /\ Visible' = Visible
      BY <1>1, <1>6 DEF GetOlder, TypeOK, Visible
    <3>2. page' \in Pages \cup {None}
      BY NextCache DEF TalkInv, CacheInv, TypeOK
    <3>3. page' # None
      <4>1. Paged'.cursor = low
        BY <2>1 DEF Talk!OlderPage
      <4>2. low # 0
        BY IdNumbers DEF Visible
      <4>3. QED
        BY <4>1, <4>2 DEF Paged
    <3>4. QED
      BY <3>1, <3>2, <3>3
  <2>3. Paged' = [got |-> Paged.got \cup ids, cursor |-> low, top |-> Paged.top]
    BY <2>1 DEF Talk!OlderPage
  <2>4. page'.got = page.got \cup ids /\ page'.cursor = low /\ page'.top = page.top
    BY <2>2, <2>3, GivenFields DEF Paged
  <2>5. ASSUME NEW i \in Visible, i \in low .. page.top PROVE i \in page.got \cup ids
    <3>1. low \in Nat /\ i \in Nat /\ page.cursor \in Nat /\ page.top \in Nat
      BY <2>2, IdNumbers DEF Visible, Pages
    <3>2. CASE i < page.cursor
      BY <2>2, <2>5, <3>1, <3>2, LogFields, GivenFields
    <3>3. CASE page.cursor <= i
      BY <1>2, <2>2, <2>5, <3>1, <3>3
    <3>4. QED
      BY <3>1, <3>2, <3>3
  <2> HIDE DEF ids
  <2>6. QED
    BY <1>2, <2>2, <2>4, <2>5
<1>7. ASSUME page' = page, Visible' = Visible
      PROVE  page' # None =>
               /\ page'.top \in Visible'
               /\ \A i \in Visible' : i \in page'.cursor .. page'.top => i \in page'.got
  BY <1>2, <1>7
<1>8. QED
  BY <1>1, <1>3, <1>4, <1>5, <1>6, <1>7, ClientsChange, VisibleGrows

LEMMA NextSyncWhole ==
  ASSUME TalkInv, InsertsLast, GapFree, [Next]_vars
  PROVE  /\ sync'.last \in Visible' \cup {0}
         /\ \A i \in Visible' : i <= sync'.last => i \in sync'.got
<1>1. TypeOK /\ TellInv /\ Visible \subseteq Visible'
  BY VisibleStays DEF TalkInv, TellInv
<1>2. /\ sync.last \in Visible \cup {0}
      /\ \A i \in Visible : i <= sync.last => i \in sync.got
  BY DEF GapFree, NothingMissed
<1>3. ASSUME NEW r \in Requests, Insert(r)
      PROVE  /\ sync'.last \in Visible' \cup {0}
             /\ \A i \in Visible' : i <= sync'.last => i \in sync'.got
  <2>1. /\ task[r].id \in Ids /\ Visible' \subseteq Visible \cup {task[r].id}
        /\ \A i \in Visible : i < task[r].id
    BY <1>1, <1>3, AppearsLast
  <2>2. sync'.got = sync.got /\ sync'.last = sync.last
    <3>1. sync \in Syncs /\ Appears(task[r].id)
      BY <1>1, <1>3 DEF Insert, TypeOK
    <3>2. QED
      BY <3>1 DEF Appears, Syncs
  <2>3. ~ (task[r].id <= sync.last)
    BY <1>2, <2>1, IdNumbers DEF Visible
  <2>4. QED
    BY <1>1, <1>2, <2>1, <2>2, <2>3
<1>4. ASSUME NEW l \in Nat \ {0}, Synced(l), rows' = rows, page' = page
      PROVE  /\ sync'.last \in Visible' \cup {0}
             /\ \A i \in Visible' : i <= sync'.last => i \in sync'.got
  <2>1. Visible' = Visible
    BY <1>4 DEF Visible
  <2>2. CASE Talk!Receipts
    <3>1. sync'.got = sync.got /\ sync'.last = sync.last
      BY <2>2 DEF Talk!Receipts, Given
    <3>2. QED
      BY <1>2, <2>1, <3>1
  <2>3. ASSUME NEW last \in Visible, Talk!Synchronise(last)
        PROVE  /\ sync'.last \in Visible' \cup {0}
               /\ \A i \in Visible' : i <= sync'.last => i \in sync'.got
    <3> DEFINE ids == {i \in Talk!Present : Given.last < i /\ i <= last}
    <3>1. Given' = [got |-> Given.got \cup ids, last |-> last]
      BY <2>3 DEF Talk!Synchronise
    <3>2. sync'.got = sync.got \cup ids /\ sync'.last = last
      BY <3>1, GivenFields DEF Given
    <3>3. ASSUME NEW i \in Visible, i <= last PROVE i \in sync.got \cup ids
      <4>1. i \in Nat /\ sync.last \in Nat
        BY <1>1, IdNumbers DEF Visible, TypeOK, Syncs
      <4>2. QED
        BY <1>2, <3>3, <4>1, LogFields, GivenFields
    <3> HIDE DEF ids
    <3>4. QED
      BY <2>1, <3>2, <3>3
  <2>4. QED
    BY <1>1, <1>4, <2>2, <2>3, TalkSynced
<1>5. ASSUME sync' = sync, Visible' = Visible
      PROVE  /\ sync'.last \in Visible' \cup {0}
             /\ \A i \in Visible' : i <= sync'.last => i \in sync'.got
  BY <1>2, <1>5
<1>6. QED
  BY <1>1, <1>3, <1>4, <1>5, ClientsChange, VisibleGrows

\* What PagesComplete and SyncComplete except for messages that come late is due
\* to requests that overlap: when they come one at a time, clients miss nothing
\* whatever fails, whenever the process dies and however old the cache is.
THEOREM NothingMissedOneByOne ==
  ASSUME \A w \in Workloads : w.atOnce = 1
  PROVE  Spec => []NothingMissed
<1> DEFINE OneInv == Alone /\ InsertsLast /\ InOnePiece /\ GapFree
<1>1. Init => TalkInv /\ OneInv
  <2>1. ASSUME Init PROVE OneInv
    BY <2>1 DEF Init, Alone, InsertsLast, InOnePiece, GapFree, NothingMissed, Visible, Idle,
                Keys
  <2>2. QED
    BY <2>1, InitTalk
<1>2. TalkInv /\ OneInv /\ [Next]_vars => TalkInv' /\ OneInv'
  <2> SUFFICES ASSUME TalkInv, OneInv, [Next]_vars PROVE TalkInv' /\ OneInv'
    OBVIOUS
  <2>1. TypeOK
    BY DEF TalkInv, CacheInv
  <2>2. Alone' /\ InsertsLast'
    BY <2>1, NextAlone, NextInsertsLast
  <2>3. InOnePiece'
    BY NextInOnePiece
  <2>4. GapFree'
    BY NextPageWhole, NextSyncWhole DEF GapFree, NothingMissed
  <2>5. TalkInv'
    BY NextCache, NextTells, NextPhantoms DEF TalkInv
  <2>6. QED
    BY <2>2, <2>3, <2>4, <2>5
<1>3. OneInv => NothingMissed
  BY DEF GapFree
<1> HIDE DEF OneInv
<1>4. QED
  BY <1>1, <1>2, <1>3, PTL DEF Spec

=============================================================================
