----------------------------- MODULE HubProofs -----------------------------
(***************************************************************************)
(* Proofs about Hub, for every set of users, connections and writers and   *)
(* every timeout.                                                          *)
(***************************************************************************)
EXTENDS Hub, TLAPS

\* A connection that has not been opened is untouched.
FreshInv ==
  \A c \in Conns : handler[c] = "none" =>
    /\ owner[c] = NoUser /\ wire[c] = "none" /\ ping[c] = "none"
    /\ age[c] = 0 /\ silence[c] = 0

\* An opened one has a user.
OwnedInv == \A c \in Conns : handler[c] # "none" => owner[c] \in Users

\* A registered connection is registered for the user it belongs to, and
\* nobody has closed its CloseChan.
EntryInv ==
  \A u \in Users : clients[u] # NoConn =>
    /\ owner[clients[u]] = u
    /\ closeChan[clients[u]] = "open"
    /\ handler[clients[u]] # "none"

\* Whoever is about to unregister a user because of a failed write holds a
\* connection on which writes can fail.
FailureInv ==
  /\ \A c \in Conns : ping[c] = "failed" => wire[c] \in {"lost", "closed"}
  /\ \A w \in Writers : (writer[w].conn # NoConn /\ writer[w].failed)
       => wire[writer[w].conn] \in {"lost", "closed"}

\* Whoever the checker is about to remove has a connection older than the
\* timeout, and no connection has been silent for longer than it is open.
SilenceInv ==
  /\ \A c \in Conns : silence[c] <= age[c]
  /\ \A u \in dead : \E c \in Conns : owner[c] = u /\ age[c] > PongTimeout

\* What is inductive.
IInv == /\ TypeOK
        /\ NoDoubleClose
        /\ FreshInv
        /\ OwnedInv
        /\ EntryInv
        /\ FailureInv
        /\ SilenceInv
        /\ SoleConnectionOnline

-----------------------------------------------------------------------------
\* Unregister, the step five kinds of goroutines share: it keeps the registry
\* well-typed and consistent, and touches no entry but the user's.
LEMMA UnregisterLemma ==
  ASSUME TypeOK, NoDoubleClose, EntryInv,
         NEW u \in Users, Unregister(u)
  PROVE  /\ clients' \in [Users -> Conns \cup {NoConn}]
         /\ closeChan' \in [Conns -> {"none", "open", "closed"}]
         /\ panicked' = FALSE
         /\ clients'[u] = NoConn
         /\ \A v \in Users \ {u} :
              /\ clients'[v] = clients[v]
              /\ clients[v] # NoConn => closeChan'[clients[v]] = closeChan[clients[v]]
<1> USE HubAssumption
<1>1. CASE clients[u] = NoConn
  BY <1>1 DEF Unregister, TypeOK, NoDoubleClose
<1>2. CASE clients[u] # NoConn
  <2>1. clients[u] \in Conns
    BY <1>2 DEF TypeOK
  <2>2. panicked' = FALSE
    BY <1>2, <2>1 DEF Unregister, EntryInv, NoDoubleClose, TypeOK
  <2>3. clients' = [clients EXCEPT ![u] = NoConn]
    BY <1>2 DEF Unregister
  <2>4. closeChan' = [closeChan EXCEPT ![clients[u]] = "closed"]
    BY <1>2 DEF Unregister
  <2>5. ASSUME NEW v \in Users \ {u}, clients[v] # NoConn
        PROVE  clients[v] # clients[u] /\ clients[v] \in Conns
    BY <1>2, <2>5 DEF EntryInv, TypeOK
  <2>6. QED
    BY <2>1, <2>2, <2>3, <2>4, <2>5 DEF TypeOK
<1>3. QED
  BY <1>1, <1>2

\* The owner of a connection some goroutine works for is a user.
LEMMA OwnerLemma ==
  ASSUME TypeOK, FreshInv, OwnedInv
  PROVE  /\ \A c \in Conns : (handler[c] # "none" \/ ping[c] # "none")
                               => owner[c] \in Users
         /\ FailureInv => \A w \in Writers :
              (writer[w].conn # NoConn /\ writer[w].failed)
                => owner[writer[w].conn] \in Users
<1>1. \A c \in Conns : (handler[c] # "none" \/ ping[c] # "none") => owner[c] \in Users
  BY DEF FreshInv, OwnedInv
<1>2. ASSUME FailureInv, NEW w \in Writers, writer[w].conn # NoConn, writer[w].failed
      PROVE  owner[writer[w].conn] \in Users
  <2>1. writer[w].conn \in Conns
    BY <1>2 DEF TypeOK
  <2>2. QED
    BY <1>2, <2>1 DEF FailureInv, FreshInv, OwnedInv
<1>3. QED
  BY <1>1, <1>2

-----------------------------------------------------------------------------
LEMMA InitLemma == Init => IInv
<1> SUFFICES ASSUME Init PROVE IInv
  OBVIOUS
<1> USE HubAssumption DEF Init
<1>1. TypeOK
  <2>1. 0 \in Time
    BY DEF Time
  <2>2. Idle \in [conn : Conns \cup {NoConn}, failed : BOOLEAN]
    BY DEF Idle
  <2>3. QED
    BY <2>1, <2>2 DEF TypeOK
<1>2. NoDoubleClose /\ FreshInv /\ OwnedInv /\ EntryInv
  BY DEF NoDoubleClose, FreshInv, OwnedInv, EntryInv
<1>3. FailureInv /\ SilenceInv
  BY DEF FailureInv, SilenceInv, Idle
<1>4. SoleConnectionOnline
  BY DEF SoleConnectionOnline
<1>5. QED
  BY <1>1, <1>2, <1>3, <1>4 DEF IInv

\* The steps that call Unregister change, besides the registry, only the
\* program counter of the goroutine that calls it.
LEMMA UnregisterStep ==
  ASSUME IInv, NEW u \in Users, Unregister(u),
         UNCHANGED <<owner, age, silence, wire>>,
         handler' \in [Conns -> {"none", "reading", "leaving", "closing", "done"}],
         ping' \in [Conns -> {"none", "waiting", "ticked", "checked", "failed", "done"}],
         \A c \in Conns : handler'[c] = handler[c]
                          \/ (handler[c] = "leaving" /\ handler'[c] = "closing"),
         \A c \in Conns : ping'[c] = ping[c]
                          \/ (ping[c] = "failed" /\ ping'[c] = "done"),
         dead' \subseteq dead,
         writer' \in [Writers -> [conn : Conns \cup {NoConn}, failed : BOOLEAN]],
         \A w \in Writers : writer'[w] = writer[w] \/ writer'[w] = Idle,
         \* the user's sole connection, if any, is not healthy
         \A c \in Conns : (owner[c] = u /\ Sole(c)) =>
            ~(handler[c] = "reading" /\ wire[c] = "up" /\ age[c] <= PongTimeout)
  PROVE  IInv'
<1> USE DEF IInv
<1>1. /\ clients' \in [Users -> Conns \cup {NoConn}]
      /\ closeChan' \in [Conns -> {"none", "open", "closed"}]
      /\ panicked' = FALSE
      /\ clients'[u] = NoConn
      /\ \A v \in Users \ {u} :
           /\ clients'[v] = clients[v]
           /\ clients[v] # NoConn => closeChan'[clients[v]] = closeChan[clients[v]]
  BY UnregisterLemma
<1>2. TypeOK'
  BY <1>1 DEF TypeOK
<1>3. NoDoubleClose'
  BY <1>1 DEF NoDoubleClose
<1>4. FreshInv'
  BY DEF FreshInv
<1>5. OwnedInv'
  BY DEF OwnedInv
<1>6. EntryInv'
  <2> SUFFICES ASSUME NEW v \in Users, clients'[v] # NoConn
               PROVE  /\ owner'[clients'[v]] = v
                      /\ closeChan'[clients'[v]] = "open"
                      /\ handler'[clients'[v]] # "none"
    BY DEF EntryInv
  <2>1. v # u /\ clients'[v] = clients[v] /\ clients[v] \in Conns
    BY <1>1 DEF TypeOK
  <2>2. QED
    BY <1>1, <2>1 DEF EntryInv
<1>7. FailureInv'
  <2>1. \A c \in Conns : ping'[c] = "failed" => wire'[c] \in {"lost", "closed"}
    BY DEF FailureInv
  <2>2. ASSUME NEW w \in Writers, writer'[w].conn # NoConn, writer'[w].failed
        PROVE  wire'[writer'[w].conn] \in {"lost", "closed"}
    BY <2>2 DEF FailureInv, Idle
  <2>3. QED
    BY <2>1, <2>2 DEF FailureInv
<1>8. SilenceInv'
  BY DEF SilenceInv
<1>9. SoleConnectionOnline'
  <2> SUFFICES ASSUME NEW c \in Conns,
                      handler'[c] = "reading" /\ wire'[c] = "up"
                        /\ age'[c] <= PongTimeout /\ Sole(c)'
               PROVE  clients'[owner'[c]] = c
    BY DEF SoleConnectionOnline
  <2>1. handler[c] = "reading" /\ wire[c] = "up" /\ age[c] <= PongTimeout
    OBVIOUS
  <2>2. Sole(c)
    BY DEF Sole
  <2>3. owner[c] \in Users /\ owner[c] # u
    BY <2>1, <2>2 DEF OwnedInv
  <2>4. clients[owner[c]] = c
    BY <2>1, <2>2 DEF SoleConnectionOnline
  <2>5. QED
    BY <1>1, <2>3, <2>4
<1>10. QED
  BY <1>2, <1>3, <1>4, <1>5, <1>6, <1>7, <1>8, <1>9

\* A new connection joins the registry.
LEMMA RegisterStep ==
  ASSUME IInv, NEW u \in Users, NEW c \in Conns, Register(u, c)
  PROVE  IInv'
<1> USE HubAssumption DEF IInv, Register
<1>1. TypeOK'
  BY DEF TypeOK
<1>2. c # NoConn /\ wire[c] = "none" /\ owner[c] = NoUser /\ age[c] = 0
        /\ silence[c] = 0 /\ ping[c] = "none"
  BY DEF FreshInv
<1>3. NoDoubleClose'
  BY DEF NoDoubleClose
<1>4. FreshInv' /\ OwnedInv'
  BY DEF FreshInv, OwnedInv, TypeOK
<1>5. EntryInv'
  <2> SUFFICES ASSUME NEW v \in Users, clients'[v] # NoConn
               PROVE  /\ owner'[clients'[v]] = v
                      /\ closeChan'[clients'[v]] = "open"
                      /\ handler'[clients'[v]] # "none"
    BY DEF EntryInv
  <2>1. CASE v = u
    BY <2>1 DEF TypeOK
  <2>2. CASE v # u
    <3>1. clients'[v] = clients[v] /\ clients[v] \in Conns /\ clients[v] # c
      BY <2>2 DEF TypeOK, EntryInv
    <3>2. QED
      BY <3>1 DEF EntryInv, TypeOK
  <2>3. QED
    BY <2>1, <2>2
<1>6. FailureInv'
  <2>1. ASSUME NEW d \in Conns, ping'[d] = "failed"
        PROVE  wire'[d] \in {"lost", "closed"}
    BY <2>1 DEF FailureInv, TypeOK
  <2>2. ASSUME NEW w \in Writers, writer[w].conn # NoConn, writer[w].failed
        PROVE  wire'[writer[w].conn] \in {"lost", "closed"}
    <3>1. writer[w].conn \in Conns /\ wire[writer[w].conn] \in {"lost", "closed"}
      BY <2>2 DEF FailureInv, TypeOK
    <3>2. QED
      BY <1>2, <3>1 DEF TypeOK
  <2>3. QED
    BY <2>1, <2>2 DEF FailureInv
<1>7. SilenceInv'
  <2>1. \A d \in Conns : silence'[d] <= age'[d]
    BY DEF SilenceInv
  <2>2. ASSUME NEW v \in dead
        PROVE  \E d \in Conns : owner'[d] = v /\ age'[d] > PongTimeout
    <3>1. PICK d \in Conns : owner[d] = v /\ age[d] > PongTimeout
      BY DEF SilenceInv
    <3>2. d # c
      BY <1>2, <3>1
    <3>3. QED
      BY <3>1, <3>2 DEF TypeOK
  <2>3. QED
    BY <2>1, <2>2 DEF SilenceInv
<1>8. SoleConnectionOnline'
  <2> SUFFICES ASSUME NEW d \in Conns,
                      handler'[d] = "reading" /\ wire'[d] = "up"
                        /\ age'[d] <= PongTimeout /\ Sole(d)'
               PROVE  clients'[owner'[d]] = d
    BY DEF SoleConnectionOnline
  <2>1. CASE d = c
    BY <2>1 DEF TypeOK
  <2>2. CASE d # c
    <3>1. handler[d] = "reading" /\ wire[d] = "up" /\ age[d] <= PongTimeout
      BY <2>2 DEF TypeOK
    <3>2. owner'[d] = owner[d] /\ owner'[c] = u /\ owner[d] \in Users
      BY <2>2, <3>1 DEF TypeOK, OwnedInv
    <3>3. owner[d] # u
      BY <2>2, <3>2 DEF Sole
    <3>4. Sole(d)
      <4> SUFFICES ASSUME NEW e \in Conns \ {d} PROVE owner[e] # owner[d]
        BY DEF Sole
      <4>1. CASE e = c
        BY <4>1, <1>2, <3>2
      <4>2. CASE e # c
        <5>1. owner'[e] = owner[e]
          BY <4>2 DEF TypeOK
        <5>2. owner'[e] # owner'[d]
          BY DEF Sole
        <5>3. QED
          BY <5>1, <5>2, <3>2
      <4>3. QED
        BY <4>1, <4>2
    <3>5. clients[owner[d]] = d
      BY <3>1, <3>4 DEF SoleConnectionOnline
    <3>6. QED
      BY <3>2, <3>3, <3>5 DEF TypeOK
  <2>3. QED
    BY <2>1, <2>2
<1>9. QED
  BY <1>1, <1>3, <1>4, <1>5, <1>6, <1>7, <1>8

\* Time only makes connections older, and a silent one at least as fast.
LEMMA ElapseStep ==
  ASSUME IInv, Elapse
  PROVE  IInv'
<1> USE HubAssumption DEF IInv, Elapse
<1>1. \A t \in Time : Later(t) \in Time /\ t <= Later(t)
  BY DEF Time, Later
<1>2. \A s, t \in Time : s <= t => Later(s) <= Later(t)
  BY DEF Time, Later
<1>3. TypeOK'
  BY <1>1 DEF TypeOK
<1>4. \A c \in Conns : age[c] <= age'[c]
  BY <1>1 DEF TypeOK, Time
<1>5. NoDoubleClose' /\ FreshInv' /\ OwnedInv' /\ EntryInv' /\ FailureInv'
  BY DEF NoDoubleClose, FreshInv, OwnedInv, EntryInv, FailureInv, TypeOK
<1>6. SilenceInv'
  <2>1. ASSUME NEW c \in Conns PROVE silence'[c] <= age'[c]
    BY <1>2 DEF SilenceInv, TypeOK
  <2>2. ASSUME NEW v \in dead
        PROVE  \E c \in Conns : owner[c] = v /\ age'[c] > PongTimeout
    <3>1. PICK c \in Conns : owner[c] = v /\ age[c] > PongTimeout
      BY DEF SilenceInv
    <3>2. age[c] \in Nat /\ age'[c] \in Nat /\ age[c] <= age'[c]
      BY <1>3, <1>4 DEF TypeOK, Time
    <3>3. QED
      BY <3>1, <3>2
  <2>3. QED
    BY <2>1, <2>2 DEF SilenceInv
<1>7. SoleConnectionOnline'
  <2> SUFFICES ASSUME NEW c \in Conns, age'[c] <= PongTimeout
               PROVE  age[c] <= PongTimeout
    BY DEF SoleConnectionOnline, Sole
  <2>1. age[c] \in Nat /\ age'[c] \in Nat /\ age[c] <= age'[c]
    BY <1>3, <1>4 DEF TypeOK, Time
  <2>2. QED
    BY <2>1
<1>8. QED
  BY <1>3, <1>5, <1>6, <1>7

\* The checker takes the silent users; a silent connection is an old one.
LEMMA HealthScanStep ==
  ASSUME IInv, HealthScan
  PROVE  IInv'
<1> USE HubAssumption DEF IInv, HealthScan, connVars
<1>1. TypeOK' /\ NoDoubleClose' /\ FreshInv' /\ OwnedInv' /\ EntryInv' /\ FailureInv'
  BY DEF TypeOK, NoDoubleClose, FreshInv, OwnedInv, EntryInv, FailureInv
<1>2. SilenceInv'
  <2>1. ASSUME NEW v \in Users, Silent(v)
        PROVE  \E c \in Conns : owner[c] = v /\ age[c] > PongTimeout
    <3>1. clients[v] \in Conns /\ owner[clients[v]] = v /\ silence[clients[v]] > PongTimeout
      BY <2>1 DEF Silent, EntryInv, TypeOK
    <3>2. silence[clients[v]] \in Nat /\ age[clients[v]] \in Nat
            /\ silence[clients[v]] <= age[clients[v]]
      BY <3>1 DEF SilenceInv, TypeOK, Time
    <3>3. age[clients[v]] > PongTimeout
      BY <3>1, <3>2
    <3>4. QED
      BY <3>1, <3>3
  <2>2. QED
    BY <2>1 DEF SilenceInv
<1>3. SoleConnectionOnline'
  BY DEF SoleConnectionOnline, Sole
<1>4. QED
  BY <1>1, <1>2, <1>3

\* A pong only makes a registered connection less silent.
LEMMA PongStep ==
  ASSUME IInv, NEW c \in Conns, Pong(c)
  PROVE  IInv'
<1> USE HubAssumption DEF IInv, Pong
<1>1. owner[c] \in Users /\ clients[owner[c]] \in Conns
        /\ handler[clients[owner[c]]] # "none"
  BY DEF OwnedInv, EntryInv, TypeOK
<1>2. 0 \in Time
  BY DEF Time
<1>3. TypeOK'
  BY <1>1, <1>2 DEF TypeOK
<1>4. NoDoubleClose' /\ FreshInv' /\ OwnedInv' /\ EntryInv' /\ FailureInv'
  BY <1>1 DEF NoDoubleClose, FreshInv, OwnedInv, EntryInv, FailureInv, TypeOK
<1>5. SilenceInv'
  <2>1. ASSUME NEW d \in Conns PROVE silence'[d] <= age[d]
    BY <1>1 DEF SilenceInv, TypeOK, Time
  <2>2. QED
    BY <2>1 DEF SilenceInv
<1>6. SoleConnectionOnline'
  BY DEF SoleConnectionOnline, Sole
<1>7. QED
  BY <1>3, <1>4, <1>5, <1>6

-----------------------------------------------------------------------------
LEMMA NextLemma == IInv /\ [Next]_vars => IInv'
<1> SUFFICES ASSUME IInv, [Next]_vars PROVE IInv'
  OBVIOUS
<1> USE HubAssumption DEF IInv
<1>1. CASE Elapse
  BY <1>1, ElapseStep
<1>2. CASE HealthScan
  BY <1>2, HealthScanStep
<1>3. ASSUME NEW u \in Users, HealthRemove(u) PROVE IInv'
  <2>1. \A c \in Conns : (owner[c] = u /\ Sole(c)) =>
          ~(handler[c] = "reading" /\ wire[c] = "up" /\ age[c] <= PongTimeout)
    <3>1. PICK d \in Conns : owner[d] = u /\ age[d] > PongTimeout
      BY <1>3 DEF HealthRemove, SilenceInv
    <3>2. age[d] \in Nat
      BY DEF TypeOK, Time
    <3>3. QED
      BY <3>1, <3>2 DEF Sole
  <2>2. QED
    BY <1>3, <2>1, UnregisterStep DEF HealthRemove, connVars, TypeOK
<1>4. ASSUME NEW u \in Users, NEW c \in Conns, Register(u, c) PROVE IInv'
  BY <1>4, RegisterStep
<1>5. ASSUME NEW c \in Conns, PeerLost(c) PROVE IInv'
  <2> USE <1>5 DEF PeerLost
  <2>1. TypeOK' /\ NoDoubleClose' /\ FreshInv' /\ OwnedInv' /\ EntryInv'
    BY DEF TypeOK, NoDoubleClose, FreshInv, OwnedInv, EntryInv
  <2>2. FailureInv'
    BY DEF FailureInv, TypeOK
  <2>3. SilenceInv'
    BY DEF SilenceInv
  <2>4. SoleConnectionOnline'
    BY DEF SoleConnectionOnline, Sole, TypeOK
  <2>5. QED
    BY <2>1, <2>2, <2>3, <2>4
<1>6. ASSUME NEW c \in Conns, Pong(c) PROVE IInv'
  BY <1>6, PongStep
<1>7. ASSUME NEW c \in Conns, ReadError(c) \/ ReadTimeout(c) PROVE IInv'
  <2> USE <1>7 DEF ReadError, ReadTimeout, connVars
  <2>1. TypeOK' /\ NoDoubleClose' /\ FreshInv' /\ OwnedInv' /\ EntryInv'
    BY DEF TypeOK, NoDoubleClose, FreshInv, OwnedInv, EntryInv
  <2>2. FailureInv' /\ SilenceInv'
    BY DEF FailureInv, SilenceInv
  <2>3. SoleConnectionOnline'
    BY DEF SoleConnectionOnline, Sole, TypeOK
  <2>4. QED
    BY <2>1, <2>2, <2>3
<1>8. ASSUME NEW c \in Conns, HandlerUnregister(c) PROVE IInv'
  <2>1. owner[c] \in Users
    BY <1>8 DEF HandlerUnregister, OwnedInv
  <2>2. \A d \in Conns : (owner[d] = owner[c] /\ Sole(d)) =>
          ~(handler[d] = "reading" /\ wire[d] = "up" /\ age[d] <= PongTimeout)
    BY <1>8 DEF HandlerUnregister, Sole
  <2>3. QED
    BY <1>8, <2>1, <2>2, UnregisterStep DEF HandlerUnregister, connVars, TypeOK
<1>9. ASSUME NEW c \in Conns, HandlerClose(c) PROVE IInv'
  <2> USE <1>9 DEF HandlerClose
  <2>1. TypeOK' /\ NoDoubleClose' /\ FreshInv' /\ OwnedInv' /\ EntryInv'
    BY DEF TypeOK, NoDoubleClose, FreshInv, OwnedInv, EntryInv
  <2>2. FailureInv' /\ SilenceInv'
    BY DEF FailureInv, SilenceInv, TypeOK
  <2>3. SoleConnectionOnline'
    BY DEF SoleConnectionOnline, Sole, TypeOK
  <2>4. QED
    BY <2>1, <2>2, <2>3
<1>10. ASSUME NEW c \in Conns, PingClosed(c) \/ PingTick(c) \/ PingCheck(c) \/ PingWrite(c)
       PROVE  IInv'
  <2> USE <1>10 DEF PingClosed, PingTick, PingCheck, PingWrite, connVars
  <2>1. TypeOK' /\ NoDoubleClose' /\ OwnedInv' /\ EntryInv'
    BY DEF TypeOK, NoDoubleClose, OwnedInv, EntryInv
  <2>2. FreshInv'
    BY DEF FreshInv, TypeOK
  <2>3. FailureInv'
    BY DEF FailureInv, TypeOK, WriteSucceeds, WriteFails
  <2>4. SilenceInv' /\ SoleConnectionOnline'
    BY DEF SilenceInv, SoleConnectionOnline, Sole
  <2>5. QED
    BY <2>1, <2>2, <2>3, <2>4
<1>11. ASSUME NEW c \in Conns, PingUnregister(c) PROVE IInv'
  <2>1. owner[c] \in Users
    BY <1>11, OwnerLemma DEF PingUnregister
  <2>2. \A d \in Conns : (owner[d] = owner[c] /\ Sole(d)) =>
          ~(handler[d] = "reading" /\ wire[d] = "up" /\ age[d] <= PongTimeout)
    BY <1>11 DEF PingUnregister, Sole, FailureInv
  <2>3. QED
    BY <1>11, <2>1, <2>2, UnregisterStep DEF PingUnregister, connVars, TypeOK
<1>12. ASSUME NEW w \in Writers, NEW u \in Users, WriterLookup(w, u) PROVE IInv'
  <2> USE <1>12 DEF WriterLookup, connVars
  <2>1. TypeOK' /\ NoDoubleClose' /\ FreshInv' /\ OwnedInv' /\ EntryInv'
    BY DEF TypeOK, NoDoubleClose, FreshInv, OwnedInv, EntryInv
  <2>2. FailureInv'
    BY DEF FailureInv, TypeOK
  <2>3. SilenceInv' /\ SoleConnectionOnline'
    BY DEF SilenceInv, SoleConnectionOnline, Sole
  <2>4. QED
    BY <2>1, <2>2, <2>3
<1>13. ASSUME NEW w \in Writers, WriterWrite(w) PROVE IInv'
  <2> USE <1>13 DEF WriterWrite, connVars
  <2>1. writer[w].conn \in Conns /\ Idle \in [conn : Conns \cup {NoConn}, failed : BOOLEAN]
    BY DEF TypeOK, Idle
  <2>2. TypeOK'
    <3>1. [writer[w] EXCEPT !.failed = TRUE] \in [conn : Conns \cup {NoConn}, failed : BOOLEAN]
      BY DEF TypeOK
    <3>2. writer' \in [Writers -> [conn : Conns \cup {NoConn}, failed : BOOLEAN]]
      BY <2>1, <3>1 DEF TypeOK
    <3>3. QED
      BY <3>2 DEF TypeOK
  <2>3. NoDoubleClose' /\ FreshInv' /\ OwnedInv' /\ EntryInv'
    BY DEF NoDoubleClose, FreshInv, OwnedInv, EntryInv
  <2>4. FailureInv'
    BY <2>1 DEF FailureInv, TypeOK, WriteFails, Idle
  <2>5. SilenceInv' /\ SoleConnectionOnline'
    BY DEF SilenceInv, SoleConnectionOnline, Sole
  <2>6. QED
    BY <2>2, <2>3, <2>4, <2>5
<1>14. ASSUME NEW w \in Writers, WriterUnregister(w) PROVE IInv'
  <2>1. owner[writer[w].conn] \in Users /\ writer[w].conn \in Conns
    BY <1>14, OwnerLemma DEF WriterUnregister, TypeOK
  <2>2. \A d \in Conns : (owner[d] = owner[writer[w].conn] /\ Sole(d)) =>
          ~(handler[d] = "reading" /\ wire[d] = "up" /\ age[d] <= PongTimeout)
    BY <1>14, <2>1 DEF WriterUnregister, Sole, FailureInv
  <2>3. Idle \in [conn : Conns \cup {NoConn}, failed : BOOLEAN]
    BY DEF Idle
  <2>4. QED
    BY <1>14, <2>1, <2>2, <2>3, UnregisterStep DEF WriterUnregister, connVars, TypeOK
<1>15. CASE UNCHANGED vars
  BY <1>15 DEF vars, TypeOK, NoDoubleClose, FreshInv, OwnedInv, EntryInv,
               FailureInv, SilenceInv, SoleConnectionOnline, Sole
<1>16. QED
  BY <1>1, <1>2, <1>3, <1>4, <1>5, <1>6, <1>7, <1>8, <1>9, <1>10, <1>11,
     <1>12, <1>13, <1>14, <1>15 DEF Next

\* The registry and the goroutines around it are consistent in every
\* reachable state.
THEOREM HubInvariant == Spec => []IInv
<1>1. QED
  BY InitLemma, NextLemma, PTL DEF Spec

\* Type correctness, for every instance.
THEOREM HubTypeCorrect == Spec => []TypeOK
<1>1. IInv => TypeOK
  BY DEF IInv
<1>2. QED
  BY <1>1, HubInvariant, PTL

\* No goroutine ever closes a CloseChan that is closed already, so none of the
\* Unregister calls can take the process down.
THEOREM NeverDoubleClose == Spec => []NoDoubleClose
<1>1. IInv => NoDoubleClose
  BY DEF IInv
<1>2. QED
  BY <1>1, HubInvariant, PTL

\* A user who has opened one connection stays registered while it is healthy.
THEOREM SoleConnectionStaysOnline == Spec => []SoleConnectionOnline
<1>1. IInv => SoleConnectionOnline
  BY DEF IInv
<1>2. QED
  BY <1>1, HubInvariant, PTL

-----------------------------------------------------------------------------
\* A call of Unregister drops one entry of the abstract registry or none.
LEMMA UnregisterRefines ==
  ASSUME NEW u \in Users, Unregister(u),
         {c \in Conns : handler'[c] # "none"} = {c \in Conns : handler[c] # "none"}
  PROVE  [Reg!Next]_(Reg!rvars)
<1>1. CASE clients[u] = NoConn
  BY <1>1 DEF Unregister, Reg!rvars
<1>2. CASE clients[u] # NoConn
  <2>1. Reg!Drop(u)
    BY <1>2 DEF Unregister, Reg!Drop
  <2>2. QED
    BY <2>1 DEF Reg!Next
<1>3. QED
  BY <1>1, <1>2

\* The hub implements the abstract registry.
THEOREM HubImplementsRegistry == Spec => ImplementsRegistry
<1> DEFINE opened == {c \in Conns : handler[c] # "none"}
<1>1. Init => Reg!Init
  BY DEF Init, Reg!Init
<1>2. IInv /\ [Next]_vars => [Reg!Next]_(Reg!rvars)
  <2> SUFFICES ASSUME IInv, [Next]_vars PROVE [Reg!Next]_(Reg!rvars)
    OBVIOUS
  <2> USE DEF IInv
  <2>1. ASSUME NEW u \in Users, NEW c \in Conns, Register(u, c)
        PROVE  [Reg!Next]_(Reg!rvars)
    <3>1. opened' = opened \cup {c}
      BY <2>1 DEF Register, TypeOK
    <3>2. Reg!Open(u, c)
      BY <2>1, <3>1 DEF Register, Reg!Open
    <3>3. QED
      BY <3>2 DEF Reg!Next
  <2>2. ASSUME NEW u \in Users, HealthRemove(u) PROVE [Reg!Next]_(Reg!rvars)
    BY <2>2, UnregisterRefines DEF HealthRemove
  <2>3. ASSUME NEW c \in Conns, HandlerUnregister(c) PROVE [Reg!Next]_(Reg!rvars)
    <3>1. owner[c] \in Users /\ opened' = opened
      BY <2>3 DEF HandlerUnregister, OwnedInv, TypeOK
    <3>2. QED
      BY <2>3, <3>1, UnregisterRefines DEF HandlerUnregister
  <2>4. ASSUME NEW c \in Conns, PingUnregister(c) PROVE [Reg!Next]_(Reg!rvars)
    <3>1. owner[c] \in Users /\ opened' = opened
      BY <2>4, OwnerLemma DEF PingUnregister
    <3>2. QED
      BY <2>4, <3>1, UnregisterRefines DEF PingUnregister
  <2>5. ASSUME NEW w \in Writers, WriterUnregister(w) PROVE [Reg!Next]_(Reg!rvars)
    <3>1. owner[writer[w].conn] \in Users /\ opened' = opened
      BY <2>5, OwnerLemma DEF WriterUnregister
    <3>2. QED
      BY <2>5, <3>1, UnregisterRefines DEF WriterUnregister
  <2>6. ASSUME NEW c \in Conns,
               ReadError(c) \/ ReadTimeout(c) \/ HandlerClose(c)
        PROVE  UNCHANGED Reg!rvars
    BY <2>6 DEF ReadError, ReadTimeout, HandlerClose, Reg!rvars, TypeOK
  <2>7. ASSUME NEW c \in Conns,
               \/ PeerLost(c) \/ Pong(c) \/ PingClosed(c) \/ PingTick(c)
               \/ PingCheck(c) \/ PingWrite(c)
        PROVE  UNCHANGED Reg!rvars
    BY <2>7 DEF PeerLost, Pong, PingClosed, PingTick, PingCheck, PingWrite, Reg!rvars
  <2>8. ASSUME NEW w \in Writers,
               WriterWrite(w) \/ \E u \in Users : WriterLookup(w, u)
        PROVE  UNCHANGED Reg!rvars
    BY <2>8 DEF WriterWrite, WriterLookup, Reg!rvars
  <2>9. CASE Elapse \/ HealthScan \/ UNCHANGED vars
    BY <2>9 DEF Elapse, HealthScan, vars, Reg!rvars
  <2>10. QED
    BY <2>1, <2>2, <2>3, <2>4, <2>5, <2>6, <2>7, <2>8, <2>9 DEF Next
<1>3. QED
  BY <1>1, <1>2, HubInvariant, PTL DEF Spec, ImplementsRegistry, Reg!Spec

-----------------------------------------------------------------------------
\* Only the calls of Unregister empty an entry, each in a step that is the end
\* of what it serves.
LEMMA TakenOut ==
  ASSUME IInv, [Next]_vars, NEW u \in Users, clients[u] # NoConn, clients'[u] = NoConn
  PROVE  \/ u \in dead \ dead'
         \/ \E d \in Conns : /\ owner[d] = u
                             /\ \/ handler[d] = "leaving" /\ handler'[d] = "closing"
                                \/ ping[d] = "failed" /\ ping'[d] = "done"
                                \/ \E w \in Writers :
                                     /\ writer[w] = [conn |-> d, failed |-> TRUE]
                                     /\ writer'[w] = Idle
<1> USE HubAssumption DEF IInv
<1>1. ASSUME NEW v \in Users, Unregister(v) PROVE v = u
  BY <1>1 DEF Unregister, TypeOK
<1>2. ASSUME NEW v \in Users, HealthRemove(v) PROVE u \in dead \ dead'
  BY <1>1, <1>2 DEF HealthRemove
<1>3. ASSUME NEW c \in Conns, HandlerUnregister(c)
      PROVE  owner[c] = u /\ handler[c] = "leaving" /\ handler'[c] = "closing"
  BY <1>1, <1>3 DEF HandlerUnregister, OwnedInv, TypeOK
<1>4. ASSUME NEW c \in Conns, PingUnregister(c)
      PROVE  owner[c] = u /\ ping[c] = "failed" /\ ping'[c] = "done"
  BY <1>1, <1>4, OwnerLemma DEF PingUnregister, TypeOK
<1>5. ASSUME NEW w \in Writers, WriterUnregister(w)
      PROVE  \E d \in Conns : /\ owner[d] = u
                              /\ writer[w] = [conn |-> d, failed |-> TRUE]
                              /\ writer'[w] = Idle
  <2>1. writer[w] \in [conn : Conns \cup {NoConn}, failed : BOOLEAN]
    BY DEF TypeOK
  <2>2. writer[w] = [conn |-> writer[w].conn, failed |-> TRUE] /\ writer[w].conn \in Conns
    BY <1>5, <2>1 DEF WriterUnregister
  <2>3. owner[writer[w].conn] = u
    BY <1>1, <1>5, OwnerLemma DEF WriterUnregister
  <2>4. writer'[w] = Idle
    BY <1>5 DEF WriterUnregister, TypeOK
  <2>5. QED
    BY <2>2, <2>3, <2>4
<1>6. ASSUME NEW v \in Users, NEW c \in Conns, Register(v, c) PROVE FALSE
  BY <1>6 DEF Register, TypeOK
<1>7. ASSUME UNCHANGED clients PROVE FALSE
  BY <1>7
<1>8. ASSUME NEW c \in Conns,
             \/ PeerLost(c) \/ Pong(c) \/ ReadError(c) \/ ReadTimeout(c) \/ HandlerClose(c)
             \/ PingClosed(c) \/ PingTick(c) \/ PingCheck(c) \/ PingWrite(c)
      PROVE  FALSE
  BY <1>7, <1>8 DEF PeerLost, Pong, ReadError, ReadTimeout, HandlerClose, PingClosed,
                    PingTick, PingCheck, PingWrite
<1>9. ASSUME NEW w \in Writers, WriterWrite(w) \/ \E v \in Users : WriterLookup(w, v)
      PROVE  FALSE
  BY <1>7, <1>9 DEF WriterWrite, WriterLookup
<1>10. CASE Elapse \/ HealthScan \/ UNCHANGED vars
  BY <1>7, <1>10 DEF Elapse, HealthScan, vars
<1>11. QED
  BY <1>2, <1>3, <1>4, <1>5, <1>6, <1>8, <1>9, <1>10 DEF Next

\* However many connections a user opens, and whatever fails: a healthy one is
\* taken out only by something that served another of them, and then no more.
THEOREM OnlyOlderTakeOut == Spec => TakenOutByOlder
<1>1. IInv /\ [Next]_vars =>
        \A c \in Conns :
          (/\ handler[c] = "reading"
           /\ wire[c] = "up"
           /\ age[c] <= PongTimeout
           /\ clients[owner[c]] = c
           /\ clients'[owner[c]] = NoConn)
            => \E d \in Conns \ {c} : owner[d] = owner[c] /\ Quits(d)
  <2> SUFFICES ASSUME IInv, [Next]_vars, NEW c \in Conns,
                      handler[c] = "reading", wire[c] = "up", age[c] <= PongTimeout,
                      clients[owner[c]] = c, clients'[owner[c]] = NoConn
               PROVE  \E d \in Conns \ {c} : owner[d] = owner[c] /\ Quits(d)
    OBVIOUS
  <2> USE HubAssumption DEF IInv
  <2>1. owner[c] \in Users /\ clients[owner[c]] # NoConn
    BY DEF OwnedInv
  <2>2. ping[c] # "failed"
    BY DEF FailureInv
  <2>3. \A w \in Writers : writer[w] # [conn |-> c, failed |-> TRUE]
    BY DEF FailureInv
  <2>4. CASE owner[c] \in dead \ dead'
    <3>1. PICK d \in Conns : owner[d] = owner[c] /\ age[d] > PongTimeout
      BY <2>4 DEF SilenceInv
    <3>2. age[c] \in Nat /\ age[d] \in Nat
      BY DEF TypeOK, Time
    <3>3. QED
      BY <2>4, <3>1, <3>2 DEF Quits
  <2>5. ASSUME NEW d \in Conns, owner[d] = owner[c],
               \/ handler[d] = "leaving" /\ handler'[d] = "closing"
               \/ ping[d] = "failed" /\ ping'[d] = "done"
               \/ \E w \in Writers : /\ writer[w] = [conn |-> d, failed |-> TRUE]
                                     /\ writer'[w] = Idle
        PROVE  d # c /\ Quits(d)
    BY <2>2, <2>3, <2>5 DEF Quits
  <2>6. QED
    BY <2>1, <2>4, <2>5, TakenOut
<1>2. QED
  BY <1>1, HubInvariant, PTL DEF Spec, TakenOutByOlder

=============================================================================
