-------------------------------- MODULE Hub --------------------------------
(***************************************************************************)
(* The connection registry of the WebSocket hub and the life of the        *)
(* connections in it (internal/handlers/ws/hub.go and the handler in       *)
(* internal/handlers/websocket_handler.go).                                *)
(*                                                                         *)
(* Every connection has a handler goroutine, which reads from the socket   *)
(* and unregisters the USER when it returns, and a ping goroutine, driven  *)
(* by a ticker and stopped by CloseChan.  One health checker scans the     *)
(* whole map; writers (senders of messages, on any goroutine) look a       *)
(* connection up, write to it without the lock and unregister the USER     *)
(* when the write fails.  The lock protects single steps only, so each     *)
(* lock section, socket operation and channel operation is a step here.    *)
(*                                                                         *)
(* Time is counted in ticks since an event, saturating just above          *)
(* PongTimeout, the only value the code compares it with.                  *)
(***************************************************************************)
EXTENDS Naturals, FiniteSets

CONSTANTS Users, NoUser,      \* the users of the service, and none of them
          Conns, NoConn,      \* the connections ever opened, and none of them
          Writers,            \* goroutines sending to registered connections
          PongTimeout         \* hub.pongTimeout, in ticks

ASSUME HubAssumption == /\ NoUser \notin Users
                        /\ NoConn \notin Conns
                        /\ PongTimeout \in Nat \ {0}

VARIABLES
  clients,    \* Hub.clients: the registered connection of each user
  owner,      \* ClientConnection.UserID
  closeChan,  \* ClientConnection.CloseChan: not made, open or closed
  age,        \* time since Register, when the read deadline was set
  silence,    \* time since ClientConnection.LastPong
  wire,       \* the socket: reachable peer, unreachable peer, closed by us
  handler,    \* HandleWebSocket of the connection
  ping,       \* pingRoutine of the connection
  dead,       \* connectionHealthChecker: deadConnections still to remove
  writer,     \* what each writer is doing
  panicked    \* a closed CloseChan has been closed again: the process dies

connVars == <<owner, age, silence, wire>>
vars == <<clients, owner, closeChan, age, silence, wire, handler, ping,
          dead, writer, panicked>>

Time == 0 .. PongTimeout + 1

Idle == [conn |-> NoConn, failed |-> FALSE]

TypeOK ==
  /\ clients   \in [Users -> Conns \cup {NoConn}]
  /\ owner     \in [Conns -> Users \cup {NoUser}]
  /\ closeChan \in [Conns -> {"none", "open", "closed"}]
  /\ age       \in [Conns -> Time]
  /\ silence   \in [Conns -> Time]
  /\ wire      \in [Conns -> {"none", "up", "lost", "closed"}]
  /\ handler   \in [Conns -> {"none", "reading", "leaving", "closing", "done"}]
  /\ ping      \in [Conns -> {"none", "waiting", "ticked", "checked", "failed",
                             "done"}]
  /\ dead      \in SUBSET Users
  /\ writer    \in [Writers -> [conn : Conns \cup {NoConn}, failed : BOOLEAN]]
  /\ panicked  \in BOOLEAN

Init ==
  /\ clients   = [u \in Users |-> NoConn]
  /\ owner     = [c \in Conns |-> NoUser]
  /\ closeChan = [c \in Conns |-> "none"]
  /\ age       = [c \in Conns |-> 0]
  /\ silence   = [c \in Conns |-> 0]
  /\ wire      = [c \in Conns |-> "none"]
  /\ handler   = [c \in Conns |-> "none"]
  /\ ping      = [c \in Conns |-> "none"]
  /\ dead      = {}
  /\ writer    = [w \in Writers |-> Idle]
  /\ panicked  = FALSE

-----------------------------------------------------------------------------
(***************************************************************************)
(* The registry.                                                           *)
(***************************************************************************)

\* Hub.Register, and the start of the read loop.  The previous connection of
\* the user, if any, is overwritten in the map and not told: its CloseChan
\* stays open and its ticker keeps running.
Register(u, c) ==
  /\ handler[c] = "none"
  /\ owner'     = [owner EXCEPT ![c] = u]
  /\ closeChan' = [closeChan EXCEPT ![c] = "open"]
  /\ wire'      = [wire EXCEPT ![c] = "up"]
  /\ clients'   = [clients EXCEPT ![u] = c]
  /\ ping'      = [ping EXCEPT ![c] = "waiting"]
  /\ handler'   = [handler EXCEPT ![c] = "reading"]
  /\ UNCHANGED <<age, silence, dead, writer, panicked>>

\* A registry that forgets to delete the entry it closes.
KeepClosedEntry(u) ==
  /\ closeChan' = IF clients[u] = NoConn THEN closeChan
                  ELSE [closeChan EXCEPT ![clients[u]] = "closed"]
  /\ panicked'  = (panicked \/ /\ clients[u] # NoConn
                               /\ closeChan[clients[u]] = "closed")
  /\ UNCHANGED clients

\* A registry that empties itself.
DropEveryone(u) ==
  /\ clients' = [v \in Users |-> NoConn]
  /\ UNCHANGED <<closeChan, panicked>>

\* Hub.Unregister, one critical section.  It names the user, not a
\* connection: it removes whatever connection is registered by now.
Unregister(u) ==
  \/ /\ clients[u] = NoConn
     /\ UNCHANGED <<clients, closeChan, panicked>>
  \/ /\ clients[u] # NoConn
     /\ panicked'  = (panicked \/ closeChan[clients[u]] = "closed")
     /\ closeChan' = [closeChan EXCEPT ![clients[u]] = "closed"]
     /\ clients'   = [clients EXCEPT ![u] = NoConn]

-----------------------------------------------------------------------------
(***************************************************************************)
(* The environment: time and the network.                                  *)
(***************************************************************************)

Later(t) == IF t > PongTimeout THEN t ELSE t + 1

\* Time passes for every open connection.
Elapse ==
  /\ \E c \in Conns : handler[c] # "none" /\ silence[c] <= PongTimeout
  /\ age'     = [c \in Conns |-> IF handler[c] = "none" THEN age[c]
                                 ELSE Later(age[c])]
  /\ silence' = [c \in Conns |-> IF handler[c] = "none" THEN silence[c]
                                 ELSE Later(silence[c])]
  /\ UNCHANGED <<clients, owner, closeChan, wire, handler, ping, dead,
                 writer, panicked>>

\* The peer goes away.  The server does not know: from here a write may still
\* be accepted by the kernel, and a read may fail or block.
PeerLost(c) ==
  /\ wire[c] = "up"
  /\ wire' = [wire EXCEPT ![c] = "lost"]
  /\ UNCHANGED <<clients, owner, closeChan, age, silence, handler, ping, dead, writer, panicked>>

-----------------------------------------------------------------------------
(***************************************************************************)
(* The handler goroutine of a connection.                                  *)
(***************************************************************************)

\* A pong handler that sets LastPong as Register sets the read deadline: to
\* what will be in pongTimeout.
PongAhead(c) ==
  /\ handler[c] = "reading"
  /\ wire[c] = "up"
  /\ age[c] < PongTimeout
  /\ clients[owner[c]] # NoConn
  /\ silence' = [silence EXCEPT ![clients[owner[c]]] = 0 - PongTimeout]
  /\ UNCHANGED <<clients, owner, closeChan, age, wire, handler, ping, dead, writer, panicked>>

\* A pong is read on c before its read deadline.  The pong handler refreshes
\* the connection REGISTERED for the user, and does not extend the deadline.
Pong(c) ==
  /\ handler[c] = "reading"
  /\ wire[c] = "up"
  /\ age[c] < PongTimeout
  /\ clients[owner[c]] # NoConn
  /\ silence' = [silence EXCEPT ![clients[owner[c]]] = 0]
  /\ UNCHANGED <<clients, owner, closeChan, age, wire, handler, ping, dead, writer, panicked>>

\* ReadMessage fails because the connection is broken or was closed.
ReadError(c) ==
  /\ handler[c] = "reading"
  /\ wire[c] = "lost"
  /\ handler' = [handler EXCEPT ![c] = "leaving"]
  /\ UNCHANGED <<clients, closeChan, ping, dead, writer, panicked>>
  /\ UNCHANGED connVars

\* ReadMessage fails because the deadline set by Register has passed.
ReadTimeout(c) ==
  /\ handler[c] = "reading"
  /\ age[c] >= PongTimeout
  /\ handler' = [handler EXCEPT ![c] = "leaving"]
  /\ UNCHANGED <<clients, closeChan, ping, dead, writer, panicked>>
  /\ UNCHANGED connVars

\* The deferred call of HandleWebSocket.
HandlerUnregister(c) ==
  /\ handler[c] = "leaving"
  /\ Unregister(owner[c])
  /\ handler' = [handler EXCEPT ![c] = "closing"]
  /\ UNCHANGED <<ping, dead, writer>>
  /\ UNCHANGED connVars

\* The handler has returned and the framework closes the socket.
HandlerClose(c) ==
  /\ handler[c] = "closing"
  /\ wire'    = [wire EXCEPT ![c] = "closed"]
  /\ handler' = [handler EXCEPT ![c] = "done"]
  /\ UNCHANGED <<clients, owner, closeChan, age, silence, ping, dead,
                 writer, panicked>>

-----------------------------------------------------------------------------
(***************************************************************************)
(* The ping goroutine of a connection.                                     *)
(***************************************************************************)

WriteSucceeds(c) == wire[c] \in {"up", "lost"}
WriteFails(c)    == wire[c] \in {"lost", "closed"}

\* The select takes CloseChan.
PingClosed(c) ==
  /\ ping[c] = "waiting"
  /\ closeChan[c] = "closed"
  /\ ping' = [ping EXCEPT ![c] = "done"]
  /\ UNCHANGED <<clients, closeChan, handler, dead, writer, panicked>>
  /\ UNCHANGED connVars

\* The select takes a tick.  PingTicker runs from Register until Unregister
\* stops it, in the critical section that closes CloseChan; no tick is
\* received after Stop.
PingTick(c) ==
  /\ ping[c] = "waiting"
  /\ closeChan[c] = "open"
  /\ ping' = [ping EXCEPT ![c] = "ticked"]
  /\ UNCHANGED <<clients, closeChan, handler, dead, writer, panicked>>
  /\ UNCHANGED connVars

\* A ping routine that skips the ping and goes on when the user is gone.
PingCheckGoesOn(c) ==
  /\ ping[c] = "ticked"
  /\ ping' = [ping EXCEPT ![c] = IF clients[owner[c]] = NoConn THEN "waiting"
                                 ELSE "checked"]
  /\ UNCHANGED <<clients, closeChan, handler, dead, writer, panicked>>
  /\ UNCHANGED connVars

\* Check, under the read lock, that the USER is registered.
PingCheck(c) ==
  /\ ping[c] = "ticked"
  /\ ping' = [ping EXCEPT ![c] = IF clients[owner[c]] = NoConn THEN "done"
                                 ELSE "checked"]
  /\ UNCHANGED <<clients, closeChan, handler, dead, writer, panicked>>
  /\ UNCHANGED connVars

\* WriteControl.  On a connection the framework has released it may also
\* panic, which the routine recovers from by ending.
PingWrite(c) ==
  /\ ping[c] = "checked"
  /\ \/ WriteSucceeds(c)      /\ ping' = [ping EXCEPT ![c] = "waiting"]
     \/ WriteFails(c)         /\ ping' = [ping EXCEPT ![c] = "failed"]
     \/ wire[c] = "closed"    /\ ping' = [ping EXCEPT ![c] = "done"]
  /\ UNCHANGED <<clients, closeChan, handler, dead, writer, panicked>>
  /\ UNCHANGED connVars

PingUnregister(c) ==
  /\ ping[c] = "failed"
  /\ Unregister(owner[c])
  /\ ping' = [ping EXCEPT ![c] = "done"]
  /\ UNCHANGED <<handler, dead, writer>>
  /\ UNCHANGED connVars

-----------------------------------------------------------------------------
(***************************************************************************)
(* The health checker.                                                     *)
(***************************************************************************)

\* A checker that is one tick early.
SilentTooSoon(u) == clients[u] # NoConn /\ silence[clients[u]] >= PongTimeout

\* The condition of the scan: no pong for longer than pongTimeout.
Silent(u) == clients[u] # NoConn /\ silence[clients[u]] > PongTimeout

\* One scan of the map, under the read lock.
HealthScan ==
  /\ dead = {}
  /\ dead' = {u \in Users : Silent(u)}
  /\ UNCHANGED <<clients, closeChan, handler, ping, writer, panicked>>
  /\ UNCHANGED connVars

\* The removals, each under the write lock, after the scan has released it.
HealthRemove(u) ==
  /\ u \in dead
  /\ Unregister(u)
  /\ dead' = dead \ {u}
  /\ UNCHANGED <<handler, ping, writer>>
  /\ UNCHANGED connVars

-----------------------------------------------------------------------------
(***************************************************************************)
(* Writers: SendToUserWithID and Broadcast, seen from the registry.        *)
(***************************************************************************)

\* Look the connection up under the read lock, and release the lock.
WriterLookup(w, u) ==
  /\ writer[w] = Idle
  /\ clients[u] # NoConn
  /\ writer' = [writer EXCEPT ![w] = [conn |-> clients[u], failed |-> FALSE]]
  /\ UNCHANGED <<clients, closeChan, handler, ping, dead, panicked>>
  /\ UNCHANGED connVars

WriterWrite(w) ==
  /\ writer[w].conn # NoConn
  /\ ~writer[w].failed
  /\ \/ WriteSucceeds(writer[w].conn) /\ writer' = [writer EXCEPT ![w] = Idle]
     \/ WriteFails(writer[w].conn)    /\ writer' = [writer EXCEPT ![w].failed = TRUE]
  /\ UNCHANGED <<clients, closeChan, handler, ping, dead, panicked>>
  /\ UNCHANGED connVars

\* A writer that unregisters the user after every write.
WriterAlwaysUnregisters(w) ==
  /\ writer[w].conn # NoConn
  /\ Unregister(owner[writer[w].conn])
  /\ writer' = [writer EXCEPT ![w] = Idle]
  /\ UNCHANGED <<handler, ping, dead>>
  /\ UNCHANGED connVars

WriterUnregister(w) ==
  /\ writer[w].conn # NoConn
  /\ writer[w].failed
  /\ Unregister(owner[writer[w].conn])
  /\ writer' = [writer EXCEPT ![w] = Idle]
  /\ UNCHANGED <<handler, ping, dead>>
  /\ UNCHANGED connVars

-----------------------------------------------------------------------------
Next ==
  \/ Elapse
  \/ HealthScan
  \/ \E u \in Users : HealthRemove(u)
  \/ \E u \in Users, c \in Conns : Register(u, c)
  \/ \E c \in Conns : \/ PeerLost(c)
                      \/ Pong(c)
                      \/ ReadError(c)
                      \/ ReadTimeout(c)
                      \/ HandlerUnregister(c)
                      \/ HandlerClose(c)
                      \/ PingClosed(c)
                      \/ PingTick(c)
                      \/ PingCheck(c)
                      \/ PingWrite(c)
                      \/ PingUnregister(c)
  \/ \E w \in Writers : \/ WriterWrite(w)
                        \/ WriterUnregister(w)
                        \/ \E u \in Users : WriterLookup(w, u)

Spec == Init /\ [][Next]_vars

\* The ping routine of a connection is a goroutine of its own: the scheduler
\* runs it whenever it can go on, and its ticker keeps ticking.
PingFairness ==
  \A c \in Conns : /\ WF_vars(PingClosed(c))
                   /\ WF_vars(PingTick(c))
                   /\ WF_vars(PingCheck(c))
                   /\ WF_vars(PingWrite(c))
                   /\ WF_vars(PingUnregister(c))

\* Time passes, and the health checker, again a goroutine of its own, scans
\* every 30 seconds and works through what it found.  Nothing is assumed of
\* the handlers, which may be stuck in a slow operation.
CheckerFairness ==
  /\ WF_vars(Elapse)
  /\ WF_vars(HealthScan)
  /\ \A u \in Users : WF_vars(HealthRemove(u))

FairSpec == Spec /\ PingFairness /\ CheckerFairness

-----------------------------------------------------------------------------
(***************************************************************************)
(* Properties.                                                             *)
(***************************************************************************)

\* Closing a closed channel panics.  Five kinds of goroutines unregister the
\* same user with no coordination but the lock; none of them ever closes a
\* CloseChan that another has closed (hub.go:101-113).
NoDoubleClose == ~panicked

\* Connection c is the only one its user has ever opened.
Sole(c) == \A d \in Conns \ {c} : owner[d] # owner[c]

\* A user with one connection is registered for as long as the peer is
\* reachable, the handler reads, and the read deadline has not passed: no
\* ping failure, write failure or health check takes a healthy connection
\* out, whatever the goroutines are doing (hub.go:129-168, 396-449).
SoleConnectionOnline ==
  \A c \in Conns :
    (/\ handler[c] = "reading"
     /\ wire[c] = "up"
     /\ age[c] <= PongTimeout
     /\ Sole(c)) => clients[owner[c]] = c

\* Something that serves d has come to the end of it and unregisters d's user:
\* its handler or ping routine, a write to it, or the checker because of it.
Quits(d) ==
  \/ handler[d] = "leaving" /\ handler'[d] = "closing"
  \/ ping[d] = "failed" /\ ping'[d] = "done"
  \/ \E w \in Writers : writer[w] = [conn |-> d, failed |-> TRUE] /\ writer'[w] = Idle
  \/ owner[d] \in dead \ dead' /\ age[d] > PongTimeout

\* Of a user who reconnects, a healthy connection can be taken out, since
\* Unregister names the user; but only by something that serves another, older
\* connection of the same user, and that unregisters for it just this once
\* (websocket_handler.go:68-69, hub.go:160-164, 216, 418-421, 444-447).
TakenOutByOlder ==
  [][\A c \in Conns :
       (/\ handler[c] = "reading"
        /\ wire[c] = "up"
        /\ age[c] <= PongTimeout
        /\ clients[owner[c]] = c
        /\ clients'[owner[c]] = NoConn)
         => \E d \in Conns \ {c} : owner[d] = owner[c] /\ Quits(d)]_vars

\* The registry the goroutines share is the abstract one: one entry per user,
\* changed one user at a time, and no connection comes back after it has been
\* replaced or unregistered (hub.go:90-92, 101-113).
Reg == INSTANCE Registry WITH opened <- {c \in Conns : handler[c] # "none"}

ImplementsRegistry == Reg!Spec

\* No ping goroutine outlives its connection for ever, although the CloseChan
\* of a replaced connection is never closed (hub.go:396-424).
NoPingLeak == \A c \in Conns : handler[c] = "done" ~> ping[c] = "done"

\* The health checker alone removes a connection whose peer is gone, even if
\* the handler of it never returns and older connections of the user keep
\* refreshing its LastPong with their own pongs (hub.go:78-85, 427-449).
DeadConnectionRemoved ==
  \A u \in Users, c \in Conns :
    (clients[u] = c /\ wire[c] = "lost") ~> clients[u] # c

-----------------------------------------------------------------------------
(***************************************************************************)
(* What comments and documents say, and the code does not do.              *)
(***************************************************************************)

\* "IsOnline checks if a user is connected" (hub.go:115): a user with a
\* healthy connection that is being read from is in the map.
ConnectedIsOnline ==
  \A c \in Conns :
    (handler[c] = "reading" /\ wire[c] = "up" /\ age[c] < PongTimeout)
      => clients[owner[c]] # NoConn

=============================================================================
