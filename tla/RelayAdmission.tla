--------------------------- MODULE RelayAdmission ---------------------------
(***************************************************************************)
(* core/webrelay: the transport slots of the relay (admit and Close in     *)
(* relay.go, admission.go, tcp_admission.go, quic_admission.go, and the    *)
(* slot handling of serveSocket and serveTransport in server.go).          *)
(*                                                                         *)
(* A counted connection has up to three owners that end in any order: the  *)
(* transport itself, the HTTP worker that parses its requests and the      *)
(* handler of one of them.  A critical section of connectionAdmission.mu   *)
(* or relay.mu is one step.                                                *)
(***************************************************************************)
EXTENDS Integers, FiniteSets

CONSTANTS
    TCP, QUIC, \* connections the two listeners accept, each of which is made once
    Addr,      \* client addresses
    NoAddr,
    maxSessions, maxPerIP

Conn == TCP \cup QUIC

ASSUME AdmissionConstants ==
    /\ IsFiniteSet(Conn) /\ TCP \cap QUIC = {} /\ NoAddr \notin Addr
    /\ maxSessions \in Nat /\ maxPerIP \in Nat

VARIABLES
    open,               \* relay.ctx is not cancelled
    erased,             \* Relay.Close has passed relay.conns.Wait
    active, connections,\* relay.active (also relay.conns) and relay.connections
    kind, client,       \* "none", "tcp" or "quic", and the address it was admitted under
    refs, closed,       \* connectionAdmission
    last,               \* the owner that dropped the last reference has yet to release the slot
    transport, worker, handler,   \* the owners
    ended,              \* the network connection is over
    upgraded,           \* tcp: the handler has hijacked the connection
    claimed, ready,     \* quic: admittedQUICConn
    late,               \* quic: the deadline of the initial Hello has passed
    guard               \* quic: guardHello's callback: "off", "armed", "cut" (it closes), "done"

relayVars == <<open, erased, active, connections>>
ownVars   == <<transport, worker, handler>>
quicVars  == <<claimed, ready, late, guard>>
vars == <<relayVars, kind, client, refs, closed, last, ownVars, ended, upgraded, quicVars>>

----------------------------------------------------------------------------
Init ==
    /\ open = TRUE /\ erased = FALSE /\ active = 0 /\ connections = [a \in Addr |-> 0]
    /\ kind = [c \in Conn |-> "none"] /\ client = [c \in Conn |-> NoAddr]
    /\ refs = [c \in Conn |-> 0] /\ closed = [c \in Conn |-> FALSE] /\ last = [c \in Conn |-> FALSE]
    /\ transport = [c \in Conn |-> "none"] /\ worker = [c \in Conn |-> "none"]
    /\ handler = [c \in Conn |-> "none"]
    /\ ended = [c \in Conn |-> FALSE] /\ upgraded = [c \in Conn |-> FALSE]
    /\ claimed = [c \in Conn |-> FALSE] /\ ready = [c \in Conn |-> FALSE]
    /\ late = [c \in Conn |-> FALSE] /\ guard = [c \in Conn |-> "off"]

Set(f, c, v) == [f EXCEPT ![c] = v]

\* Mutant of admit: the relay's context is not looked at.
admitWhileClosing(c, a, k) ==
    /\ kind[c] = "none"
    /\ active < maxSessions /\ connections[a] < maxPerIP
    /\ active' = active + 1 /\ connections' = Set(connections, a, connections[a] + 1)
    /\ kind' = Set(kind, c, k) /\ client' = Set(client, c, a)
    /\ refs' = Set(refs, c, 1) /\ transport' = Set(transport, c, "open")
    /\ UNCHANGED <<open, erased, closed, last, worker, handler, ended, upgraded, quicVars>>

\* Mutant of admit: the connections of one address are not limited.
admitUncapped(c, a, k) ==
    /\ kind[c] = "none" /\ open
    /\ active < maxSessions
    /\ active' = active + 1 /\ connections' = Set(connections, a, connections[a] + 1)
    /\ kind' = Set(kind, c, k) /\ client' = Set(client, c, a)
    /\ refs' = Set(refs, c, 1) /\ transport' = Set(transport, c, "open")
    /\ UNCHANGED <<open, erased, closed, last, worker, handler, ended, upgraded, quicVars>>

\* admit, with newConnectionAdmission; a refused connection leaves no trace but the limiter.
admit(c, a, k) ==
    /\ kind[c] = "none" /\ open
    /\ active < maxSessions /\ connections[a] < maxPerIP
    /\ active' = active + 1 /\ connections' = Set(connections, a, connections[a] + 1)
    /\ kind' = Set(kind, c, k) /\ client' = Set(client, c, a)
    /\ refs' = Set(refs, c, 1) /\ transport' = Set(transport, c, "open")
    /\ UNCHANGED <<open, erased, closed, last, worker, handler, ended, upgraded, quicVars>>

\* Mutant of drop: the slot is returned with the transport, whoever else still runs.
dropTransportOnly(c) ==
    /\ refs' = Set(refs, c, refs[c] - 1)
    /\ last' = Set(last, c, closed[c] /\ transport[c] = "closing")

\* drop: the owner that finds no other releases the slot, after the critical section.
drop(c) ==
    /\ refs' = Set(refs, c, refs[c] - 1)
    /\ last' = Set(last, c, refs[c] = 1)

release(c) ==
    /\ last[c] /\ last' = Set(last, c, FALSE)
    /\ active' = active - 1
    /\ connections' = Set(connections, client[c], connections[client[c]] - 1)
    /\ UNCHANGED <<open, erased, kind, client, refs, closed, ownVars, ended, upgraded, quicVars>>

----------------------------------------------------------------------------
\* The transport's own reference.  The socket is closed by the relay's cancellation, by the
\* HTTP worker or by the handler that hijacked it; the QUIC connection ends by itself.
CloseCalled(c) ==
    \/ kind[c] = "tcp" /\ (~open \/ worker[c] = "ending" \/ (upgraded[c] /\ handler[c] = "ending"))
    \/ kind[c] = "quic" /\ ended[c]

close(c) ==
    /\ transport[c] = "open" /\ CloseCalled(c)
    /\ closed' = Set(closed, c, TRUE) /\ transport' = Set(transport, c, "closing")
    /\ ended' = Set(ended, c, TRUE)
    /\ UNCHANGED <<relayVars, kind, client, refs, last, worker, handler, upgraded, quicVars>>

dropTransport(c) ==
    /\ transport[c] = "closing" /\ transport' = Set(transport, c, "done")
    /\ drop(c)
    /\ UNCHANGED <<relayVars, kind, client, closed, worker, handler, ended, upgraded, quicVars>>

\* tcpConnContext and the accept loop of serveQUIC retain for the worker; a TCP worker of a
\* connection that is already closed runs uncounted, a QUIC one does not run.
retainWorker(c) ==
    /\ kind[c] # "none" /\ worker[c] = "none"
    /\ \/ /\ ~closed[c]
          /\ refs' = Set(refs, c, refs[c] + 1) /\ worker' = Set(worker, c, "running")
          /\ guard' = IF kind[c] = "quic" THEN Set(guard, c, "armed") ELSE guard
          /\ UNCHANGED ended
       \/ /\ closed[c]
          /\ worker' = Set(worker, c, IF kind[c] = "tcp" THEN "uncounted" ELSE "done")
          /\ ended' = Set(ended, c, TRUE)
          /\ UNCHANGED <<refs, guard>>
    /\ UNCHANGED <<relayVars, kind, client, closed, last, transport, handler, upgraded, claimed, ready, late>>

\* A listener that has stopped accepts no more, and its connections end.
neverServed(c) ==
    /\ ~open /\ kind[c] = "quic" /\ worker[c] = "none"
    /\ worker' = Set(worker, c, "done") /\ ended' = Set(ended, c, TRUE)
    /\ UNCHANGED <<relayVars, kind, client, refs, closed, last, transport, handler, upgraded, quicVars>>

\* The peer leaves, the network fails, or (quic) somebody calls CloseWithError.
connEnds(c) ==
    /\ kind[c] # "none" /\ ~ended[c] /\ ended' = Set(ended, c, TRUE)
    /\ UNCHANGED <<relayVars, kind, client, refs, closed, last, ownVars, upgraded, quicVars>>

\* The worker ends with its connection (a TCP one also between requests); it closes the
\* connection and then drops its reference.
workerEnds(c) ==
    /\ worker[c] = "running"
    /\ IF kind[c] = "tcp" THEN handler[c] # "running" /\ ~upgraded[c] ELSE ended[c]
    /\ worker' = Set(worker, c, "ending")
    /\ UNCHANGED <<relayVars, kind, client, refs, closed, last, transport, handler, ended, upgraded, quicVars>>

dropWorker(c) ==
    /\ worker[c] = "ending" /\ closed[c]
    /\ worker' = Set(worker, c, "done")
    /\ drop(c)
    /\ UNCHANGED <<relayVars, kind, client, closed, transport, handler, ended, upgraded, quicVars>>

----------------------------------------------------------------------------
\* admitSocket and admitTransport retain for a request's handler; a QUIC connection is good for
\* one.  (A request on an uncounted socket asks admit, which the cancelled relay refuses.)
retainHandler(c) ==
    /\ worker[c] = "running" /\ handler[c] \in {"none", "done"} /\ ~closed[c]
    /\ kind[c] = "quic" => ~claimed[c] /\ ~ended[c]
    /\ refs' = Set(refs, c, refs[c] + 1) /\ handler' = Set(handler, c, "running")
    /\ claimed' = Set(claimed, c, kind[c] = "quic")
    /\ UNCHANGED <<relayVars, kind, client, closed, last, transport, worker, ended, upgraded, ready, late, guard>>

\* Mutant of upgrade: only a closed connection ends the worker's ownership.
upgradeKeepsWorker(c) ==
    /\ kind[c] = "tcp" /\ handler[c] = "running" /\ worker[c] = "running"
    /\ upgraded' = Set(upgraded, c, TRUE) /\ worker' = Set(worker, c, "done")
    /\ UNCHANGED <<relayVars, kind, client, refs, closed, last, transport, handler, ended, quicVars>>

\* websocket.Accept hijacks the connection and tcpConnState ends the worker's ownership.
upgrade(c) ==
    /\ kind[c] = "tcp" /\ handler[c] = "running" /\ worker[c] = "running"
    /\ upgraded' = Set(upgraded, c, TRUE) /\ worker' = Set(worker, c, "done")
    /\ drop(c)
    /\ UNCHANGED <<relayVars, kind, client, closed, transport, handler, ended, quicVars>>

\* Mutant of establish: the deadline is not looked at.
establishLate(c) ==
    /\ kind[c] = "quic" /\ handler[c] = "running" /\ ~ready[c]
    /\ ~closed[c]
    /\ ready' = Set(ready, c, TRUE)
    /\ UNCHANGED <<relayVars, kind, client, refs, closed, last, ownVars, ended, upgraded, claimed, late, guard>>

establish(c) ==
    /\ kind[c] = "quic" /\ handler[c] = "running" /\ ~ready[c]
    /\ ~closed[c] /\ ~late[c]
    /\ ready' = Set(ready, c, TRUE)
    /\ UNCHANGED <<relayVars, kind, client, refs, closed, last, ownVars, ended, upgraded, claimed, late, guard>>

\* The handler returns; a WebSocket or WebTransport one closes its connection first.
handlerEnds(c) ==
    /\ handler[c] = "running"
    /\ handler' = Set(handler, c, "ending")
    /\ ended' = IF kind[c] = "quic" THEN Set(ended, c, TRUE) ELSE ended
    /\ UNCHANGED <<relayVars, kind, client, refs, closed, last, transport, worker, upgraded, quicVars>>

dropHandler(c) ==
    /\ handler[c] = "ending" /\ (upgraded[c] => closed[c])
    /\ handler' = Set(handler, c, "done")
    /\ drop(c)
    /\ UNCHANGED <<relayVars, kind, client, closed, transport, worker, ended, upgraded, quicVars>>

----------------------------------------------------------------------------
\* guardHello: when the deadline passes, when the connection ends or when establish cancels
\* it, the callback asks whether the connection is ready, and closes it if it is not.
deadlinePasses(c) ==
    /\ kind[c] = "quic" /\ ~late[c] /\ late' = Set(late, c, TRUE)
    /\ UNCHANGED <<relayVars, kind, client, refs, closed, last, ownVars, ended, upgraded, claimed, ready, guard>>

\* Mutant of guardFires: the callback runs and closes nothing.
guardIdle(c) ==
    /\ guard[c] = "armed" /\ (late[c] \/ ended[c] \/ ready[c])
    /\ guard' = Set(guard, c, "done")
    /\ UNCHANGED <<relayVars, kind, client, refs, closed, last, ownVars, ended, upgraded, claimed, ready, late>>

\* The callback itself; the closing is a call of its own.
guardFires(c) ==
    /\ guard[c] = "armed" /\ (late[c] \/ ended[c] \/ ready[c])
    /\ guard' = Set(guard, c, IF ready[c] THEN "done" ELSE "cut")
    /\ UNCHANGED <<relayVars, kind, client, refs, closed, last, ownVars, ended, upgraded, claimed, ready, late>>

guardCuts(c) ==
    /\ guard[c] = "cut" /\ ~ended[c]
    /\ ended' = Set(ended, c, TRUE)
    /\ UNCHANGED <<relayVars, kind, client, refs, closed, last, ownVars, upgraded, quicVars>>

cancel ==
    /\ open /\ open' = FALSE
    /\ UNCHANGED <<erased, active, connections, kind, client, refs, closed, last, ownVars, ended, upgraded, quicVars>>

\* Relay.Close waits for every slot and then erases the accounts.
Close ==
    /\ ~open /\ ~erased /\ active = 0
    /\ erased' = TRUE
    /\ UNCHANGED <<open, active, connections, kind, client, refs, closed, last, ownVars, ended, upgraded, quicVars>>

Next ==
    \/ \E a \in Addr : (\E c \in TCP : admit(c, a, "tcp")) \/ (\E c \in QUIC : admit(c, a, "quic"))
    \/ \E c \in Conn :
         \/ release(c) \/ close(c) \/ dropTransport(c)
         \/ retainWorker(c) \/ neverServed(c) \/ connEnds(c) \/ workerEnds(c) \/ dropWorker(c)
         \/ retainHandler(c) \/ upgrade(c) \/ establish(c) \/ handlerEnds(c) \/ dropHandler(c)
         \/ deadlinePasses(c) \/ guardFires(c) \/ guardCuts(c)
    \/ cancel \/ Close

----------------------------------------------------------------------------
(* Fairness: goroutines run, callbacks are called, time passes.  A handler returns and a QUIC *)
(* connection ends once the relay's context is cancelled; a worker ends with its connection,  *)
(* a handler too.  Nothing makes a peer leave, send a request or finish one in time.          *)
Stopped(c) == ~open \/ ended[c] \/ closed[c]

Fairness ==
    /\ \A c \in Conn :
         /\ WF_vars(release(c)) /\ WF_vars(close(c)) /\ WF_vars(dropTransport(c))
         /\ WF_vars(retainWorker(c) \/ neverServed(c)) /\ WF_vars(dropWorker(c)) /\ WF_vars(dropHandler(c))
         /\ WF_vars(deadlinePasses(c)) /\ WF_vars(guardFires(c)) /\ WF_vars(guardCuts(c))
         /\ WF_vars(~open /\ kind[c] = "quic" /\ connEnds(c))
         /\ WF_vars(Stopped(c) /\ workerEnds(c)) /\ WF_vars(Stopped(c) /\ handlerEnds(c))
    /\ WF_vars(Close)

Spec == Init /\ [][Next]_vars /\ Fairness

----------------------------------------------------------------------------
Owner == {"none", "running", "uncounted", "ending", "done"}

\* Every variable keeps its type; a slot is never released by a connection that was not admitted.
TypeOK ==
    /\ open \in BOOLEAN /\ erased \in BOOLEAN
    /\ active \in 0 .. maxSessions /\ connections \in [Addr -> 0 .. maxPerIP]
    /\ kind \in [Conn -> {"none", "tcp", "quic"}] /\ client \in [Conn -> Addr \cup {NoAddr}]
    /\ \A c \in Conn : client[c] = NoAddr <=> kind[c] = "none"
    /\ refs \in [Conn -> 0 .. 3] /\ closed \in [Conn -> BOOLEAN] /\ last \in [Conn -> BOOLEAN]
    /\ transport \in [Conn -> {"none", "open", "closing", "done"}]
    /\ worker \in [Conn -> Owner] /\ handler \in [Conn -> Owner]
    /\ ended \in [Conn -> BOOLEAN] /\ upgraded \in [Conn -> BOOLEAN]
    /\ claimed \in [Conn -> BOOLEAN] /\ ready \in [Conn -> BOOLEAN] /\ late \in [Conn -> BOOLEAN]
    /\ guard \in [Conn -> {"off", "armed", "cut", "done"}]

Owned(c) ==
    \/ transport[c] \in {"open", "closing"} \/ worker[c] \in {"running", "ending"}
    \/ handler[c] \in {"running", "ending"}

\* "Upgraded connections retain their slot until the connection and handlers have ended":
\* relay.active and relay.connections count exactly the connections with an owner, or one
\* whose last owner is about to release it, in whatever order the owners end.
SlotsExact ==
    LET Held(c) == Owned(c) \/ last[c] IN
    /\ active = Cardinality({c \in Conn : Held(c)})
    /\ \A a \in Addr : connections[a] = Cardinality({c \in Conn : Held(c) /\ client[c] = a})

\* Relay.Close erases the accounts only when no handler that could reach one is left, and none
\* starts afterwards.
ErasedAfterHandlers == erased => \A c \in Conn : handler[c] \notin {"running", "ending"}

\* The guard of the initial Hello never cuts a live connection that establish has reported
\* ready, however the deadline races the Hello.
GuardSparesReady == \A c \in Conn : guard[c] = "cut" /\ ~ended[c] => ~ready[c]

\* Relay.Close returns: every slot comes back once the relay's context is cancelled.
CloseReturns == ~open ~> erased

\* "Must complete a valid control Hello within the initial deadline": a QUIC connection that is
\* served becomes ready or gives its slot back, whatever its peer does.
UnreadyReleased ==
    \A c \in Conn : (kind[c] = "quic" /\ worker[c] = "running") ~> (ready[c] \/ (~Owned(c) /\ ~last[c]))
=============================================================================
