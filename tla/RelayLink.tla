----------------------------- MODULE RelayLink -----------------------------
(***************************************************************************)
(* The relay (WebRelay) and one browser (RelayClient) joined by control    *)
(* connections.  A connection carries each direction in order, but         *)
(* connections are independent: what the browser has sent on one it        *)
(* abandoned may reach the relay after what it sent on a later one, or     *)
(* never.  No bearer or account expires here (the clock stands still): the *)
(* subject is which bearers the two sides hold.                            *)
(***************************************************************************)
EXTENDS WebRelay, Sequences

CONSTANTS
    NoConn,
    MaxQueue    \* bound: keepalives in flight on a connection, either way

ASSUME LinkConstants == NoConn \notin Conn /\ MaxQueue \in Nat

VARIABLES
    up,         \* messages in flight to the relay, on each connection
    down,       \* messages in flight to the browser, on the connection it is using
    wire,       \* the connection the browser is using
    dialed,     \* connections the browser has opened
    received,   \* history: bearers that have reached the browser
    \* RelayClient's
    state, active, bearers, desired, attempts, retryAt, refusalCode, join, candidate, presented, resumed

Client == INSTANCE RelayClient WITH
    clock <- now, RECONNECT_ATTEMPTS <- Cardinality(Conn), BackoffUnit <- 0,
    MaxJitter <- 0, MaxClock <- 0, MaxJoin <- 0, MaxToken <- 0, MaxGeneration <- 0, Lifetime <- 0

linkVars == <<up, down, wire, dialed, received>>
clientVars == <<state, active, bearers, desired, attempts, retryAt, refusalCode, join, candidate, presented,
                resumed>>
serverVars == <<relayVars, capabilityVars, controlVars, accountVars, commands, handlerVars, expireVars>>
allVars == <<now, serverVars, linkVars, clientVars>>

----------------------------------------------------------------------------
LinkInit ==
    /\ Init /\ Client!Init
    /\ up = [c \in Conn |-> <<>>] /\ down = <<>>
    /\ wire = NoConn /\ dialed = {} /\ received = {}

Message(kind, bearer, g) == [kind |-> kind, bearer |-> bearer, gen |-> g]
Kind(queue) == IF queue = <<>> THEN "none" ELSE Head(queue).kind
Send(c, m) == up' = [up EXCEPT ![c] = Append(@, m)]
Take(c) == up' = [up EXCEPT ![c] = Tail(@)]

\* The relay writes on c; nobody reads a connection the browser has left.
Answer(c, m) == down' = IF c = wire THEN Append(down, m) ELSE down

\* The browser's Hello on a new connection.
Dial(c) ==
    /\ c \notin dialed
    /\ dialed' = dialed \cup {c} /\ wire' = c
    /\ down' = <<>> /\ Send(c, Message("hello", presented', 0))
    /\ UNCHANGED <<serverVars, received>>

dialFirst(c) == \E transport \in {"quic", "socket"} : Client!select(transport, 0) /\ Dial(c)
dialFallback(c) == Client!fallback /\ Dial(c)

\* The browser abandons its connection; what it has sent is still under way.
HangUp == wire' = NoConn /\ down' = <<>> /\ UNCHANGED <<serverVars, up, dialed, received>>
selectFails == Client!selectFails /\ HangUp
lost == Client!lost /\ HangUp
restart == (Client!restart_retries \/ Client!fresh_session) /\ HangUp

\* What the browser receives on the connection it is using.
clientWelcome ==
    /\ Kind(down) = "welcome"
    /\ LET m == Head(down) IN
       /\ Client!welcome(m.bearer, m.gen, 1)
       /\ received' = received \cup {m.bearer}
    /\ down' = Tail(down)
    /\ UNCHANGED <<serverVars, up, wire, dialed>>

clientRefused ==
    /\ Kind(down) \in {"resume", "admission"} /\ Client!refuse(Kind(down))
    /\ HangUp

clientPing ==
    /\ Kind(down) = "ping"
    /\ LET m == Head(down) IN
       /\ Client!ping(m.bearer, m.gen, 1)
       /\ received' = received \cup {m.bearer}
       /\ Send(wire, Message("pong", m.bearer, 0))
    /\ down' = Tail(down)
    /\ UNCHANGED <<serverVars, wire, dialed>>

----------------------------------------------------------------------------
\* What the relay reads: a Hello ...
serverHello(c) ==
    /\ Kind(up[c]) = "hello"
    /\ LET bearer == Head(up[c]).bearer IN
       \E a \in Addr :
          \/ bearer # NoBearer /\ resumeSession(c, a, bearer) /\ UNCHANGED down
          \/ bearer = NoBearer /\ (\E s \in Session : newWebSession(c, a, s)) /\ UNCHANGED down
          \/ /\ controlSessionRefused(c, a, bearer)
             /\ Answer(c, Message(IF bearer = NoBearer THEN "admission" ELSE "resume", NoBearer, 0))
    /\ Take(c)
    /\ UNCHANGED <<wire, dialed, received, clientVars>>

\* ... or a pong, which counts only while it names the current bearer.
serverPong(c) ==
    /\ Running(c) /\ Kind(up[c]) = "pong"
    /\ Take(c)
    /\ LET bearer == Head(up[c]).bearer IN
       \/ acknowledge(c, bearer)
       \/ ~(Current(c) /\ bearer = token[hello[c].session]) /\ UNCHANGED <<now, serverVars>>
    /\ UNCHANGED <<down, wire, dialed, received, clientVars>>

\* What the relay does and sends.
serverOpens(c) ==
    /\ attach(c) \/ openControl(c) \/ refusal(c) \/ retire(c) \/ detach(c)
    /\ UNCHANGED <<linkVars, clientVars>>

serverRefuses(c) ==
    /\ openControlRefused(c)
    /\ Answer(c, Message("resume", NoBearer, 0))
    /\ UNCHANGED <<up, wire, dialed, received, clientVars>>

serverWelcome(c) ==
    /\ welcome(c)
    /\ Answer(c, Message("welcome", token[hello[c].session], gen[c]))
    /\ UNCHANGED <<up, wire, dialed, received, clientVars>>

serverPing(c) ==
    /\ Len(up[c]) + Len(down) < MaxQueue
    /\ \/ pingRotate(c)
       \/ pc[c] = "control" /\ Current(c) /\ tokenPending[hello[c].session] /\ UNCHANGED <<now, serverVars>>
    /\ Answer(c, Message("ping", token'[hello[c].session], gen[c]))
    /\ UNCHANGED <<up, wire, dialed, received, clientVars>>

LinkNext ==
    \/ \E c \in Conn : \/ dialFirst(c) \/ dialFallback(c)
                       \/ serverHello(c) \/ serverPong(c) \/ serverOpens(c) \/ serverRefuses(c)
                       \/ serverWelcome(c) \/ serverPing(c)
    \/ selectFails \/ lost \/ restart \/ clientWelcome \/ clientRefused \/ clientPing

LinkSpec == LinkInit /\ [][LinkNext]_allVars

----------------------------------------------------------------------------
Held == {bearers[1].token, bearers[2].token} \ {NoBearer}

\* "A delayed pong cannot acknowledge an unseen replacement": a bearer the relay treats as
\* confirmed, so that the next keepalive may drop the one before it, has reached the browser.
ConfirmedWasReceived ==
    \A s \in sessions : ~tokenPending[s] /\ previousToken[s] # NoBearer => token[s] \in received

\* "Repeated lost welcomes cannot discard it", "a delayed old observation cannot renew or replace
\* it": whatever handshakes were lost, repeated or reordered, one of the two bearers the browser
\* holds still reaches its account, and it presents the later one.
SomeBearerKept ==
    /\ Held # {} => \E t \in Held : t \in DOMAIN tokens
    /\ bearers[2].token # NoBearer => bearers[2].token < bearers[1].token

\* "The relay ... retains the acknowledged bearer at its original expiry": no step drops the
\* bearer that the browser has confirmed and the relay has not replaced.  The exception is the
\* code's: the Hello of a connection the browser has given up, read only now, presents an older
\* bearer, and rotateLocked keeps that one.
AcknowledgedBearerKept ==
    [][\A s \in sessions :
        ~tokenPending[s] /\ token[s] \in received =>
          \/ token[s] \in DOMAIN tokens'
          \/ \E c \in Conn \ {wire} :
                pc[c] = "attached" /\ pc'[c] = "greeting" /\ hello[c].session = s
                /\ hello[c].token < token[s]]_allVars
=============================================================================
