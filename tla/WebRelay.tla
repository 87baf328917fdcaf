------------------------------ MODULE WebRelay ------------------------------
(***************************************************************************)
(* core/webrelay: the relay's in-memory accounts, the controllers that own *)
(* them and the resume bearers that reach them (relay.go, resume.go and    *)
(* the attach/expire part of session.go).                                  *)
(*                                                                         *)
(* Each connection is a handler goroutine.  A critical section of relay.mu *)
(* or of session.mu is one step; session.commands, which is held across    *)
(* several of them, is state.  Time is read where the code reads it and    *)
(* carried where the code carries it: openControl works with the time of   *)
(* its caller, however long it has waited for session.commands since.      *)
(***************************************************************************)
EXTENDS Integers, FiniteSets

CONSTANTS
    Addr,         \* client addresses (netip.Addr)
    Session,      \* identities of *webSession, never reused
    Conn,         \* connection handlers
    NoSession, NoAddr,
    Free, Expirer,\* session.commands is free, or held by Relay.expire
    maxSessions, maxPerIP, resumeTTL, idleTTL,
    MaxTime,      \* bound: the clock stops here
    MaxIssued     \* bound: bearers issued in one behaviour

ASSUME RelayConstants ==
    /\ NoSession \notin Session /\ NoAddr \notin Addr
    /\ Free \notin Conn /\ Expirer \notin Conn /\ Free # Expirer
    /\ maxSessions \in Nat /\ maxPerIP \in Nat
    /\ resumeTTL \in Nat /\ idleTTL \in Nat
    /\ MaxTime \in Nat /\ MaxIssued \in Nat

ASSUME FiniteConstants == IsFiniteSet(Session) /\ IsFiniteSet(Conn)

VARIABLES
    now,           \* wall clock
    open,          \* relay.ctx is not cancelled
    sessions,      \* relay.sessions
    made,          \* every session newWebSession has returned
    perIP,         \* relay.perIP
    issued,        \* bearers newSessionID has returned: 1..issued; 0 is ""
    tokens,        \* relay.tokens
    \* webSession, owned by relay.mu
    token, previousToken, tokenPending, generation, controller, client,
    \* webSession, owned by session.mu
    attached, idleSince, closed,
    commands,      \* who holds session.commands
    \* a handler's place in the code, its Hello (address, bearer, account found, time of
    \* the call), and its controller's generation and context
    pc, hello, gen, live,
    \* the expire loop: place, accounts to visit, time, current account and verdict
    expPC, expTodo, expNow, expSession, expVerdict

relayVars      == <<open, sessions, made, perIP>>
capabilityVars == <<issued, tokens, token, previousToken, tokenPending>>
controlVars    == <<generation, controller, client>>
accountVars    == <<attached, idleSince, closed>>
handlerVars    == <<pc, hello, gen, live>>
expireVars     == <<expPC, expTodo, expNow, expSession, expVerdict>>
vars == <<now, relayVars, capabilityVars, controlVars, accountVars, commands, handlerVars, expireVars>>

----------------------------------------------------------------------------
NoBearer == 0       \* the empty resume string
NoController == 0   \* session.controller is nil; generations start at 1

NoHello == [client |-> NoAddr, token |-> NoBearer, session |-> NoSession, now |-> 0]

Init ==
    /\ now = 0 /\ open = TRUE
    /\ sessions = {} /\ made = {}
    /\ perIP = [a \in Addr |-> 0]
    /\ issued = 0 /\ tokens = [t \in {} |-> 0]
    /\ token = [s \in Session |-> NoBearer]
    /\ previousToken = [s \in Session |-> NoBearer]
    /\ tokenPending = [s \in Session |-> FALSE]
    /\ generation = [s \in Session |-> 0]
    /\ controller = [s \in Session |-> NoController]
    /\ client = [s \in Session |-> NoAddr]
    /\ attached = [s \in Session |-> 0]
    /\ idleSince = [s \in Session |-> 0]
    /\ closed = [s \in Session |-> FALSE]
    /\ commands = [s \in Session |-> Free]
    /\ pc = [c \in Conn |-> "idle"]
    /\ hello = [c \in Conn |-> NoHello]
    /\ gen = [c \in Conn |-> 0]
    /\ live = [c \in Conn |-> FALSE]
    /\ expPC = "idle" /\ expTodo = {} /\ expNow = 0 /\ expSession = NoSession /\ expVerdict = FALSE

----------------------------------------------------------------------------
\* The account of an unexpired bearer, or none.
resumeLocked(bearer, at) ==
    IF bearer \in DOMAIN tokens /\ at < tokens[bearer].expires
    THEN tokens[bearer].session ELSE NoSession

\* Mutant of rotateLocked: the older of the two bearers is never forgotten.
rotateKeepsPrevious(s, retain, at) ==
    LET dropped == {token[s]} \ {retain}
        fresh == issued + 1
    IN  /\ tokens' = [t \in (DOMAIN tokens \ dropped) \cup {fresh} |->
                        IF t = fresh THEN [session |-> s, expires |-> at + resumeTTL] ELSE tokens[t]]
        /\ issued' = fresh
        /\ previousToken' = [previousToken EXCEPT ![s] = retain]
        /\ token' = [token EXCEPT ![s] = fresh]

\* Mutant of rotateLocked: the newest bearer is retained, not the one the browser presented.
rotateRetainsNewest(s, retain, at) ==
    LET fresh == issued + 1
    IN  /\ tokens' = [t \in (DOMAIN tokens \ {previousToken[s]}) \cup {fresh} |->
                        IF t = fresh THEN [session |-> s, expires |-> at + resumeTTL] ELSE tokens[t]]
        /\ issued' = fresh
        /\ previousToken' = [previousToken EXCEPT ![s] = token[s]]
        /\ token' = [token EXCEPT ![s] = fresh]

\* rotateLocked issues a bearer and forgets the session's other two, except the one to retain.
rotateLocked(s, retain, at) ==
    LET dropped == {token[s], previousToken[s]} \ {retain}
        fresh == issued + 1
    IN  /\ tokens' = [t \in (DOMAIN tokens \ dropped) \cup {fresh} |->
                        IF t = fresh THEN [session |-> s, expires |-> at + resumeTTL] ELSE tokens[t]]
        /\ issued' = fresh
        /\ previousToken' = [previousToken EXCEPT ![s] = retain]
        /\ token' = [token EXCEPT ![s] = fresh]

\* runControl of c is running, and its controller is the account's and is not cancelled.
Running(c) == pc[c] \in {"greeting", "control"}
Current(c) == Running(c) /\ live[c] /\ open /\ controller[hello[c].session] = gen[c]

\* Handlers that may still make openControl issue a bearer.
Opening == {c \in Conn : pc[c] \in {"found", "attached"}}
Budget == issued + Cardinality(Opening) < MaxIssued

Goto(c, place) == pc' = [pc EXCEPT ![c] = place]

\* The handler returns and its locals are gone.
Return(c) == /\ Goto(c, "idle")
             /\ hello' = [hello EXCEPT ![c] = NoHello]
             /\ gen' = [gen EXCEPT ![c] = 0]

----------------------------------------------------------------------------
\* openControl, first section: find the presented bearer's account or create one.
Found(c, addr, bearer, s) ==
    /\ Goto(c, "found")
    /\ hello' = [hello EXCEPT ![c] = [client |-> addr, token |-> bearer, session |-> s, now |-> now]]

\* Mutant of resumeSession: the nil account of an unknown bearer is not refused.
resumeAnyBearer(c, addr, bearer) ==
    /\ pc[c] = "idle" /\ Budget /\ open /\ bearer # NoBearer
    /\ Found(c, addr, bearer, resumeLocked(bearer, now))
    /\ UNCHANGED <<now, relayVars, capabilityVars, controlVars, accountVars, commands, gen, live, expireVars>>

resumeSession(c, addr, bearer) ==
    /\ pc[c] = "idle" /\ Budget
    /\ open /\ bearer # NoBearer /\ resumeLocked(bearer, now) # NoSession
    /\ Found(c, addr, bearer, resumeLocked(bearer, now))
    /\ UNCHANGED <<now, relayVars, capabilityVars, controlVars, accountVars, commands, gen, live, expireVars>>

\* newWebSession: a signed-out account with no bearer and no controller.
newWebSession(c, addr, s) ==
    /\ pc[c] = "idle" /\ Budget
    /\ open /\ Cardinality(sessions) < maxSessions /\ perIP[addr] < maxPerIP
    /\ s \notin made
    /\ Found(c, addr, NoBearer, s)
    /\ sessions' = sessions \cup {s}
    /\ made' = made \cup {s}
    /\ perIP' = [perIP EXCEPT ![addr] = @ + 1]
    /\ client' = [client EXCEPT ![s] = addr]
    /\ idleSince' = [idleSince EXCEPT ![s] = now]
    /\ UNCHANGED <<now, open, capabilityVars, generation, controller, attached, closed, commands,
                   gen, live, expireVars>>

controlSessionRefused(c, addr, bearer) ==
    /\ pc[c] = "idle"
    /\ \/ ~open
       \/ bearer # NoBearer /\ resumeLocked(bearer, now) = NoSession
       \/ bearer = NoBearer /\ (Cardinality(sessions) >= maxSessions \/ perIP[addr] >= maxPerIP)
    /\ Goto(c, "refused")
    /\ UNCHANGED <<now, relayVars, capabilityVars, controlVars, accountVars, commands, hello, gen, live,
                   expireVars>>

\* openControl, second section: session.commands, then session.attach.
attach(c) ==
    LET s == hello[c].session IN
    /\ pc[c] = "found" /\ commands[s] = Free /\ ~closed[s]
    /\ Goto(c, "attached")
    /\ attached' = [attached EXCEPT ![s] = @ + 1]
    /\ commands' = [commands EXCEPT ![s] = c]
    /\ UNCHANGED <<now, relayVars, capabilityVars, controlVars, idleSince, closed, hello, gen, live,
                   expireVars>>

attachRefused(c) ==
    LET s == hello[c].session IN
    /\ pc[c] = "found" /\ commands[s] = Free /\ closed[s]
    /\ Goto(c, "refused")
    /\ UNCHANGED <<now, relayVars, capabilityVars, controlVars, accountVars, commands, hello, gen, live,
                   expireVars>>

\* The detach closure of attach: the idle clock starts when the last connection leaves.
detachAt(s, at) ==
    /\ attached' = [attached EXCEPT ![s] = @ - 1]
    /\ idleSince' = IF attached[s] = 1 THEN [idleSince EXCEPT ![s] = at] ELSE idleSince

\* Mutant of TakeoverRefused: the account is not looked up again after the wait.
refusedWithoutLookup(c) ==
    LET h == hello[c] IN
    \/ ~open
    \/ h.token # NoBearer /\ resumeLocked(h.token, h.now) # h.session
    \/ client[h.session] # h.client /\ perIP[h.client] >= maxPerIP

\* Mutant of TakeoverRefused: an account may move to an address that has its share already.
refusedAtNoAddress(c) ==
    LET h == hello[c] IN
    \/ ~open
    \/ h.session \notin sessions
    \/ h.token # NoBearer /\ resumeLocked(h.token, h.now) # h.session

\* openControl, third section: the bearer or the account may be gone by now.
TakeoverRefused(c) ==
    LET h == hello[c] IN
    \/ ~open
    \/ h.session \notin sessions
    \/ h.token # NoBearer /\ resumeLocked(h.token, h.now) # h.session
    \/ client[h.session] # h.client /\ perIP[h.client] >= maxPerIP

\* Mutant of openControlRefused: the error path forgets to detach.
refusedWithoutDetach(c) ==
    LET s == hello[c].session IN
    /\ pc[c] = "attached" /\ TakeoverRefused(c)
    /\ Goto(c, "refused")
    /\ commands' = [commands EXCEPT ![s] = Free]
    /\ UNCHANGED <<now, relayVars, capabilityVars, controlVars, accountVars, hello, gen, live, expireVars>>

openControlRefused(c) ==
    LET s == hello[c].session IN
    /\ pc[c] = "attached" /\ TakeoverRefused(c)
    /\ Goto(c, "refused")
    /\ detachAt(s, hello[c].now)
    /\ commands' = [commands EXCEPT ![s] = Free]
    /\ UNCHANGED <<now, relayVars, capabilityVars, controlVars, closed, hello, gen, live, expireVars>>

\* Mutant of Superseded: the takeover replaces session.controller without cancelling it.
neverSuperseded(d, s) == FALSE

\* session.controller.cancel(): the context of the controller being replaced.
Superseded(d, s) == Running(d) /\ hello[d].session = s /\ gen[d] = controller[s]

\* A resume from another address moves the account between the per-address counts.
moveAddress(s, addr) ==
    perIP' = IF client[s] = addr THEN perIP
             ELSE [perIP EXCEPT ![client[s]] = @ - 1, ![addr] = @ + 1]

\* The takeover proper; a fresh account has no earlier bearer to protect.
openControl(c) ==
    LET h == hello[c]
        s == h.session
    IN
    /\ pc[c] = "attached" /\ ~TakeoverRefused(c)
    /\ moveAddress(s, h.client)
    /\ client' = [client EXCEPT ![s] = h.client]
    /\ generation' = [generation EXCEPT ![s] = @ + 1]
    /\ controller' = [controller EXCEPT ![s] = generation[s] + 1]
    /\ gen' = [gen EXCEPT ![c] = generation[s] + 1]
    /\ live' = [d \in Conn |-> d = c \/ (live[d] /\ ~Superseded(d, s))]
    /\ rotateLocked(s, h.token, h.now)
    /\ tokenPending' = [tokenPending EXCEPT ![s] = h.token # NoBearer]
    /\ Goto(c, "greeting")
    /\ commands' = [commands EXCEPT ![s] = Free]
    /\ UNCHANGED <<now, open, sessions, made, accountVars, hello, expireVars>>

\* A refused control Hello is answered with its refusal code and the handler returns.
refusal(c) ==
    /\ pc[c] = "refused"
    /\ Return(c)
    /\ UNCHANGED <<now, relayVars, capabilityVars, controlVars, accountVars, commands, live, expireVars>>

----------------------------------------------------------------------------
\* runControl: the first event is the welcome, then keepalives refresh the bearer.
welcome(c) ==
    /\ pc[c] = "greeting" /\ Current(c)
    /\ Goto(c, "control")
    /\ UNCHANGED <<now, relayVars, capabilityVars, controlVars, accountVars, commands, hello, gen, live,
                   expireVars>>

\* Mutant of pingRotate: the bearer kept beside the new one is the one before the confirmed one.
pingRetainsPrevious(c) ==
    LET s == hello[c].session IN
    /\ pc[c] = "control" /\ Current(c) /\ Budget
    /\ ~tokenPending[s]
    /\ rotateLocked(s, previousToken[s], now)
    /\ tokenPending' = [tokenPending EXCEPT ![s] = TRUE]
    /\ UNCHANGED <<now, relayVars, controlVars, accountVars, commands, handlerVars, expireVars>>

\* A keepalive replaces a confirmed bearer and repeats an unanswered replacement.
pingRotate(c) ==
    LET s == hello[c].session IN
    /\ pc[c] = "control" /\ Current(c) /\ Budget
    /\ ~tokenPending[s]
    /\ rotateLocked(s, token[s], now)
    /\ tokenPending' = [tokenPending EXCEPT ![s] = TRUE]
    /\ UNCHANGED <<now, relayVars, controlVars, accountVars, commands, handlerVars, expireVars>>

\* Mutant of acknowledge: a pong counts whichever of the account's bearers it echoes.
acknowledgeAnyBearer(c, bearer) ==
    LET s == hello[c].session IN
    /\ Current(c) /\ resumeLocked(bearer, now) = s
    /\ tokenPending' = [tokenPending EXCEPT ![s] = FALSE]
    /\ UNCHANGED <<now, relayVars, issued, tokens, token, previousToken, controlVars, accountVars,
                   commands, handlerVars, expireVars>>

\* A pong; the reader runs beside the writer, so it may even precede the welcome.
acknowledge(c, bearer) ==
    LET s == hello[c].session IN
    /\ Current(c) /\ bearer = token[s] /\ resumeLocked(bearer, now) = s
    /\ tokenPending' = [tokenPending EXCEPT ![s] = FALSE]
    /\ UNCHANGED <<now, relayVars, issued, tokens, token, previousToken, controlVars, accountVars,
                   commands, handlerVars, expireVars>>

\* openControl's release closure: retire the controller under relay.mu ...
retire(c) ==
    LET s == hello[c].session IN
    /\ Running(c)
    /\ Goto(c, "retired")
    /\ live' = [live EXCEPT ![c] = FALSE]
    /\ controller' = IF controller[s] = gen[c] THEN [controller EXCEPT ![s] = NoController] ELSE controller
    /\ UNCHANGED <<now, relayVars, capabilityVars, generation, client, accountVars, commands, hello, gen,
                   expireVars>>

\* ... then detach; a play handler detaches the same way when it ends.
detach(c) ==
    /\ pc[c] \in {"retired", "playing"}
    /\ detachAt(hello[c].session, now)
    /\ Return(c)
    /\ UNCHANGED <<now, relayVars, capabilityVars, controlVars, closed, commands, live, expireVars>>

----------------------------------------------------------------------------
\* runPlay: a bearer, or a stream of d's own QUIC session (no bearer), reaches the account
\* only with the generation of its current controller d.
playSession(c, bearer, d) ==
    /\ pc[c] = "idle"
    /\ Current(d) /\ (bearer = NoBearer \/ resumeLocked(bearer, now) = hello[d].session)
    /\ Goto(c, "playFound")
    /\ hello' = [hello EXCEPT ![c] = [NoHello EXCEPT !.token = bearer, !.session = hello[d].session]]
    /\ UNCHANGED <<now, relayVars, capabilityVars, controlVars, accountVars, commands, gen, live, expireVars>>

\* runPlay returns early: the address's budget is spent or the controller is cancelled by now.
playRefused(c) ==
    /\ pc[c] = "playFound"
    /\ Return(c)
    /\ UNCHANGED <<now, relayVars, capabilityVars, controlVars, accountVars, commands, live, expireVars>>

\* runPlay attaches without session.commands.
playAttach(c) ==
    LET s == hello[c].session IN
    /\ pc[c] = "playFound"
    /\ IF closed[s] THEN Return(c) /\ UNCHANGED attached
       ELSE /\ Goto(c, "playing") /\ UNCHANGED <<hello, gen>>
            /\ attached' = [attached EXCEPT ![s] = @ + 1]
    /\ UNCHANGED <<now, relayVars, capabilityVars, controlVars, idleSince, closed, commands, live,
                   expireVars>>

----------------------------------------------------------------------------
\* expire: snapshot the accounts, then check and forget them one at a time.
expireStart ==
    /\ expPC = "idle" /\ sessions # {}
    /\ expPC' = "next" /\ expTodo' = sessions /\ expNow' = now
    /\ UNCHANGED <<now, relayVars, capabilityVars, controlVars, accountVars, commands, handlerVars,
                   expSession, expVerdict>>

\* session.expired
expired(s, at) == attached[s] = 0 /\ at - idleSince[s] > idleTTL

expireCheck(s) ==
    /\ expPC = "next" /\ s \in expTodo /\ commands[s] = Free
    /\ commands' = [commands EXCEPT ![s] = Expirer]
    /\ expPC' = "checked" /\ expTodo' = expTodo \ {s} /\ expSession' = s
    /\ expVerdict' = expired(s, expNow)
    /\ UNCHANGED <<now, relayVars, capabilityVars, controlVars, accountVars, handlerVars, expNow>>

expireForget ==
    LET s == expSession IN
    /\ expPC = "checked" /\ expVerdict /\ s \in sessions
    /\ commands' = [commands EXCEPT ![s] = Free]
    /\ sessions' = sessions \ {s}
    /\ tokens' = [t \in DOMAIN tokens \ {token[s], previousToken[s]} |-> tokens[t]]
    /\ perIP' = [perIP EXCEPT ![client[s]] = @ - 1]
    /\ expPC' = "closing"
    /\ UNCHANGED <<now, open, made, issued, token, previousToken, tokenPending, controlVars, accountVars,
                   handlerVars, expTodo, expNow, expSession, expVerdict>>

expireKeep ==
    /\ expPC = "checked" /\ ~(expVerdict /\ expSession \in sessions)
    /\ commands' = [commands EXCEPT ![expSession] = Free]
    /\ expPC' = "next"
    /\ UNCHANGED <<now, relayVars, capabilityVars, controlVars, accountVars, handlerVars, expTodo, expNow,
                   expSession, expVerdict>>

expireClose ==
    /\ expPC = "closing"
    /\ closed' = [closed EXCEPT ![expSession] = TRUE]
    /\ expPC' = "next"
    /\ UNCHANGED <<now, relayVars, capabilityVars, controlVars, attached, idleSince, commands, handlerVars,
                   expTodo, expNow, expSession, expVerdict>>

expireDone ==
    /\ expPC = "next" /\ expTodo = {}
    /\ expPC' = "idle" /\ expNow' = 0 /\ expSession' = NoSession /\ expVerdict' = FALSE
    /\ UNCHANGED <<now, relayVars, capabilityVars, controlVars, accountVars, commands, handlerVars, expTodo>>

----------------------------------------------------------------------------
\* Relay.Close: cancel every context, wait for the handlers, erase the accounts.
cancel ==
    /\ open /\ open' = FALSE
    /\ UNCHANGED <<now, sessions, made, perIP, capabilityVars, controlVars, accountVars, commands,
                   handlerVars, expireVars>>

Close ==
    /\ ~open /\ sessions # {} /\ \A c \in Conn : pc[c] = "idle"
    /\ sessions' = {} /\ tokens' = [t \in {} |-> 0]
    /\ closed' = [s \in Session |-> closed[s] \/ s \in sessions]
    /\ UNCHANGED <<now, open, made, perIP, issued, token, previousToken, tokenPending, controlVars,
                   attached, idleSince, commands, handlerVars, expireVars>>

Tick ==
    /\ now < MaxTime /\ now' = now + 1
    /\ UNCHANGED <<relayVars, capabilityVars, controlVars, accountVars, commands, handlerVars, expireVars>>

ControlNext ==
    \/ \E c \in Conn, a \in Addr, t \in 1 .. issued : resumeSession(c, a, t)
    \/ \E c \in Conn, a \in Addr, s \in Session : newWebSession(c, a, s)
    \/ \E c \in Conn, a \in Addr, t \in 0 .. issued : controlSessionRefused(c, a, t)
    \/ \E c \in Conn : \/ attach(c) \/ attachRefused(c) \/ openControlRefused(c) \/ openControl(c)
                       \/ refusal(c) \/ welcome(c) \/ pingRotate(c) \/ retire(c) \/ detach(c)
    \/ \E c \in Conn, t \in 1 .. issued : acknowledge(c, t)

PlayNext ==
    \/ \E c \in Conn, t \in 0 .. issued, d \in Conn : playSession(c, t, d)
    \/ \E c \in Conn : playRefused(c) \/ playAttach(c)

ExpireNext ==
    \/ \E s \in Session : expireCheck(s)
    \/ expireStart \/ expireForget \/ expireKeep \/ expireClose \/ expireDone

Next == ControlNext \/ PlayNext \/ ExpireNext \/ cancel \/ Close \/ Tick

Spec == Init /\ [][Next]_vars

----------------------------------------------------------------------------
Place == {"idle", "found", "attached", "refused", "greeting", "control", "retired",
          "playFound", "playing"}
HelloRecord == [client : Addr \cup {NoAddr}, token : Nat, session : Session \cup {NoSession}, now : Nat]
BearerRecord == [session : Session, expires : Nat]

\* Every variable keeps its type (the fields of Relay and webSession, the handlers' locals),
\* relay.tokens maps only bearers that were issued, and every handler past its Hello and the
\* expire loop hold an account.
TypeOK ==
    /\ now \in Nat /\ open \in BOOLEAN
    /\ sessions \subseteq made /\ made \subseteq Session /\ perIP \in [Addr -> Int]
    /\ issued \in Nat /\ DOMAIN tokens \subseteq 1 .. issued
    /\ \A t \in DOMAIN tokens : tokens[t] \in BearerRecord
    /\ token \in [Session -> Nat] /\ previousToken \in [Session -> Nat]
    /\ tokenPending \in [Session -> BOOLEAN]
    /\ generation \in [Session -> Nat] /\ controller \in [Session -> Nat]
    /\ client \in [Session -> Addr \cup {NoAddr}]
    /\ attached \in [Session -> Int] /\ idleSince \in [Session -> Nat]
    /\ closed \in [Session -> BOOLEAN]
    /\ commands \in [Session -> Conn \cup {Free, Expirer}]
    /\ pc \in [Conn -> Place] /\ hello \in [Conn -> HelloRecord]
    /\ gen \in [Conn -> Nat] /\ live \in [Conn -> BOOLEAN]
    /\ \A c \in Conn : pc[c] \notin {"idle", "refused"} => hello[c].session \in Session
    /\ expPC \in {"idle", "next", "checked", "closing"} /\ expTodo \subseteq Session
    /\ expNow \in Nat /\ expVerdict \in BOOLEAN
    /\ expPC \in {"checked", "closing"} => expSession \in Session

\* relay.tokens holds exactly the current and the previous bearer of each registered
\* account: no rotation, takeover or expiry leaks a bearer, drops one that the browser may
\* have to present, or lets one reach an account other than its own.
BearersExact ==
    /\ \A t \in DOMAIN tokens : /\ tokens[t].session \in sessions
                                /\ t \in {token[tokens[t].session], previousToken[tokens[t].session]}
    /\ \A s \in sessions : \A t \in {token[s], previousToken[s]} \ {NoBearer} :
         t \in DOMAIN tokens /\ tokens[t].session = s

\* A takeover retires the old controller before the new generation is available: a live
\* controller is the account's current one, carries its newest generation and is alone.
SoleController ==
    \A c \in Conn : Running(c) /\ live[c] =>
        /\ controller[hello[c].session] = gen[c]
        /\ generation[hello[c].session] = gen[c]
        /\ \A d \in Conn \ {c} : Running(d) /\ live[d] => hello[d].session # hello[c].session

\* expire never forgets an account that has a controller, whatever openControl was
\* waiting for when expire looked at it.
ControlledAccountKept ==
    \A c \in Conn : pc[c] \in {"greeting", "control", "retired"} =>
        hello[c].session \in sessions /\ ~closed[hello[c].session]

\* relay.perIP counts the accounts of each address, also across a resume that moves an
\* account between addresses, and no address holds more than its share.
AddressesCounted ==
    open => /\ \A a \in Addr : /\ perIP[a] = Cardinality({s \in sessions : client[s] = a})
                               /\ perIP[a] <= maxPerIP
            /\ Cardinality(sessions) <= maxSessions

AttachedPlace == {"attached", "greeting", "control", "retired", "playing"}
Holders(s) == {c \in Conn : pc[c] \in AttachedPlace /\ hello[c].session = s}

\* session.attached counts the handlers that hold the account: an account with a connection
\* is never mistaken for an idle one.
AttachedCounted == \A s \in Session : attached[s] = Cardinality(Holders(s))
=============================================================================
