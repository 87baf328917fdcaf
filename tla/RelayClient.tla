---------------------------- MODULE RelayClient ----------------------------
(***************************************************************************)
(* web/transport: the browser's controller (Session in session.rs) and the *)
(* selection of a transport for it (select in lib.rs).  The host calls one *)
(* operation at a time; what the relay answers, and whether a deadline or  *)
(* the loss of the connection comes first, is chosen by the environment.   *)
(***************************************************************************)
EXTENDS Integers

CONSTANTS
    RECONNECT_ATTEMPTS,
    BackoffUnit,   \* one second of the backoff
    MaxJitter,     \* the capped jitter
    MaxClock,      \* bound: the host clock stops here
    MaxJoin,       \* bound: play sessions opened in one behaviour
    MaxToken, MaxGeneration, Lifetime   \* bounds: what a relay may answer with

ASSUME ClientConstants ==
    /\ RECONNECT_ATTEMPTS \in Nat \ {0} /\ BackoffUnit \in Nat /\ MaxJitter \in Nat
    /\ MaxClock \in Nat /\ MaxJoin \in Nat
    /\ MaxToken \in Nat /\ MaxGeneration \in Nat /\ Lifetime \in Nat

VARIABLES
    clock,      \* the host's monotonic clock
    state, active,          \* State and its generation
    bearers,    \* the newest and one previous capability
    desired,    \* the coalesced account operation
    attempts, retryAt, refusalCode,
    join,       \* the last play identity
    candidate,  \* the transport select is shaking hands on
    presented,  \* the bearer in that handshake's Hello
    resumed     \* history: a capability was received since the session was made

clientVars == <<state, active, bearers, desired, attempts, retryAt, refusalCode, join, candidate,
                presented, resumed>>
vars == <<clock, clientVars>>

----------------------------------------------------------------------------
NoToken == 0
NoBearers == << [token |-> NoToken, expires |-> 0], [token |-> NoToken, expires |-> 0] >>

\* Session::new
Init ==
    /\ clock = 0 /\ state = "offline" /\ active = 0 /\ bearers = NoBearers /\ desired = "none"
    /\ attempts = 0 /\ retryAt = 0 /\ refusalCode = "none" /\ join = 0
    /\ candidate = "none" /\ presented = NoToken /\ resumed = FALSE

Known == {b \in {bearers[1], bearers[2]} : b.token # NoToken}

\* The newest unexpired capability.
resume(at) ==
    LET usable(b) == b.token # NoToken /\ at < b.expires
    IN  IF usable(bearers[1]) THEN bearers[1].token
        ELSE IF usable(bearers[2]) THEN bearers[2].token ELSE NoToken

\* 1 << attempts.min(4)
Delay(n) == IF n >= 4 THEN 16 ELSE <<1, 2, 4, 8>>[n + 1]

----------------------------------------------------------------------------
\* Session::close: a refused resume forgets the bearers, a deliberate close is final, and a
\* refusal outlives the closing of its transport.
close(reason) ==
    /\ candidate' = "none" /\ presented' = NoToken /\ active' = 0
    /\ bearers' = IF reason = "refused" /\ refusalCode' = "resume" THEN NoBearers ELSE bearers
    /\ state' = IF state = "closed" \/ reason = "cancelled" THEN "closed"
                ELSE IF state = "refused" \/ reason = "refused" THEN "refused" ELSE "offline"

\* handshake, up to the Hello: with every bearer expired the resume is refused here.
handshake(transport) ==
    IF resume(clock) = NoToken /\ Known # {}
    THEN refusalCode' = "resume" /\ close("refused")
    ELSE /\ state' = "connecting" /\ candidate' = transport /\ presented' = resume(clock)
         /\ UNCHANGED <<active, bearers, refusalCode>>

\* Mutant of select: the number of attempts is not bounded.
selectForEver(transport, jitter) ==
    /\ state = "offline" /\ clock >= retryAt
    /\ retryAt' = clock + BackoffUnit * Delay(attempts) + jitter
    /\ attempts' = attempts + 1
    /\ handshake(transport)
    /\ UNCHANGED <<clock, desired, join, resumed>>

\* Session::retry and the first candidate of select.
select(transport, jitter) ==
    /\ state = "offline" /\ clock >= retryAt /\ attempts < RECONNECT_ATTEMPTS
    /\ retryAt' = clock + BackoffUnit * Delay(attempts) + jitter
    /\ attempts' = attempts + 1
    /\ handshake(transport)
    /\ UNCHANGED <<clock, desired, join, resumed>>

\* The handshake of a candidate fails: a QUIC one is closed and the socket is tried, ...
fallback ==
    /\ candidate = "quic"
    /\ handshake("socket")
    /\ UNCHANGED <<clock, desired, attempts, retryAt, join, resumed>>

\* ... a socket is the last.
selectFails ==
    /\ candidate = "socket"
    /\ refusalCode' = refusalCode /\ close("transport")
    /\ UNCHANGED <<clock, desired, attempts, retryAt, join, resumed>>

\* Mutant of apply_capability: an observation of a known token rotates the bearers again.
applyEveryObservation(token, seconds) ==
    bearers' = << [token |-> token, expires |-> clock + seconds], bearers[1] >>

\* Only a token that was not seen before rotates the two bearers.
apply_capability(token, seconds) ==
    bearers' = IF \E b \in Known : b.token = token THEN bearers
               ELSE << [token |-> token, expires |-> clock + seconds], bearers[1] >>

welcome(token, generation, seconds) ==
    /\ candidate # "none"
    /\ apply_capability(token, seconds)
    /\ state' = "ready" /\ active' = generation /\ attempts' = 0
    /\ candidate' = "none" /\ presented' = NoToken /\ resumed' = TRUE
    /\ UNCHANGED <<clock, desired, retryAt, refusalCode, join>>

\* Mutant of refuse: a refused QUIC candidate falls back like a failed one.
refuseAndFallBack(code) ==
    \/ /\ candidate = "quic"
       /\ refusalCode' = code /\ state' = "connecting" /\ candidate' = "socket"
       /\ UNCHANGED <<active, bearers, presented, clock, desired, attempts, retryAt, join, resumed>>
    \/ /\ candidate = "socket"
       /\ refusalCode' = code /\ close("refused")
       /\ UNCHANGED <<clock, desired, attempts, retryAt, join, resumed>>

\* The relay answers the Hello with a refusal, which no other transport is tried for.
refuse(code) ==
    /\ candidate # "none"
    /\ refusalCode' = code /\ close("refused")
    /\ UNCHANGED <<clock, desired, attempts, retryAt, join, resumed>>

----------------------------------------------------------------------------
Ready == state \in {"ready", "playing"}

\* next_event: a keepalive of this generation, or one that breaks the contract.
ping(token, generation, seconds) ==
    /\ Ready
    /\ IF generation = active
       THEN apply_capability(token, seconds) /\ UNCHANGED <<state, active, refusalCode, candidate, presented>>
       ELSE refusalCode' = refusalCode /\ close("protocol")
    /\ UNCHANGED <<clock, desired, attempts, retryAt, join, resumed>>

\* The host closes the session, or drops a handshake, when the page is paused or reconnects.
lost ==
    /\ Ready \/ state = "connecting"
    /\ refusalCode' = refusalCode /\ close("transport")
    /\ UNCHANGED <<clock, desired, attempts, retryAt, join, resumed>>

desire_account(op) ==
    /\ desired # op /\ desired' = op
    /\ UNCHANGED <<clock, state, active, bearers, attempts, retryAt, refusalCode, join, candidate, presented, resumed>>

flush_account ==
    /\ Ready /\ desired # "none"
    /\ \/ desired' = "none" /\ UNCHANGED <<state, active, bearers, refusalCode, candidate, presented>>
       \/ refusalCode' = refusalCode /\ close("transport") /\ UNCHANGED desired
    /\ UNCHANGED <<clock, attempts, retryAt, join, resumed>>

open_play ==
    /\ state = "ready" /\ join < MaxJoin
    /\ join' = join + 1
    /\ \/ state' = "playing" /\ UNCHANGED <<active, bearers, refusalCode, candidate, presented>>
       \/ refusalCode' = refusalCode /\ close("transport")
    /\ UNCHANGED <<clock, desired, attempts, retryAt, resumed>>

finish_play ==
    /\ state = "playing" /\ state' = "ready"
    /\ UNCHANGED <<clock, active, bearers, desired, attempts, retryAt, refusalCode, join, candidate, presented, resumed>>

cancel ==
    /\ state # "closed"
    /\ refusalCode' = refusalCode /\ close("cancelled")
    /\ UNCHANGED <<clock, desired, attempts, retryAt, join, resumed>>

fresh_session ==
    /\ state' = "offline" /\ active' = 0 /\ bearers' = NoBearers
    /\ desired' = "none" /\ attempts' = 0 /\ retryAt' = 0 /\ refusalCode' = "none" /\ join' = 0
    /\ candidate' = "none" /\ presented' = NoToken /\ resumed' = FALSE
    /\ UNCHANGED clock

\* Mutant of restart_retries: any refusal can be retried.
restartAnyRefusal ==
    /\ state \in {"offline", "refused"}
    /\ state' = "offline" /\ refusalCode' = "none" /\ attempts' = 0 /\ retryAt' = 0
    /\ UNCHANGED <<clock, active, bearers, desired, join, candidate, presented, resumed>>

restart_retries ==
    /\ state = "offline" \/ (state = "refused" /\ refusalCode \in {"admission", "busy"})
    /\ state' = "offline" /\ refusalCode' = "none" /\ attempts' = 0 /\ retryAt' = 0
    /\ UNCHANGED <<clock, active, bearers, desired, join, candidate, presented, resumed>>

Tick == clock < MaxClock /\ clock' = clock + 1 /\ UNCHANGED clientVars

Code == {"admission", "resume", "busy", "unknown"}
Operation == {"sign_in", "sign_out"}

SelectNext ==
    \/ \E transport \in {"quic", "socket"}, jitter \in 0 .. MaxJitter : select(transport, jitter)
    \/ fallback \/ selectFails
    \/ \E t \in 1 .. MaxToken, g \in 1 .. MaxGeneration, n \in 0 .. Lifetime : welcome(t, g, n)
    \/ \E code \in Code : refuse(code)

ReadyNext ==
    \/ \E t \in 1 .. MaxToken, g \in 1 .. MaxGeneration, n \in 0 .. Lifetime : ping(t, g, n)
    \/ \E op \in Operation : desire_account(op)
    \/ flush_account \/ open_play \/ finish_play

HostNext == lost \/ cancel \/ fresh_session \/ restart_retries \/ Tick

Next == SelectNext \/ ReadyNext \/ HostNext

Spec == Init /\ [][Next]_vars

----------------------------------------------------------------------------
Bearer == [token : Nat, expires : Nat]

\* Every field keeps its type, a generation goes with a ready controller and a candidate with
\* a connecting one.
TypeOK ==
    /\ clock \in Nat
    /\ state \in {"offline", "connecting", "ready", "playing", "refused", "closed"}
    /\ active \in Nat /\ (active # 0 <=> Ready)
    /\ bearers \in Bearer \X Bearer
    /\ desired \in Operation \cup {"none"} /\ attempts \in 0 .. RECONNECT_ATTEMPTS /\ retryAt \in Nat
    /\ refusalCode \in Code \cup {"none"} /\ join \in Nat
    /\ candidate \in {"none", "quic", "socket"} /\ (candidate # "none" <=> state = "connecting")
    /\ presented \in Nat /\ resumed \in BOOLEAN

\* "Without bypassing a resume refusal": once the session has had an account's bearer, no retry,
\* restart, fallback or expiry makes it ask for another account; only fresh_session does.
NoSilentFreshAccount == candidate # "none" /\ presented = NoToken => ~resumed

\* "Authentication refusal never triggers a second transport": a refusal ends the selection,
\* and the session leaves it only by restart_retries or fresh_session.
RefusalEndsSelection == refusalCode # "none" => candidate = "none" /\ state \in {"refused", "closed"}

\* The inductive invariant: a session that has had a bearer has one, or its resume was refused,
\* which only fresh_session gets it out of.
AccountRemembered ==
    resumed => Known # {} \/ (state = "refused" /\ refusalCode = "resume") \/ state = "closed"
IInv == TypeOK /\ AccountRemembered /\ NoSilentFreshAccount /\ RefusalEndsSelection
=============================================================================
