----------------------------- MODULE WebSession -----------------------------
(***************************************************************************)
(* core/webrelay: one account (session.go, play.go, and applyAccount and   *)
(* runPlay of control.go).  Its device-code sign-ins, the handler its play *)
(* connections join through, the sole play connection, and its closing.    *)
(*                                                                         *)
(* A critical section of session.mu or relay.mu is one step.  How an       *)
(* account gets and loses its controllers is WebRelay's subject: here a    *)
(* takeover and an expiry are one step each, taken with session.commands   *)
(* free, and the number of attached connections is the number of handlers  *)
(* that hold the account (WebRelay's AttachedCounted).                     *)
(***************************************************************************)
EXTENDS Integers, FiniteSets

CONSTANTS
    Play,      \* play handlers (runPlay), each of which serves one play after another
    NoPlay,
    Op,        \* the account commands browsers send
    MaxGen,    \* bound: controllers the account has in one behaviour
    MaxSeq,    \* bound: sign-ins started in one behaviour
    MaxJoin    \* bound: pack join identities; 0 is a join without packs

ASSUME SessionConstants ==
    NoPlay \notin Play /\ MaxGen \in Nat /\ MaxSeq \in Nat /\ MaxJoin \in Nat
ASSUME SessionOps == Op \subseteq {"sign_in", "sign_out"}

VARIABLES
    open,          \* relay.ctx is not cancelled
    registered,    \* the account is in relay.sessions
    generation,    \* session.generation
    cancelled,     \* generations whose controller's context is cancelled
    control,       \* generations whose runControl has not returned, or has not detached
    commands,      \* the generation whose reader holds session.commands, 0 when free
    reader,        \* what the reader of a controller does: its account command and place
    auth,          \* session.auth and the sign-in it is of
    account, handler,              \* session.account and session.handler
    accounts, handlers,            \* accounts and handlers that are not closed
    signInSeq, cancelSignIn,       \* cancelSignIn is 0 for nil
    worker, stopped,               \* the sign-in workers and the sign-ins whose ctx is cancelled
    closing,       \* session.close: "open", "closing" (session.closed is set), "closed"
    play,          \* the handler that owns session.play
    packControl, packJoin,
    delivered,     \* <<controller, join>> of every join whose archives were published
    pc, ctl, join, through, waitsFor   \* a play handler: place, controller, join, its handler, and
                                       \* the play whose done channel it waits for

controlVars == <<open, registered, generation, cancelled, control, commands>>
signInVars  == <<auth, account, handler, accounts, handlers, signInSeq, cancelSignIn, worker, stopped>>
packVars    == <<packControl, packJoin, delivered>>
playVars    == <<play, packVars, pc, ctl, join, through, waitsFor>>
vars == <<controlVars, reader, signInVars, closing, playVars>>

----------------------------------------------------------------------------
Gen == 1 .. MaxGen
Attempt == 1 .. MaxSeq
None == 0

\* Handlers: 0 is the first, n the one a sign-in n built, -n the one its sign-out built.
Handler == -MaxSeq .. MaxSeq

Init ==
    /\ open = TRUE /\ registered = TRUE
    /\ generation = 0 /\ cancelled = {} /\ control = {} /\ commands = None
    /\ reader = [g \in Gen |-> [op |-> "none", at |-> "idle"]]
    /\ auth = [state |-> "signed_out", seq |-> 0]
    /\ account = None /\ handler = 0 /\ accounts = {} /\ handlers = {0}
    /\ signInSeq = 0 /\ cancelSignIn = None
    /\ worker = [n \in Attempt |-> "none"] /\ stopped = {}
    /\ closing = "open"
    /\ play = NoPlay /\ packControl = None /\ packJoin = 0 /\ delivered = {}
    /\ pc = [p \in Play |-> "idle"]
    /\ ctl = [p \in Play |-> None] /\ join = [p \in Play |-> 0]
    /\ through = [p \in Play |-> 0] /\ waitsFor = [p \in Play |-> NoPlay]

closed == closing # "open"

\* The context of a controller, which relay.ctx is the parent of.
Live(g) == open /\ g \notin cancelled

\* A controller is the account's until it is replaced or retired, and either cancels it.
Current(g) == g = generation /\ Live(g)

Goto(p, place) == pc' = [pc EXCEPT ![p] = place]

\* A play handler returns and its locals are gone.
Return(p) ==
    /\ Goto(p, "idle")
    /\ ctl' = [ctl EXCEPT ![p] = None] /\ join' = [join EXCEPT ![p] = 0]
    /\ through' = [through EXCEPT ![p] = 0] /\ waitsFor' = [waitsFor EXCEPT ![p] = NoPlay]

----------------------------------------------------------------------------
\* Mutant of openControl: the takeover does not wait for the account command in progress.
takeoverAtOnce ==
    /\ open /\ registered /\ ~closed /\ generation < MaxGen
    /\ generation' = generation + 1
    /\ cancelled' = cancelled \cup ({generation} \ {None})
    /\ control' = control \cup {generation + 1}
    /\ UNCHANGED <<open, registered, commands, reader, signInVars, closing, playVars>>

\* openControl: cancel the controller, if any, and hand out the next generation.
openControl ==
    /\ open /\ registered /\ ~closed /\ commands = None
    /\ generation < MaxGen
    /\ generation' = generation + 1
    /\ cancelled' = cancelled \cup ({generation} \ {None})
    /\ control' = control \cup {generation + 1}
    /\ UNCHANGED <<open, registered, commands, reader, signInVars, closing, playVars>>

\* runControl returns once its reader is done; the release closure cancels and detaches.
retire(g) ==
    /\ g \in control /\ reader[g].at = "idle"
    /\ cancelled' = cancelled \cup {g}
    /\ UNCHANGED <<open, registered, generation, commands, reader, signInVars, closing, playVars>>
    /\ control' = control \ {g}

\* The reader takes an account command; it stops when its context is cancelled.
readCommand(g, op) ==
    /\ g \in control /\ Live(g) /\ reader[g].at = "idle"
    /\ op = "sign_in" => signInSeq < MaxSeq
    /\ reader' = [reader EXCEPT ![g] = [op |-> op, at |-> "waiting"]]
    /\ UNCHANGED <<controlVars, signInVars, closing, playVars>>

\* applyAccount: session.commands first, then whether this controller is current, under
\* relay.mu; a sign-in may also be refused by the address's budget.
lockCommands(g) ==
    /\ reader[g].at = "waiting" /\ commands = None
    /\ commands' = g
    /\ reader' = [reader EXCEPT ![g].at = "locked"]
    /\ UNCHANGED <<open, registered, generation, cancelled, control, signInVars, closing, playVars>>

checkCurrent(g) ==
    /\ reader[g].at = "locked" /\ Current(g)
    /\ reader' = [reader EXCEPT ![g].at = "checked"]
    /\ UNCHANGED <<controlVars, signInVars, closing, playVars>>

Unlock(g) ==
    /\ commands' = None
    /\ reader' = [reader EXCEPT ![g] = [op |-> "none", at |-> "idle"]]

applyRefused(g) ==
    /\ reader[g].at = "locked" /\ (~Current(g) \/ reader[g].op = "sign_in")
    /\ Unlock(g)
    /\ UNCHANGED <<open, registered, generation, cancelled, control, signInVars, closing, playVars>>

\* SignIn and SignOut are refused on a closed account and during play.
Unclaimed == ~closed /\ play = NoPlay

\* A command the account's state refuses, or one with nothing to do.
commandRefused(g) ==
    /\ reader[g].at = "checked"
    /\ \/ ~Unclaimed
       \/ reader[g].op = "sign_in" /\ (cancelSignIn # None \/ auth.state = "signed_in")
    /\ Unlock(g)
    /\ UNCHANGED <<open, registered, generation, cancelled, control, signInVars, closing, playVars>>

SignIn(g) ==
    /\ reader[g] = [op |-> "sign_in", at |-> "checked"]
    /\ Unclaimed /\ cancelSignIn = None /\ auth.state # "signed_in"
    /\ signInSeq' = signInSeq + 1
    /\ cancelSignIn' = signInSeq + 1
    /\ worker' = [worker EXCEPT ![signInSeq + 1] = "asking"]
    /\ Unlock(g)
    /\ UNCHANGED <<open, registered, generation, cancelled, control, auth, account, handler, accounts,
                   handlers, stopped, closing, playVars>>

\* SignOut: forget the sign-in in progress and the account; a handler that cannot be built
\* leaves the account as it is.
SignOut(g) ==
    /\ reader[g] = [op |-> "sign_out", at |-> "checked"]
    /\ Unclaimed
    /\ stopped' = stopped \cup ({cancelSignIn} \ {None})
    /\ cancelSignIn' = None
    /\ Unlock(g)
    /\ \/ /\ account = None
          /\ auth' = [state |-> "signed_out", seq |-> 0]
          /\ UNCHANGED <<account, handler, accounts, handlers>>
       \/ /\ account # None
          /\ accounts' = accounts \ {account} /\ account' = None
          /\ handlers' = (handlers \ {handler}) \cup {-account} /\ handler' = -account
          /\ auth' = [state |-> "signed_out", seq |-> 0]
       \/ /\ account # None
          /\ UNCHANGED <<auth, account, handler, accounts, handlers>>
    /\ UNCHANGED <<open, registered, generation, cancelled, control, signInSeq, worker, closing, playVars>>

----------------------------------------------------------------------------
\* Mutant of currentSignInLocked: any sign-in in progress makes an older one current.
anySignInCurrent(n) == cancelSignIn # None /\ ~closed

currentSignInLocked(n) == cancelSignIn # None /\ signInSeq = n /\ ~closed

\* runSignIn: the prompt callback, ...
prompt(n) ==
    /\ worker[n] = "asking"
    /\ worker' = [worker EXCEPT ![n] = "prompted"]
    /\ auth' = IF currentSignInLocked(n) THEN [state |-> "awaiting_code", seq |-> n] ELSE auth
    /\ UNCHANGED <<controlVars, reader, account, handler, accounts, handlers, signInSeq, cancelSignIn,
                   stopped, closing, playVars>>

\* ... the answer, with the account and the handler built from it (a cancelled request may
\* still be answered) or the failure of any of the three, ...
answered(n) ==
    /\ worker[n] = "prompted"
    /\ worker' = [worker EXCEPT ![n] = "built"]
    /\ accounts' = accounts \cup {n} /\ handlers' = handlers \cup {n}
    /\ UNCHANGED <<controlVars, reader, auth, account, handler, signInSeq, cancelSignIn, stopped, closing,
                   playVars>>

failed(n) ==
    /\ worker[n] \in {"asking", "prompted"}
    /\ worker' = [worker EXCEPT ![n] = "failed"]
    /\ UNCHANGED <<controlVars, reader, auth, account, handler, accounts, handlers, signInSeq, cancelSignIn,
                   stopped, closing, playVars>>

\* ... and the outcome: a sign-in that is no longer wanted releases what it built.
Stale(n) == ~currentSignInLocked(n) \/ play # NoPlay

Finish(n) ==
    /\ worker' = [worker EXCEPT ![n] = "done"]
    /\ stopped' = stopped \cup {n}
    /\ cancelSignIn' = IF currentSignInLocked(n) THEN None ELSE cancelSignIn
    /\ UNCHANGED <<controlVars, reader, signInSeq, closing, playVars>>

\* Mutant of releaseSignIn: the unwanted handler is not closed.
releaseAccountOnly(n) ==
    /\ worker[n] \in {"built", "failed"} /\ Stale(n)
    /\ accounts' = accounts \ {n}
    /\ Finish(n)
    /\ UNCHANGED <<auth, account, handler, handlers>>

releaseSignIn(n) ==
    /\ worker[n] \in {"built", "failed"} /\ Stale(n)
    /\ accounts' = accounts \ {n} /\ handlers' = handlers \ {n}
    /\ Finish(n)
    /\ UNCHANGED <<auth, account, handler>>

failSignIn(n) ==
    /\ worker[n] = "failed" /\ ~Stale(n)
    /\ auth' = [state |-> "failed", seq |-> n]
    /\ Finish(n)
    /\ UNCHANGED <<account, handler, accounts, handlers>>

publishSignIn(n) ==
    /\ worker[n] = "built" /\ ~Stale(n)
    /\ handler' = n /\ account' = n
    /\ handlers' = handlers \ {handler}
    /\ auth' = [state |-> "signed_in", seq |-> n]
    /\ Finish(n)
    /\ UNCHANGED accounts

----------------------------------------------------------------------------
\* runPlay: playSession finds the current controller; attach.
playSession(p, j) ==
    /\ pc[p] = "idle" /\ generation # 0 /\ Current(generation)
    /\ ctl' = [ctl EXCEPT ![p] = generation] /\ join' = [join EXCEPT ![p] = j]
    /\ Goto(p, "found")
    /\ UNCHANGED <<controlVars, reader, signInVars, closing, play, packVars, through, waitsFor>>

playAttach(p) ==
    /\ pc[p] = "found" /\ ~closed
    /\ Goto(p, "attached")
    /\ UNCHANGED <<controlVars, reader, signInVars, closing, play, packVars, ctl, join, through,
                   waitsFor>>

\* A handler that holds nothing gives up: no budget, a cancelled context, a closed account.
playRefused(p) ==
    /\ pc[p] = "found"
    /\ Return(p)
    /\ UNCHANGED <<controlVars, reader, signInVars, closing, play, packVars>>

\* Mutant of Asking: the end of a play wakes nobody.
neverWoken(p) == pc[p] = "attached"

\* beginPlay is at the head of its loop, first or after the play it waited for has ended.
Asking(p) == pc[p] = "attached" \/ (pc[p] = "waiting" /\ play # waitsFor[p])

\* The sole play connection is taken by a live controller, and this join is not a newer one.
Busy(p) ==
    \/ cancelSignIn # None
    \/ /\ play # NoPlay /\ Live(ctl[play])
       /\ join[p] = 0 \/ (packControl = ctl[p] /\ join[p] <= packJoin)

beginPlay(p) ==
    /\ Asking(p) /\ Live(ctl[p]) /\ ~closed /\ ~Busy(p)
    /\ play = NoPlay
    /\ play' = p
    /\ through' = [through EXCEPT ![p] = handler]
    /\ Goto(p, "claimed")
    /\ UNCHANGED <<controlVars, reader, signInVars, closing, packVars, ctl, join, waitsFor>>

\* Mutant of awaitPlay: it does not ask whether there is a play to wait for.
awaitNoPlay(p) ==
    /\ Asking(p) /\ Live(ctl[p]) /\ ~closed /\ ~Busy(p)
    /\ waitsFor' = [waitsFor EXCEPT ![p] = play]
    /\ Goto(p, "waiting")
    /\ UNCHANGED <<controlVars, reader, signInVars, closing, play, packVars, ctl, join, through>>

awaitPlay(p) ==
    /\ Asking(p) /\ Live(ctl[p]) /\ ~closed /\ ~Busy(p)
    /\ play # NoPlay
    /\ waitsFor' = [waitsFor EXCEPT ![p] = play]
    /\ Goto(p, "waiting")
    /\ UNCHANGED <<controlVars, reader, signInVars, closing, play, packVars, ctl, join, through>>

\* beginPlay fails: the controller is cancelled (also during the wait), the account is closed
\* or busy.  The connection itself may be lost at any time.
beginPlayFails(p) ==
    /\ \/ pc[p] \in {"attached", "waiting"} /\ ~Live(ctl[p])
       \/ Asking(p) /\ (closed \/ Busy(p))
    /\ Goto(p, "leaving")
    /\ UNCHANGED <<controlVars, reader, signInVars, closing, play, packVars, ctl, join, through,
                   waitsFor>>

connectionLost(p) ==
    /\ pc[p] \in {"attached", "waiting"}
    /\ Goto(p, "leaving")
    /\ UNCHANGED <<controlVars, reader, signInVars, closing, play, packVars, ctl, join, through,
                   waitsFor>>

\* Mutant of claimPackJoin: only the last identity is refused, an older one is not.
claimOtherJoin(p) ==
    LET last == IF packControl = ctl[p] THEN packJoin ELSE 0 IN
    /\ pc[p] = "claimed" /\ join[p] # 0
    /\ packControl' = ctl[p]
    /\ IF join[p] = last
       THEN packJoin' = last /\ Goto(p, "finished") /\ UNCHANGED delivered
       ELSE /\ packJoin' = join[p] /\ Goto(p, "serving")
            /\ delivered' = delivered \cup {<<ctl[p], join[p]>>}
    /\ UNCHANGED <<controlVars, reader, signInVars, closing, play, ctl, join, through, waitsFor>>

\* claimPackJoin: a join identity is used once within a controller.
claimPackJoin(p) ==
    LET last == IF packControl = ctl[p] THEN packJoin ELSE 0 IN
    /\ pc[p] = "claimed" /\ join[p] # 0
    /\ packControl' = ctl[p]
    /\ IF join[p] <= last
       THEN packJoin' = last /\ Goto(p, "finished") /\ UNCHANGED delivered
       ELSE /\ packJoin' = join[p] /\ Goto(p, "serving")
            /\ delivered' = delivered \cup {<<ctl[p], join[p]>>}
    /\ UNCHANGED <<controlVars, reader, signInVars, closing, play, ctl, join, through, waitsFor>>

serveConn(p) ==
    /\ pc[p] = "claimed" /\ join[p] = 0
    /\ Goto(p, "serving")
    /\ UNCHANGED <<controlVars, reader, signInVars, closing, play, packVars, ctl, join, through,
                   waitsFor>>

\* The proxy handler returns: because the player leaves, or because the context is cancelled.
serveEnds(p) ==
    /\ pc[p] = "serving"
    /\ Goto(p, "finished")
    /\ UNCHANGED <<controlVars, reader, signInVars, closing, play, packVars, ctl, join, through,
                   waitsFor>>

endPlay(p) ==
    /\ pc[p] = "finished"
    /\ play' = NoPlay
    /\ Goto(p, "leaving")
    /\ UNCHANGED <<controlVars, reader, signInVars, closing, packVars, ctl, join, through,
                   waitsFor>>

detach(p) ==
    /\ pc[p] = "leaving"
    /\ Return(p)
    /\ UNCHANGED <<controlVars, reader, signInVars, closing, play, packVars>>

----------------------------------------------------------------------------
\* Mutant of Attached: only controllers count, a play connection does not.
controlAttached == control # {}

\* session.attached # 0
Attached == control # {} \/ \E p \in Play : pc[p] \notin {"idle", "found"}

\* expire, and Relay.Close once every handler has returned, unregister the account ...
expire ==
    /\ registered /\ commands = None /\ ~Attached
    /\ registered' = FALSE
    /\ UNCHANGED <<open, generation, cancelled, control, commands, reader, signInVars, closing, playVars>>

cancel ==
    /\ open /\ open' = FALSE
    /\ UNCHANGED <<registered, generation, cancelled, control, commands, reader, signInVars, closing, playVars>>

Close ==
    /\ ~open /\ registered
    /\ control = {} /\ \A p \in Play : pc[p] = "idle"
    /\ registered' = FALSE
    /\ UNCHANGED <<open, generation, cancelled, control, commands, reader, signInVars, closing, playVars>>

\* Mutant of close: the sign-in in progress is not cancelled.
closeWithoutCancel ==
    /\ ~registered /\ closing = "open"
    /\ closing' = "closing"
    /\ accounts' = accounts \ {account} /\ account' = None
    /\ UNCHANGED <<controlVars, reader, auth, handler, handlers, signInSeq, cancelSignIn, worker, stopped,
                   playVars>>

\* ... then close it: stop the sign-in and erase the account, wait for the workers, close the
\* handler.
close ==
    /\ ~registered /\ closing = "open"
    /\ closing' = "closing"
    /\ stopped' = stopped \cup ({cancelSignIn} \ {None})
    /\ accounts' = accounts \ {account} /\ account' = None
    /\ UNCHANGED <<controlVars, reader, auth, handler, handlers, signInSeq, cancelSignIn, worker, playVars>>

closeHandler ==
    /\ closing = "closing" /\ \A n \in Attempt : worker[n] \in {"none", "done"}
    /\ closing' = "closed"
    /\ handlers' = handlers \ {handler}
    /\ UNCHANGED <<controlVars, reader, auth, account, handler, accounts, signInSeq, cancelSignIn, worker,
                   stopped, playVars>>

ControlNext ==
    \/ openControl
    \/ \E g \in Gen : \/ retire(g)
                      \/ \E op \in Op : readCommand(g, op)
                      \/ lockCommands(g) \/ checkCurrent(g) \/ applyRefused(g) \/ commandRefused(g)
                      \/ SignIn(g) \/ SignOut(g)

SignInNext ==
    \E n \in Attempt : \/ prompt(n) \/ answered(n) \/ failed(n)
                   \/ releaseSignIn(n) \/ failSignIn(n) \/ publishSignIn(n)

PlayNext ==
    \E p \in Play : \/ \E j \in 0 .. MaxJoin : playSession(p, j)
                    \/ playAttach(p) \/ playRefused(p) \/ beginPlay(p) \/ awaitPlay(p)
                    \/ beginPlayFails(p) \/ connectionLost(p) \/ claimPackJoin(p) \/ serveConn(p)
                    \/ serveEnds(p) \/ endPlay(p) \/ detach(p)

CloseNext == expire \/ cancel \/ Close \/ close \/ closeHandler

Next == ControlNext \/ SignInNext \/ PlayNext \/ CloseNext

----------------------------------------------------------------------------
(* Fairness: goroutines run; a reader that waits for session.commands gets it (Go's mutex    *)
(* hands over to a starving waiter); a request or a proxy handler returns once its context   *)
(* is cancelled.  Nothing makes a browser send, leave or answer a prompt.                    *)
StopsWhenCancelled(n) == (n \in stopped \/ ~open) /\ failed(n)
EndsWhenCancelled(p) == ~Live(ctl[p]) /\ serveEnds(p)

Fairness ==
    /\ \A g \in Gen : /\ SF_vars(lockCommands(g))
                      /\ WF_vars(checkCurrent(g) \/ applyRefused(g))
                      /\ WF_vars(commandRefused(g) \/ SignIn(g) \/ SignOut(g))
    /\ \A n \in Attempt : /\ WF_vars(StopsWhenCancelled(n))
                      /\ WF_vars(releaseSignIn(n) \/ failSignIn(n) \/ publishSignIn(n))
    /\ \A p \in Play : /\ WF_vars(playAttach(p) \/ playRefused(p))
                       /\ WF_vars(beginPlay(p) \/ awaitPlay(p) \/ beginPlayFails(p))
                       /\ WF_vars(claimPackJoin(p) \/ serveConn(p))
                       /\ WF_vars(EndsWhenCancelled(p))
                       /\ WF_vars(endPlay(p))
                       /\ WF_vars(detach(p))
    /\ WF_vars(close) /\ WF_vars(closeHandler)

Spec == Init /\ [][Next]_vars /\ Fairness

----------------------------------------------------------------------------
AuthState == {"signed_out", "awaiting_code", "signed_in", "failed"}
PlayPlace == {"idle", "found", "attached", "waiting", "claimed", "serving", "finished", "leaving"}

\* Every variable keeps its type, a reader past the lock holds session.commands, and a waiting
\* play handler waits for a play.
TypeOK ==
    /\ open \in BOOLEAN /\ registered \in BOOLEAN
    /\ generation \in 0 .. MaxGen /\ cancelled \subseteq Gen /\ control \subseteq Gen
    /\ commands \in Gen \cup {None}
    /\ reader \in [Gen -> [op : {"none", "sign_in", "sign_out"},
                           at : {"idle", "waiting", "locked", "checked"}]]
    /\ \A g \in Gen : reader[g].at \in {"locked", "checked"} => commands = g
    /\ auth \in [state : AuthState, seq : Attempt \cup {0}]
    /\ account \in Attempt \cup {None} /\ handler \in Handler
    /\ accounts \subseteq Attempt /\ handlers \subseteq Handler
    /\ signInSeq \in 0 .. MaxSeq /\ cancelSignIn \in {None, signInSeq}
    /\ worker \in [Attempt -> {"none", "asking", "prompted", "built", "failed", "done"}]
    /\ stopped \subseteq Attempt
    /\ closing \in {"open", "closing", "closed"}
    /\ play \in Play \cup {NoPlay} /\ packControl \in Gen \cup {None} /\ packJoin \in 0 .. MaxJoin
    /\ delivered \subseteq Gen \X (1 .. MaxJoin)
    /\ pc \in [Play -> PlayPlace] /\ ctl \in [Play -> Gen \cup {None}]
    /\ join \in [Play -> 0 .. MaxJoin] /\ through \in [Play -> Handler]
    /\ waitsFor \in [Play -> Play \cup {NoPlay}]
    /\ \A p \in Play : pc[p] = "waiting" => waitsFor[p] # NoPlay

\* The one play connection keeps the handler and the account it joined with: no account
\* command, sign-in outcome or closing of the account replaces or closes the handler under it.
PlayUndisturbed ==
    \A p \in Play : pc[p] \in {"claimed", "serving", "finished"} =>
        play = p /\ through[p] = handler /\ handler \in handlers /\ ~closed

\* applyAccount "orders account commands with controller takeover so retired readers cannot
\* mutate it": a command that passed the check is of the newest controller when it applies.
CommandIsNewest == \A g \in Gen : reader[g].at = "checked" => g = generation

\* SignOut, a later SignIn or closing makes a sign-in's prompt and outcome stale: the account
\* state the browser sees is that of the account held and of the sign-in in progress.
AuthIsCurrent ==
    ~closed => /\ auth.state = "signed_in" <=> account # None
               /\ auth.state = "signed_in" => auth.seq = account
               /\ auth.state = "awaiting_code" => auth.seq = cancelSignIn

\* Every account and handler ever built is the session's, is still with the worker that built
\* it, or is closed: a stale sign-in, a sign-out and close leave no credentials in memory.
NothingLeaks ==
    LET building == {n \in Attempt : worker[n] = "built"} IN
    /\ accounts = ({account} \ {None}) \cup building
    /\ handlers = (IF closing = "closed" THEN {} ELSE {handler}) \cup building

\* claimPackJoin "rejects reused identities within one controller before publishing any
\* archive": the joins a controller's archives are published under increase, also across
\* takeovers.
JoinsIncrease ==
    [][\A p \in Play : pc[p] = "claimed" /\ pc'[p] = "serving" /\ join[p] # 0 =>
         \A d \in delivered : d[1] = ctl[p] => d[2] < join[p]]_vars

\* A join that waits for a cancelled controller's play to finish is not forgotten: it stops
\* waiting, or a live controller has the play.
PlayHandedOver ==
    \A p \in Play : pc[p] = "waiting" ~> (pc[p] # "waiting" \/ (play # NoPlay /\ Live(ctl[play])))

\* close returns, whatever sign-ins were running.
CloseReturns == closing = "closing" ~> closing = "closed"
=============================================================================
