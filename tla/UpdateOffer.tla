---------------------------- MODULE UpdateOffer ----------------------------
(***************************************************************************)
(* crates/launcher-host/src/lifecycle/update.rs and update/worker.rs: the  *)
(* offer a client makes, the user's decisions about it, release notices,   *)
(* and the one worker thread that checks, downloads and publishes.         *)
(*                                                                         *)
(* A critical section of STATE is one step.  The worker carries the        *)
(* preferences and the generation it was started with; mine says whether   *)
(* that is still State.generation, which is all the code asks of it.  What *)
(* the servers answer and when an envelope expires is free.  UpdateStage   *)
(* has the steps of the promotion, here one.                               *)
(***************************************************************************)
EXTENDS Integers

CONSTANTS
    Build,      \* a release with the expiry of its envelope, in the order of supersedes
    Track,      \* the channel a release is published on
    Installed,  \* the running build
    Legacy,     \* build 0 of its version, which notices without a build number name
    RETRIES,
    None

ASSUME OfferConstants ==
    /\ Build \subseteq Nat /\ Installed \in Nat \ Build /\ RETRIES \in Nat
    /\ Legacy \in Nat \ Build /\ Legacy < Installed
    /\ Track \in [Build -> {"beta", "nightly"}]
    /\ None \notin Nat /\ None \notin [build : Build, switch : BOOLEAN]
    /\ None \notin [build : Build \cup {Legacy}, attempts : 0 .. RETRIES]

VARIABLES
    channel, checks,    \* preferences (install_on_quit only changes the generation)
    updater, complete,  \* the updater role is held; startup is Complete
    offer,              \* State.ready
    requested,          \* an exit that installs the offer has been accepted
    switchNow, switchAvailable,
    checkNow, manualCheck,
    hint,               \* State.announcement
    calls,              \* worker::start(force) calls to come, made after STATE is unlocked
    step, w,            \* the worker and what it was started with; it is running unless "off"
    mine,               \* its generation is current
    ready,              \* disk: the release in the ready stage
    consented           \* history: the user chose Switch now on this channel

settings == <<channel, checks>>
wishes == <<switchNow, switchAvailable, checkNow, manualCheck>>
worker == <<step, w>>
vars == <<settings, updater, complete, offer, requested, wishes, hint, calls, worker, mine, ready, consented>>

Hint == [build : Build \cup {Legacy}, attempts : 0 .. RETRIES]
Idle == [mode |-> "none", switch |-> FALSE, channel |-> "beta", checks |-> FALSE, hint |-> None,
         retained |-> None, staged |-> None, selected |-> None, retried |-> FALSE, outcome |-> "ok"]

\* The state has its type; retries of a notice are bounded.
TypeOK ==
    /\ channel \in {"beta", "nightly"} /\ checks \in BOOLEAN
    /\ updater \in BOOLEAN /\ complete \in BOOLEAN /\ requested \in BOOLEAN /\ consented \in BOOLEAN
    /\ offer \in [build : Build, switch : BOOLEAN] \cup {None} /\ hint \in Hint \cup {None}
    /\ switchNow \in BOOLEAN /\ switchAvailable \in BOOLEAN /\ checkNow \in BOOLEAN /\ manualCheck \in BOOLEAN
    /\ calls \subseteq BOOLEAN /\ mine \in BOOLEAN /\ ready \in Build \cup {None}
    /\ step \in {"off", "wait", "look", "forget", "stage", "gate", "fetch", "decide", "transfer",
                 "promote", "publish", "finish"}
    /\ w \in [mode : {"none", "manual", "cached", "fresh", "scheduled"}, switch : BOOLEAN,
              channel : {"beta", "nightly"}, checks : BOOLEAN, hint : Hint \cup {None},
              retained : Build \cup {None}, staged : Build \cup {None},
              selected : Build \cup {None}, retried : BOOLEAN, outcome : {"ok", "failed", "behind"}]

\* A new process, with its saved preferences.
NewProcess ==
    /\ channel' \in {"beta", "nightly"} /\ checks' \in BOOLEAN
    /\ updater' = FALSE /\ complete' = FALSE /\ offer' = None /\ requested' = FALSE
    /\ switchNow' = FALSE /\ switchAvailable' = FALSE /\ checkNow' = FALSE /\ manualCheck' = FALSE
    /\ hint' = None /\ calls' = {} /\ step' = "off" /\ w' = Idle /\ mine' = FALSE /\ consented' = FALSE

Init ==
    /\ channel \in {"beta", "nightly"} /\ checks \in BOOLEAN
    /\ updater = FALSE /\ complete = FALSE /\ offer = None /\ requested = FALSE
    /\ switchNow = FALSE /\ switchAvailable = FALSE /\ checkNow = FALSE /\ manualCheck = FALSE
    /\ hint = None /\ calls = {} /\ step = "off" /\ w = Idle /\ mine = FALSE /\ consented = FALSE
    /\ ready = None

\* The client exits, whether or not an offer is handed to a helper, or dies.
restartClient == NewProcess /\ UNCHANGED ready

running == step # "off"

\* Nightly also follows beta.
accepts_release(c, b) == Track[b] = c \/ (c = "nightly" /\ Track[b] = "beta")

----------------------------------------------------------------------------
(* State *)

\* The updater role is taken when it is free; then, and when a check is due, one is started.
tick ==
    /\ ~running /\ ~requested /\ (updater => checks)
    /\ updater' = TRUE /\ calls' = calls \cup {FALSE}
    /\ UNCHANGED <<settings, complete, offer, requested, wishes, hint, worker, mine, ready, consented>>

acknowledge_startup ==
    /\ ~complete /\ complete' = TRUE /\ checkNow' = TRUE /\ calls' = calls \cup {FALSE}
    /\ UNCHANGED <<settings, updater, offer, requested, switchNow, switchAvailable, manualCheck, hint,
                   worker, mine, ready, consented>>

\* Mutant of configure: a worker started for the old preferences goes on.
configureQuietly(c, k) ==
    /\ ~requested
    /\ channel' = c /\ checks' = k /\ manualCheck' = FALSE
    /\ calls' = calls \cup {c # channel}
    /\ hint' = IF c # channel \/ ~k THEN None ELSE hint
    /\ IF c = channel THEN UNCHANGED <<offer, switchNow, switchAvailable, consented>>
       ELSE offer' = None /\ switchNow' = FALSE /\ switchAvailable' = FALSE /\ consented' = FALSE
    /\ UNCHANGED <<updater, complete, requested, checkNow, worker, mine, ready>>

\* A changed preference, install_on_quit if neither of these, cancels the worker; another channel clears consent.
configure(c, k) ==
    /\ ~requested
    /\ channel' = c /\ checks' = k /\ manualCheck' = FALSE /\ mine' = FALSE
    /\ calls' = calls \cup {c # channel}
    /\ hint' = IF c # channel \/ ~k THEN None ELSE hint
    /\ IF c = channel THEN UNCHANGED <<offer, switchNow, switchAvailable, consented>>
       ELSE offer' = None /\ switchNow' = FALSE /\ switchAvailable' = FALSE /\ consented' = FALSE
    /\ UNCHANGED <<updater, complete, requested, checkNow, worker, ready>>

request_check ==
    /\ updater /\ ~requested /\ ~running /\ complete
    /\ manualCheck' = TRUE /\ checkNow' = TRUE /\ calls' = calls \cup {FALSE}
    /\ UNCHANGED <<settings, updater, complete, offer, requested, switchNow, switchAvailable, hint,
                   worker, mine, ready, consented>>

request_switch ==
    /\ updater /\ ~requested /\ switchAvailable
    /\ switchNow' = TRUE /\ switchAvailable' = FALSE /\ mine' = FALSE /\ consented' = TRUE
    /\ calls' = calls \cup {TRUE}
    /\ UNCHANGED <<settings, updater, complete, offer, requested, checkNow, manualCheck, hint, worker, ready>>

\* Restart, or a quit that applies the update: for a release that is newer and has not expired.
request_restart ==
    /\ updater /\ ~requested /\ offer # None /\ offer.build > Installed
    /\ requested' = TRUE /\ mine' = FALSE
    /\ UNCHANGED <<settings, updater, complete, offer, wishes, hint, calls, worker, ready, consented>>

\* A notice of a newer release of this channel, or one without a build number of this version.
release_published(b) ==
    /\ checks /\ (b = Legacy \/ (b > Installed /\ Track[b] = channel))
    /\ hint # None => b > hint.build
    /\ hint' = [build |-> b, attempts |-> 0] /\ calls' = calls \cup {FALSE}
    /\ UNCHANGED <<settings, updater, complete, offer, requested, wishes, worker, mine, ready, consented>>

----------------------------------------------------------------------------
(* worker::start *)

\* Mutant of FetchMode: a notice does not make a check due.
fetchModeIgnoresHint(force) ==
    IF manualCheck THEN "manual" ELSE IF force THEN "cached" ELSE IF checkNow THEN "fresh" ELSE "scheduled"

FetchMode(force) ==
    IF manualCheck THEN "manual" ELSE IF force THEN "cached"
    ELSE IF checkNow \/ hint # None THEN "fresh" ELSE "scheduled"

\* One worker at a time.  It leaves a notice alone when it is not started for it.
start(force) ==
    LET mayRun == updater /\ ~running /\ ~requested /\ complete
        taken == IF force \/ checkNow THEN None ELSE hint
    IN
    /\ force \in calls /\ calls' = calls \ {force}
    /\ IF mayRun
       THEN /\ checkNow' = FALSE /\ manualCheck' = FALSE /\ mine' = TRUE
            /\ step' = IF taken = None THEN "look" ELSE "wait"
            /\ w' = [Idle EXCEPT !.mode = FetchMode(force), !.switch = switchNow, !.channel = channel,
                                 !.checks = checks, !.hint = taken]
       ELSE UNCHANGED <<checkNow, manualCheck, worker, mine>>
    /\ UNCHANGED <<settings, updater, complete, offer, requested, switchNow, switchAvailable, hint, ready,
                   consented>>

memory == <<settings, updater, complete, requested, checkNow, manualCheck, hint, calls, mine, consented>>

\* Mutant of accepts_worker: there is only one worker, so it is this one.
acceptsAny == TRUE

accepts_worker == mine /\ ~requested

Ends(outcome) == step' = "finish" /\ w' = [w EXCEPT !.outcome = outcome]

\* wait_announcement: the delay is over; a later notice has taken the place of the one awaited.
wait_announcement ==
    /\ step = "wait" /\ step' = "look"
    /\ w' = [w EXCEPT !.hint = IF ~accepts_worker THEN None ELSE IF hint # None THEN hint ELSE @]
    /\ UNCHANGED <<memory, offer, switchNow, switchAvailable, ready>>

\* run fails: the directory, the lease, a request, an expired or damaged download.
runFails ==
    /\ step \in {"look", "forget", "stage", "gate", "fetch", "decide", "transfer", "promote", "publish"}
    /\ Ends("failed")
    /\ UNCHANGED <<memory, offer, switchNow, switchAvailable, ready>>

\* retry_missing: what the manifest names, or the manifest itself, is gone; once more from the top.
retry_missing ==
    /\ step \in {"fetch", "transfer"} /\ ~w.retried /\ accepts_worker
    /\ step' = "look" /\ w' = [w EXCEPT !.retried = TRUE, !.staged = None, !.selected = None]
    /\ UNCHANGED <<memory, offer, switchNow, switchAvailable, ready>>

----------------------------------------------------------------------------
(* run *)

\* retained_manifest: the offer, unless it has expired.
retained_manifest ==
    /\ step = "look"
    /\ IF offer = None
       THEN step' = "stage" /\ w' = [w EXCEPT !.retained = None]
       ELSE \/ step' = "stage" /\ w' = [w EXCEPT !.retained = offer.build, !.staged = offer.build]
            \/ step' = "forget" /\ w' = [w EXCEPT !.retained = offer.build]
    /\ UNCHANGED <<memory, offer, switchNow, switchAvailable, ready>>

forgetOffer ==
    /\ step = "forget" /\ step' = "stage" /\ UNCHANGED w
    /\ offer' = IF accepts_worker THEN None ELSE offer
    /\ UNCHANGED <<memory, switchNow, switchAvailable, ready>>

\* Selection::verify, but for the expiry.
Permitted(b) == accepts_release(w.channel, b) /\ (w.switch \/ b > Installed)
supersedes(b, switch) == ~switch /\ w.staged # None => b > w.staged

\* State::offer
Offers(b) ==
    IF accepts_worker
    THEN offer' = [build |-> b, switch |-> w.switch] /\ switchAvailable' = FALSE
    ELSE UNCHANGED <<offer, switchAvailable>>

\* The stage on disk, when it verifies (its expiry is free) and beats the offer.
publishStage ==
    /\ step = "stage" /\ step' = "gate"
    /\ \/ /\ ready # None /\ Permitted(ready) /\ supersedes(ready, FALSE)
          /\ w' = [w EXCEPT !.staged = ready] /\ Offers(ready)
       \/ UNCHANGED <<w, offer, switchAvailable>>
    /\ UNCHANGED <<memory, switchNow, ready>>

\* set_switch_offer, for the current generation
set_switch_offer(available) ==
    switchAvailable' = IF mine /\ ~switchNow THEN available ELSE switchAvailable

\* Nothing may be fetched, or it is not due and the cached manifest has the last answer.
gate ==
    /\ step = "gate"
    /\ \/ /\ (~w.checks /\ ~w.switch /\ w.mode # "manual") \/ ~accepts_worker
          /\ Ends("ok") /\ UNCHANGED switchAvailable
       \/ /\ w.checks \/ w.switch \/ w.mode = "manual"
          /\ accepts_worker
          /\ \/ /\ w.mode = "scheduled" /\ ~w.switch /\ Ends("ok")
                /\ \E older \in BOOLEAN : set_switch_offer(older /\ w.staged = None)
             \/ step' = "fetch" /\ UNCHANGED <<w, switchAvailable>>
    /\ UNCHANGED <<memory, offer, switchNow, ready>>

\* releases::select: a cached or served manifest of the channel.
select(b) ==
    /\ step = "fetch" /\ accepts_worker /\ accepts_release(w.channel, b)
    /\ step' = "decide" /\ w' = [w EXCEPT !.selected = b]
    /\ UNCHANGED <<memory, offer, switchNow, switchAvailable, ready>>

\* record: the stamp of the check is the last thing that can fail.
Recorded == \E outcome \in {"ok", "failed"} : Ends(outcome)

\* Behind its notice, nothing newer, or something to get.
decide ==
    LET b == w.selected IN
    /\ step = "decide"
    /\ IF w.hint # None /\ w.hint.build > b
       THEN Ends("behind") /\ UNCHANGED switchAvailable
       ELSE /\ set_switch_offer(w.staged = None /\ b < Installed)
            /\ IF (w.switch \/ b > Installed) /\ supersedes(b, w.switch)
               THEN step' = "transfer" /\ UNCHANGED w
               ELSE Recorded
    /\ UNCHANGED <<memory, offer, switchNow, ready>>

\* The payload is here or has been downloaded while the worker was active, ...
transfer ==
    /\ step = "transfer" /\ accepts_worker /\ step' = "promote"
    /\ UNCHANGED <<w, memory, offer, switchNow, switchAvailable, ready>>

\* ... it becomes the ready stage, unless the snapshot of the retained offer has it, ...
promote ==
    /\ step = "promote" /\ step' = "publish"
    /\ ready' = w.selected \/ (w.retained = w.selected /\ UNCHANGED ready)
    /\ UNCHANGED <<w, memory, offer, switchNow, switchAvailable>>

\* ... and is offered.
publish ==
    /\ step = "publish" /\ Recorded /\ Offers(w.selected)
    /\ UNCHANGED <<memory, switchNow, ready>>

----------------------------------------------------------------------------
\* Only the notice this worker took is retried or dropped.
finish_announcement ==
    hint' = IF w.hint = None \/ hint # w.hint THEN hint
            ELSE IF w.outcome = "behind" /\ hint.attempts < RETRIES
                 THEN [hint EXCEPT !.attempts = @ + 1]
            ELSE None

\* Mutant of finish: a check that ends leaves whatever came during it to the next poll.
finishWithoutPending ==
    /\ step = "finish" /\ step' = "off" /\ w' = Idle /\ finish_announcement
    /\ calls' = IF mine THEN calls ELSE calls \cup {TRUE}
    /\ switchNow' = (switchNow /\ ~(mine /\ w.switch))
    /\ switchAvailable' = IF mine /\ w.switch THEN w.outcome # "ok" ELSE switchAvailable
    /\ mine' = FALSE
    /\ UNCHANGED <<settings, updater, complete, offer, requested, checkNow, manualCheck, ready, consented>>

\* finish_announcement and finish_check, and the start that follows them.
finish ==
    /\ step = "finish" /\ step' = "off" /\ w' = Idle /\ finish_announcement
    /\ calls' = IF ~mine THEN calls \cup {TRUE}
                ELSE IF checkNow \/ hint' # None THEN calls \cup {FALSE} ELSE calls
    /\ switchNow' = (switchNow /\ ~(mine /\ w.switch))
    /\ switchAvailable' = IF mine /\ w.switch THEN w.outcome # "ok" ELSE switchAvailable
    /\ mine' = FALSE
    /\ UNCHANGED <<settings, updater, complete, offer, requested, checkNow, manualCheck, ready, consented>>

Next ==
    \/ restartClient
    \/ tick \/ acknowledge_startup \/ request_check \/ request_switch \/ request_restart
    \/ \E c \in {"beta", "nightly"}, k \in BOOLEAN : configure(c, k)
    \/ \E b \in Build \cup {Legacy} : release_published(b)
    \/ \E force \in BOOLEAN : start(force)
    \/ wait_announcement \/ runFails \/ retry_missing
    \/ retained_manifest \/ forgetOffer \/ publishStage \/ gate \/ decide \/ transfer \/ promote \/ publish
    \/ \E b \in Build : select(b)
    \/ finish

Spec == Init /\ [][Next]_vars

----------------------------------------------------------------------------
(* Properties *)

\* Whatever was asked of an idle updater has a start to come: no check, switch or notice is
\* left for a poll hours later because it came while a worker ran or before the role was held
\* (worker.rs start: "A notice that arrived during this check may name a release it started too
\* early to see").
NoWorkLost ==
    (checkNow \/ switchNow \/ hint # None) /\ updater /\ complete /\ ~requested /\ ~running => calls # {}

\* The offer is a release of the selected channel, and older than the installed one only by the
\* user's choice on this channel, however a worker that began before a change ends
\* (docs/updating.md: "Changing channels never silently downgrades").
OfferChosen ==
    offer # None => accepts_release(channel, offer.build) /\ (offer.build < Installed => consented)

\* An offer gives way only to a newer release, a switch, or a new look at its expiry; and once an
\* exit has been accepted it does not change at all (request_restart: "Freezes the offered stage
\* and cancels background work before accepting shutdown").
OfferAdvances ==
    [][offer # None /\ offer' # offer /\ complete' =>
        /\ ~requested
        /\ offer' # None /\ ~offer'.switch => offer'.build > offer.build]_vars

\* A notice is given up only for a later one, another channel, checks turned off, or after its
\* worker has asked the server, has failed, or was cancelled.  The last is the code's:
\* finish_announcement does not look at the generation, and the worker that follows may be
\* content with the cached manifest.
NoticeFollowed ==
    [][hint # None /\ hint' = None =>
        \/ ~complete' \/ channel' # channel \/ ~checks'
        \/ w.selected # None \/ w.outcome = "failed" \/ ~mine]_vars
=============================================================================
