# TLA+ models of cinnabar

cinnabar is a Minecraft Bedrock client. A Rust program draws the game; a Go process (`core/`)
talks to servers and to Microsoft; a browser build reaches the same Go code through a relay
(`core/webrelay`), and an installed client replaces itself with a newer one
(`crates/update-installer`). This directory models the parts of it that keep state across
concurrency, failure or time, checks the models with TLC and proves the central facts with TLAPS.
The source is the reference: a definition keeps the name of the function it stands for, and
`PROJECT.json` gives its lines.

## Inventory

| Part | State | Operations | What is hard |
| --- | --- | --- | --- |
| `core/webrelay` relay.go, resume.go | accounts by address, bearers to accounts, one controller per account, slots per address | open or resume control, keepalive and its answer, play, expire, close | every connection is a goroutine; `openControl` gives up `relay.mu` to wait for `session.commands` |
| `core/webrelay` session.go, play.go, control.go | the signed-in account, the handler built from it, one play connection, pack join identities | sign in, sign out, begin and end play, close | sign-in workers outlive the command that started them; plays wait for plays of replaced controllers |
| `core/webrelay` admission.go, tcp_admission.go, quic_admission.go, server.go | one slot per transport, references to it | admit, retain, drop, guard the Hello, close | transport, HTTP worker and handler end in any order; a deadline races the Hello |
| `web/transport` | state of the controller, two bearers, retries, refusal, play identity | select a transport, handshake, read events, open and finish play, restart, fresh session | bearers expire between attempts, two candidate transports, refusals that must not be retried |
| `crates/update-installer`, `launcher-host` lifecycle/update.rs | installed bundle, the bundle beside it, journal and receipt files, lock files | swap, launch, confirm, roll back, recover | every process may die between two file operations; clients of the old bundle still run |
| update staging (stage.rs) | partial files, the ready stage, workspaces of dead workers | download, promote, recover | any rename may fail, the worker may die between two |
| retained copies (helper.rs, handoff.rs) | copies of the helper and snapshots of a stage, lock files with readers, stamps | make, hand over, hold, prune | passes do not take the lease; a handoff races a pass that has already looked |
| update offer (update.rs, worker.rs) | preferences, the offer, accepted exit, pending requests, one worker | configure, check, switch, restart, notice, publish, finish | a worker acts for preferences that may have changed; requests come while it runs |
| `web/client` relay.rs | event queue around the controller | drive the session, pause, resume | cancelled futures |
| `core/packcache`, `core/authcache`, `core/xboxpresence`, `core/proxy` | files and tokens shared by joins, a heartbeat, the stages of a join | publish, refresh, retry, transfer | single flight, crash while publishing |
| `crates/client-world`, `chunk-pipeline`, `protocol` (blob cache) | chunks in preparation, blobs awaited | ingest in order, resolve, evict | results out of order |
| simulation, input, inventory, animation, rendering, UI, packs, assets, mods, diagnostics, tools | | | sequential, numeric, or input and output |

How they interact: a browser's `Session` opens a control connection to the relay, which the
admission code counts, `openControl` binds to an account and `runControl` keeps alive; a play
connection joins through the account's handler. Signing in, expiry and shutdown act on the same
account from goroutines of their own. The updater's parts meet on disk: a client that quits leaves
a helper process, the helper swaps the bundle and starts a client, that client confirms itself;
a lock file (the lease) orders them, and everything else they know is the files.

What makes each correct is what its properties say below. The things that can go wrong are listed,
each at its line, under `hazards` in `PROJECT.json`.

## Modules

| Module | Models | Composed of |
| --- | --- | --- |
| `WebRelay` | accounts, bearers, controllers, expiry, shutdown of the relay | |
| `WebSession` | one account: sign-ins, play, closing | |
| `RelayAdmission` | transport slots | |
| `RelayClient` | the browser's controller | |
| `RelayLink` | relay and browser over lossy, reordered connections | `WebRelay`, `RelayClient` |
| `UpdateInstaller` | swap, confirmation, rollback and recovery of an installation | |
| `UpdateStage` | download, promotion and recovery of the ready stage | |
| `HelperRetention` | copies and snapshots handed between processes, and their pruning | |
| `UpdateOffer` | the offer, the user's decisions, release notices and the worker | |
| `WebRelayProofs` | theorems about the relay, alone and joined to a browser | `RelayLink`, so `WebRelay` |
| `...Proofs` | theorems about the module of that name: `WebSession`, `RelayAdmission`, `RelayClient`, `UpdateInstaller`, `UpdateStage`, `HelperRetention`, `UpdateOffer` | that module |
| `MC...` | symmetry sets and constant functions for TLC | the module of that name |

Definitions whose comment begins with "Mutant of" are wrong on purpose. No specification uses
them; `PROJECT.json` pairs each with the definition it replaces and the property that then fails.

**WebRelay.** One step is one critical section of `relay.mu` or `session.mu`. `session.commands`
is held across several and is therefore state. A connection is a place `pc[c]`: `resumeSession`,
`newWebSession` or `controlSessionRefused` (the Hello), `attach`, `openControl` or
`openControlRefused` (after the wait, with the second lookup), `welcome`, `pingRotate`,
`acknowledge`, `retire`, `detach`; `playSession` and `playAttach` for a play. `expireStart` to
`expireDone` are one pass of `expire`. The time of a Hello is carried in `hello[c].now`, because
`openControl` uses its caller's time. Bearers are numbers in the order they are issued. The rate
limiter is a free choice to refuse.

**WebSession.** One account. `readCommand`, `lockCommands`, `checkCurrent` and `SignIn` or
`SignOut` are the steps of `applyAccount`; `prompt`, `answered`, `failed` and the three outcomes
are `runSignIn`; `Asking`, `Busy`, `beginPlay`, `awaitPlay` are the loop of `beginPlay`. A handler
is named by the sign-in or sign-out that built it, so that closing the wrong one shows. Takeover
and expiry are one step each here: `WebRelay` has their steps, and its `AttachedCounted` is what
allows `Attached` to be read off the handlers.

**RelayAdmission.** A slot has three owners: the transport, the HTTP worker and the request's
handler. `drop` and `release` are two steps, as in the code. `guardFires` and `guardCuts` are the
callback of `guardHello` and the close it calls. `TCP` and `QUIC` are the connections of the two
listeners.

**RelayClient.** `Session` takes one call at a time, so an action is a call, or the part of an
asynchronous one up to the answer of the relay. Tokens, generations and lifetimes come from the
environment: a relay may answer anything.

**RelayLink.** Each direction of a connection is a queue; connections are independent. A browser
that leaves a connection loses what is coming on it, but what it has sent may still be read, at any
later time. The clock stands still: the subject is which bearers the two sides hold.

**UpdateInstaller.** The disk is `target`, `backup`, `journal` (`.preparing`) and `receipt`
(`.started`); one change of it is one step, and `crash` and `exit` can come between any two.
`remove` may leave part of a directory. An installation is its identity, as the code compares it;
an identity is not used again while a file or a running process has it (`Used`). `startable` says
which bundles would reach their first frames, and is unknown to the processes. Renames and
exchanges may fail; `RollbackFails` is the second attempt of `after_exit`. A client observes its
bundle at any time after its start, as in the code; `mistaken` is a history variable, the bundles
that a client running another one has confirmed because it observed them too late.
Only macOS and Linux are modelled: Windows runs an MSI.

**UpdateStage.** One worker, since the lease keeps others out of the directory. The disk is `ready`,
the partial file of each release and `orphans`, the stages in the `stage-*` and `retired-*`
workspaces of workers that died or could not restore. Each rename of `Download::finish_with` is a
step with a success and a failure (`fill`, `retire`, `publish`, `restore`), `crash` comes between any
two, and `begin`, `recover`, `clear` are what the next run does first. A stage verifies or does not:
`Torn` is one without its artifact, an envelope lapses at any time, and `verify` also asks whether
the channel of this run accepts the release. A channel is the set of the releases it accepts; `begin`
reads it from the preferences, which may have changed. `promised` is the release last made ready,
until a run checks a channel that refuses it. The releases are those newer than the installed one: an explicit switch to an older
one replaces the stage on purpose, and is in `UpdateOffer`. `recover` deletes a complete newer
workspace when a destination exists, and a publication that fails throws a verified download away;
neither was promised.

**HelperRetention.** A copy is a directory that has its name, has been renamed to be discarded, or is
gone; its lock file is what processes lock, and a process that has opened it keeps it whatever happens
to the name. The client has two threads, the worker (which prunes and makes snapshots) and the one of
an exit or a manual download; both may be in `prune` at once. `look` and `open` to `delete` are one
copy's way through `prune` and `retire_idle_copy`, with the second look at the stamp under the lock
(`recheck`). `make`, `lockCopy`, `shareCopy`, `fill` are `retained_directory` and the copying that
follows. `spawn` hands a copy and a snapshot to a helper, whose `hold` and `hold_snapshot` open, lock
and look again. An offered snapshot is replaced or withdrawn (another channel, or it no longer
verifies), and the offer of a worker whose generation has passed is refused. Time is `fresh`: a copy leaves it when `HANDOFF_WINDOW` has passed. The lock fence of
Windows, where an open directory cannot be renamed, is not modelled.

**UpdateOffer.** A critical section of `STATE` is a step. `worker::start` is called after the lock is
given up, so calls that are still to come are state (`calls`, with their `force`). The worker carries
what it was started with in `w`; of the generation only `mine` is kept, whether it still is the
worker's. `retained_manifest` to `publish` are the steps of `run`, `finish` is the end of the thread.
A release stands for its build and the expiry of its envelope, in the order `supersedes` uses. Which
manifest a cache or server answers with, when an envelope expires and when a check is due are free
choices, so a property holds whatever they are. Writing the stamp of a check may fail
(`Recorded`); a selected release that the snapshot of the retained offer already holds leaves the
ready stage alone (`promote`). `Legacy` is the build of a notice without a build number: the running
version's build 0, below the installed build.

## Runs

| Run | Checks | Instance | Distinct states |
| --- | --- | --- | --- |
| `relay` | `TypeOK`, `BearersExact`, `SoleController`, `ControlledAccountKept`, `AddressesCounted`, `AttachedCounted` | 2 handlers, 2 accounts of at most 2, 2 addresses of 1 account each, clock to 2, 3 bearers | 1,781,258 |
| `session` | `TypeOK`, `PlayUndisturbed`, `CommandIsNewest`, `AuthIsCurrent`, `NothingLeaks`, `CloseReturns` | 2 controllers, 2 account commands, 1 play at a time | 360,310 |
| `session_play` | `JoinsIncrease`, `PlayHandedOver` | 2 controllers, 2 plays at a time, 2 join identities, no account command | 204,612 |
| `client` | `TypeOK`, `NoSilentFreshAccount`, `RefusalEndsSelection` | 2 attempts, 3 tokens, clock to 4 | 277,602 |
| `link` | `ConfirmedWasReceived`, `SomeBearerKept`, `AcknowledgedBearerKept` | 3 connections, 2 accounts, 5 bearers | 589,499 |
| `admission` | `TypeOK`, `SlotsExact`, `ErasedAfterHandlers`, `GuardSparesReady`, `CloseReturns`, `UnreadyReleased` | a TCP and a QUIC connection, 2 addresses, 2 slots, 1 per address | 67,649 |
| `update` | `TypeOK`, `PredecessorKept`, `JournalDecides`, `ConfirmedNotUndone` | 2 clients, 2 helpers, 2 bundles | 3,577,552 |
| `update_live` | `StartsInTheEnd` | 1 client, 1 helper, 2 bundles | 51,664 |
| `update_observe` | `PredecessorAlwaysKept` is violated | 2 clients, 1 helper, 3 bundles | |
| `stage` | `TypeOK`, `StageKept` | 3 releases, 2 channels | 47,248 |
| `retention` | `TypeOK`, `HeldPresent`, `WindowKept` | 3 copies, 2 threads, 1 helper | 996,874 |
| `offer` | `NoWorkLost`, `OfferChosen`, `OfferAdvances`, `NoticeFollowed` | an older and a newer beta, a newer nightly, 1 retry | 2,922,650 |

**Bounds.** Two handlers and two accounts are enough for a takeover, a refused takeover, a
resume into an account that is being expired, and a takeover that moves its account to another
address or is refused there, because the other account has that address's only place; three bearers
allow a resume, a rotation and a third that drops the first. With three connections `link` has an abandoned Hello, its successor and a resume after both; four connections
were checked as well (2.2 million states). In
`WebSession` a play that has ended can be made again, so its plays stand for any number of which
one or two overlap, and with two join identities a play that waited claims after one that came
later; `session` with two plays and joins (6.8 million states, without liveness) was
checked as well, and `session_play` with sign-outs (796,058 states). `Op` is the set of account
commands browsers send. In `update`
two clients are one that runs the old bundle and one of the new, and two helpers are a recovery and
an update that comes after it was decided; with a third bundle and one helper, an old client
survives two updates (9.1 million states, checked as well). `admission` has one connection of each kind, which
is what the liveness check affords; two of either kind in any combination were checked for safety
(291,326 states up to symmetry). `stage` needs three releases: one that is ready, one in the
workspace of a worker that died and a third being promoted; the two channels are one that accepts
all and one that refuses the newest. `retention` needs three copies: the
helper's, the snapshot it applies and one the other thread is making. `offer` needs a release older
than the installed one, one both channels accept and one only nightly does; the older one is a build
of the running version, and the same with one of an older version, below `Legacy`, was checked as
well (3.4 million states). The updater models have
no counters: updates, crashes, starts, preference changes and notices go on for ever. `MaxTime`, `MaxIssued`, `MaxGen`, `MaxSeq`, `MaxJoin`, `MaxClock`, `MaxToken`,
`MaxGeneration`, `Lifetime` and `MaxQueue` are the named bounds. Symmetry is over connections,
accounts, bundles, copies and processes, which no action names; runs with liveness use none. Deadlock is
not checked where the system ends: a relay that was closed, an account that was closed.

**Fairness.** `WebSession` and `RelayAdmission`: a goroutine that can run does (weak fairness per
step); a waiter for `session.commands` gets it although others want it too (strong fairness: Go's
mutex hands over to a starving waiter); a Microsoft request and a proxy handler return once their
context is cancelled. A peer is never assumed to send, answer or leave. `UpdateInstaller`: the user
starts the client again and closes it at some time, a start that fails runs
`recover_after_failed_start`, the helper runs on, and the faults (processes that die, renames that
fail, new updates) come to an end, `<>[][~Fault]_vars`. Strong fairness is needed for the steps
that need the lease or the updater role, which other clients hold now and then.

## What the runs show

* The bearer index is exact, an account has one live controller and is not forgotten under it, and
  the per-address and attachment counters are right, in every order of takeover, refusal, expiry
  and shutdown.
* A play keeps the handler it joined with. A sign-in that was overtaken publishes nothing and
  leaves nothing behind. A command of a replaced controller is not applied.
* A slot is returned exactly once, after its last owner; accounts are erased after the last
  handler; a Hello that is late does not keep a slot, one in time is not cut.
* A browser never asks for a second account by itself, and one of its bearers always works.
* The installed path is never empty; an interrupted swap can always be told from a finished one; a
  bundle that has not completed a startup has a whole predecessor beside it; a confirmed start is
  never rolled back; and once faults stop the installation starts. (The second and the last have the
  exception of `mistaken` bundles, below.)
* A release that was made ready is never lost before it expires, whichever renames fail and wherever
  the worker dies.
* A snapshot that is offered and the copies a helper has found are there as long as they are held;
  a copy handed over survives its window although passes that judged it idle are under way.
* No check, switch or notice is forgotten because it came while a worker ran; an offer belongs to
  the selected channel, is older than the installed build only by the user's choice, gives way only
  to a newer one, and does not change once an exit has been accepted.

Some properties state an exception, because the code has one:

* `PredecessorKept` and `StartsInTheEnd`. A bundle that a client running another one has confirmed
  (`mistaken`) has no predecessor and may never start. `PredecessorAlwaysKept` is the documentation's
  claim without the exception, and `update_observe` its counterexample.
* `AcknowledgedBearerKept`. `rotateLocked` keeps the bearer the Hello presents. When the Hello of a
  connection the browser gave up is read after the browser has resumed elsewhere and acknowledged
  the new bearer, the acknowledged bearer is dropped, although `docs/web-relay.md` says the relay
  "retains the acknowledged bearer at its original expiry". The browser still holds the older one
  (`SomeBearerKept`), but presents the newer, is refused and forgets both. Only a connection the
  browser no longer uses can do this.
* `WindowKept`. A pass that finds no lock file creates it and then goes by the stamp of the directory.
  If the owner was stopped for longer than the window between making the directory and opening its
  lock, and then fills the copy and hands it over before the pass has the lock, the pass retires it
  inside its window.
* `NoticeFollowed`. `finish_announcement` does not look at the generation: a preference that changes
  while a check for a notice runs cancels the check and drops the notice, and the check that follows
  may be content with the cached manifest, so that the release is found at the next poll. In the same
  way a cancelled manual check is not repeated as one. A forced start takes `check_now`
  too and may be content with the cache: `NoWorkLost` counts that as the check.

Not a property, but worth knowing: `openControl` looks its bearer up again after waiting for
`session.commands`, "the bearer or session may have expired while this controller waited", but with
the time of the Hello, so a bearer that expired during the wait is accepted.

One run contradicts a sentence of the repository (`findings` in `PROJECT.json`): `Startup::observe`
"captures the installed file or bundle identity before any helper can replace it", but the exchange
can come between the start of a process and its observation. If the helper then dies, a client of
the old bundle confirms the new one, which may never have started, and its predecessor is deleted.

## Proofs

Every invariant and action property of the runs is also a theorem, for every value of the
constants: any number of connections, accounts, addresses, clients, helpers, copies or releases,
and any limits and bounds. Each proof module states an inductive invariant (`IInv`, and `LinkInv`
for `RelayLink`), proves that `Init` implies it and that every action keeps it, one step per
action, and derives the properties. All of these invariants hold on the instances of the runs too,
where TLC checked them first.

**Assumptions.** Only what the modules assume of their constants: special values are not members of
the sets they stand beside, limits are naturals, and `Session`, `Conn` and the releases of
`UpdateStage` are finite sets, because the relay counts the first two and a stage is recovered as
the newest of the third. TLC evaluates these assumptions in every run. No theorem has a hypothesis
beyond them.

**WebRelay** (`TypeCorrect`, `BearersAreExact`, `ControllerIsSole`, `ControlKeepsAccount`,
`AttachedIsCounted`, `AddressesAreCounted`). `IInv` adds to the properties: `BearersIssued` (bearers
in the index were issued, so that the next one is new), `LockInv` (who holds `session.commands`, and
that a closed account is no longer registered), `VerdictInv` (what expire has seen under the lock
remains true until it acts) and `GenerationInv` (generations are handed out once, and only the last
can be live). None of the properties is inductive by itself: `SoleController` needs that generations
are unique, `ControlledAccountKept` needs `VerdictInv`, and `BearersExact` needs that a rotation's
new bearer is not yet in the index. `AddressesCounted` has an invariant of its own, `AddressInv`:
every account has an address, and so has every handler that may still move one to it. The lemmas
`AddressJoins`, `AddressMoves` and `AddressLeaves` are the three ways a count changes.

**RelayLink** (`LinkImplementsRelay`, `ConfirmedIsReceived`, `SomeBearerIsKept`,
`AcknowledgedIsKept`; in `WebRelayProofs`). `LinkImplementsRelay` says that the joined system
implements `WebRelay`: each of its steps is a step of the relay or leaves the relay alone, so what is
proved of the relay holds in it. `LinkInv` then says what is on its way:

* `DownInv`: the bearers coming to the browser are in the order they were issued, and of the
  generation of one controller.
* `UpInv`: whatever the relay reads, the browser had received before it sent it.
* `AccountInv`: a Hello without a bearer has an account to itself, and the previous bearer of an
  account is older than its current one.
* `WireInv`: the connection in use presents the browser's newest bearer until it is welcomed, and
  after that its controller's bearer is the newest one on its way.
* `KeptInv`, by the operator `Kept` of what the browser holds, what is coming, what it has received
  and the relay's index: whatever the relay still knows of what the browser has received, the browser
  still holds, and if more is on its way it is the newest it holds.

`SomeBearerKept` alone is not inductive: a rotation drops all but two bearers of the account, and
that one of the browser's two survives follows from what the relay believes the browser has.
`KeptRotates`, `KeptGrows` and `KeptReceives` are the lemmas about `Kept`: a rotation by the relay, a
bearer sent, a bearer received. `AcknowledgedBearerKept` follows because a Hello on the connection in
use presents the newest bearer the browser holds, and `Kept` leaves nothing newer.

**RelayClient** (`ClientTypeCorrect`, `FreshAccountIsDeliberate`, `RefusalIsFinal`), for anything a
relay may answer. The strengthening is `AccountRemembered`: a session that has had a bearer still has
one, or its resume was refused, or it is closed. A bearer that has expired stays, which is what keeps
an expiry from looking like a first visit.

**WebSession** (`TypeCorrect`, `PlayIsUndisturbed`, `CommandsAreNewest`, `AuthStaysCurrent`,
`NothingIsLeaked`, `JoinsOnlyIncrease`). `IInv` needs: every controller but the newest is cancelled
(`ControlInv`), what the session holds was built by a worker that is done (`WorkerInv`), a sign-in is
under way only while nobody is signed in and nobody plays (`SignInInv`), the play connection uses the
present handler (`PlayInv`), and joins are claimed in the order of the controllers (`PackInv`).

**RelayAdmission** (`TypeCorrect`, `SlotsAreExact`, `ErasedLast`, `ReadySpared`). `OwnersInv` makes
`refs` the number of owners, `GuardInv` says why a guard cuts, and `EraseInv` that no slot is given
out after the last came back. `SlotsExact` counts the set of connections that still have one.

**UpdateInstaller** (`TypeCorrect`, `JournalAlwaysDecides`, `ConfirmedIsNotUndone`,
`PredecessorIsKept`). `DiskInv` is the heart: with no backup, or with a receipt, the installed bundle
is good; otherwise the disk is before the exchange (`Disk1`) or after it (`Disk2`), the journal says
which, and the other of the two is good. It holds at every step, so it does not matter where a
process dies. `LeaseInv`, `ModeInv` and `HelperInv` say what a helper finds at each of its steps,
`WatchInv` that a startup marker belongs to the bundle the helper installed, `ClientInv` what a client
has proven. A bundle is good (`Good`) when it is whole, confirmed, and either proven by its own start
or `mistaken`: only a client whose observation was late can confirm one that is neither, which is why
the exception of `PredecessorKept` is no wider than the finding. Nothing is assumed of when a client
observes.

**UpdateStage** (`TypeCorrect`, `StageIsKept`). `KeptInv` is where the promised release can be: at
the destination, set aside by this worker, or set aside by a dead one and not yet looked for.

**HelperRetention** (`TypeCorrect`, `HeldIsPresent`, `WindowIsKept`). `ReaderInv` and `PlaceInv` put
shared and exclusive locks on the same lock file, `OwnInv` and `FullInv` say that a new copy is
nobody else's, and `StampInv` that a pass about to rename a copy sees its stamp, unless it created
the lock file.

**UpdateOffer** (`TypeCorrect`, `NoWorkIsLost`, `OfferIsChosen`, `OfferOnlyAdvances`,
`NoticeIsFollowed`). `MineInv`: a worker of the current generation has the preferences and requests
of now; `StepInv`: what it has found out by the step it is at.

**Only model-checked.** The liveness properties, `CloseReturns` of `WebSession` and of
`RelayAdmission`, `UnreadyReleased`, `PlayHandedOver` and `StartsInTheEnd`: the prover has no rules
for fairness and `ENABLED`.

## Not modelled

Frame formats, TLS, certificates, address classes and rates of the relay; the Microsoft services
and the game proxy behind a handler; the page's event loop in `web/client`; Windows updates; the
Linux manual copy, the stable channel and the wording of the update card.

Almost all of the repository's lines are the game itself: rendering and shader packs, geometry,
movement and animation in floating point, layout and screens, parsers and compilers of packs and
assets, generated protocol tables. That code is sequential, numeric or input and output; a
model of it would either repeat it or say nothing that its unit tests do not. So the share of all
lines that is modelled is small by design, and the models cover the code in which concurrency,
crashes and time decide. The list with reasons is `components` in `PROJECT.json`.

## Plan

1. Modelled: `WebRelay`, `WebSession`, `RelayAdmission`, `RelayClient`, `RelayLink`,
   `UpdateInstaller`, `UpdateStage`, `HelperRetention`, `UpdateOffer`.
2. Proved: every safety property of these, and that `RelayLink` implements `WebRelay`.
3. Worth proving next: that `WebRelay` implements an abstract account (an owner, its bearers, at most
   one controller) and `UpdateInstaller` an abstract installation (current, previous, confirmed).
4. Model when it is worth a run: `authcache` refresh flights; `packcache` publishing; the
   `web/client` driver over `RelayClient`; presence; the blob cache resolver; ordered ingestion in
   `client-world`.
