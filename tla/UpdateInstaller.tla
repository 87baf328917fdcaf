-------------------------- MODULE UpdateInstaller --------------------------
(***************************************************************************)
(* crates/update-installer (apply.rs, recovery.rs, lease.rs, main.rs) and  *)
(* the callers in crates/launcher-host/src/lifecycle/update.rs: swapping   *)
(* an installed bundle for a new one on macOS and Linux, confirming that   *)
(* the new one starts and rolling back when it does not.                   *)
(*                                                                         *)
(* The disk outlives every process.  One change of the disk is one step,   *)
(* so a helper or a client can die between any two.  File locks die with   *)
(* their process.                                                          *)
(***************************************************************************)
EXTENDS FiniteSets

CONSTANTS
    Install,         \* installations, as their identity (device and inode)
    Client, Helper,  \* processes
    None, Torn       \* nothing; a journal that was created and not yet written

ASSUME UpdateConstants ==
    /\ None # Torn /\ Client \cap Helper = {}
    /\ Install # {} /\ {None, Torn} \cap (Install \cup Client \cup Helper) = {}

VARIABLES
    target, backup,      \* the installed path and the path beside it
    journal, receipt,    \* backup.preparing and backup.started
    damaged,             \* installations an interrupted remove has begun to delete
    lease, updater,      \* holders of the writer lease and of updater.lock
    pc,                  \* what a process is at; "off" when it does not run
    code, seen, parent,  \* clients: what they run, Startup.metadata, the helper that watches them
    mode, work,          \* helpers: how far the attempt got; the candidate in the work directory
    marker,              \* helpers whose client wrote the started marker
    startable,           \* installations that reach their first frames
    proven, confirmed,   \* history: which did, and which were confirmed under the lease
    mistaken             \* history: those confirmed by a client that had observed them too late

disk    == <<target, backup, journal, receipt, damaged>>
client  == <<code, seen, parent>>
helper  == <<mode, work>>
history == <<startable, proven, confirmed, mistaken>>
vars == <<disk, lease, updater, pc, client, helper, marker, history>>

Proc == Client \cup Helper
ClientPC == {"off", "preparing", "probed", "confirming", "leased", "tidy", "running", "downloading"}
HelperPC == {"off", "wait", "verify", "swap", "write", "stage", "exchange", "unstage", "launch",
    "starting", "stopping", "receipt", "tidy", "rollback", "aside", "clear", "restore", "forget",
    "reopen", "recover"}

\* The installed path is never empty, and the other state has its type.
TypeOK ==
    /\ target \in Install /\ backup \in Install \cup {None}
    /\ journal \in Install \cup {None, Torn} /\ receipt \in BOOLEAN /\ damaged \subseteq Install
    /\ lease \in Proc \cup {None} /\ updater \in Client \cup {None}
    /\ \A c \in Client : pc[c] \in ClientPC
    /\ \A h \in Helper : pc[h] \in HelperPC
    /\ DOMAIN pc = Proc
    /\ code \in [Client -> Install \cup {None}] /\ seen \in [Client -> Install \cup {None}]
    /\ parent \in [Client -> Helper \cup {None}]
    /\ mode \in [Helper -> {"none", "apply", "touched", "undo", "recover"}]
    /\ work \in [Helper -> Install \cup {None}] /\ marker \subseteq Helper
    /\ startable \subseteq Install /\ proven \subseteq startable /\ confirmed \subseteq Install
    /\ mistaken \subseteq Install

Init ==
    /\ target \in Install /\ backup = None /\ journal = None /\ receipt = FALSE /\ damaged = {}
    /\ lease = None /\ updater = None /\ pc = [p \in Proc |-> "off"]
    /\ code = [c \in Client |-> None] /\ seen = [c \in Client |-> None]
    /\ parent = [c \in Client |-> None]
    /\ mode = [h \in Helper |-> "none"] /\ work = [h \in Helper |-> None] /\ marker = {}
    /\ startable = {target} /\ proven = {target} /\ confirmed = {target} /\ mistaken = {}

Go(p, to) == pc' = [pc EXCEPT ![p] = to]
Release(p) == lease' = IF lease = p THEN None ELSE lease

----------------------------------------------------------------------------
(* Steps of recovery.rs that both processes take under the lease *)

before_exchange == journal = target

\* remove(backup) deletes a directory entry by entry; an interrupted one leaves part of it.
remove ==
    \/ backup' = None /\ UNCHANGED damaged
    \/ damaged' = damaged \cup {backup} /\ UNCHANGED backup

\* confirm_start; a receipt that exists already is kept.
confirm_start ==
    /\ receipt' = TRUE /\ confirmed' = confirmed \cup {target}
    /\ UNCHANGED <<target, backup, journal, damaged, startable, proven>>

\* cleanup_confirmed_backup has nothing left to do.
Clean == ~receipt /\ (backup = None => journal = None)

\* Mutant of cleanup_confirmed_backup: the receipt goes before the backup it stands for.
cleanupReceiptFirst ==
    /\ ~Clean
    /\ IF receipt
       THEN receipt' = FALSE /\ UNCHANGED <<target, backup, journal, damaged>>
       ELSE journal' = None /\ UNCHANGED <<target, backup, receipt, damaged>>

\* One removal of cleanup_confirmed_backup: the backup, the journal, then the receipt.
cleanup_confirmed_backup ==
    /\ ~Clean
    /\ IF receipt /\ backup # None
       THEN remove /\ UNCHANGED <<target, journal, receipt>>
       ELSE IF journal # None
            THEN journal' = None /\ UNCHANGED <<target, backup, receipt, damaged>>
            ELSE receipt' = FALSE /\ UNCHANGED <<target, backup, journal, damaged>>

\* Mutant of exchange: two renames in place of the atomic one, seen between them.
exchangeByRename ==
    /\ target' = None /\ UNCHANGED <<backup, journal, receipt, damaged>>

exchange ==
    /\ target' = backup /\ backup' = target /\ UNCHANGED <<journal, receipt, damaged>>

----------------------------------------------------------------------------
(* The client *)

\* A start of what the installed path holds.  check_in_background observes its identity.
spawn(c, h) ==
    /\ pc[c] = "off" /\ code' = [code EXCEPT ![c] = target]
    /\ seen' = [seen EXCEPT ![c] = None]
    /\ parent' = [parent EXCEPT ![c] = h]

start(c) ==
    /\ spawn(c, None) /\ Go(c, "preparing")
    /\ UNCHANGED <<disk, lease, updater, helper, marker, history>>

\* Startup::observe looks at the installed path, which a helper may have replaced since the start.
observe(c) ==
    /\ pc[c] = "preparing" /\ seen[c] = None
    /\ seen' = [seen EXCEPT ![c] = target]
    /\ UNCHANGED <<disk, lease, updater, pc, code, parent, helper, marker, history>>

tick(c) ==
    /\ pc[c] # "off" /\ updater = None /\ updater' = c
    /\ UNCHANGED <<disk, lease, pc, client, helper, marker, history>>

\* The processes in P end: their locks are free, and what they were told is gone.
Gone(P) ==
    /\ lease' = IF lease \in P THEN None ELSE lease
    /\ updater' = IF updater \in P THEN None ELSE updater
    /\ code' = [c \in Client |-> IF c \in P THEN None ELSE code[c]]
    /\ seen' = [c \in Client |-> IF c \in P THEN None ELSE seen[c]]
    /\ parent' = [c \in Client |-> IF c \in P \/ parent[c] \in P THEN None ELSE parent[c]]

\* A client ends at any point: it is quit, it crashes or it is killed.
exit(c) ==
    /\ pc[c] # "off" /\ Go(c, "off") /\ Gone({c})
    /\ UNCHANGED <<disk, helper, marker, history>>

\* acknowledge_startup: the marker is written, then Startup.confirm waits for the lease.
acknowledge_startup(c) ==
    /\ pc[c] = "preparing" /\ seen[c] # None /\ code[c] \in startable
    /\ Go(c, "confirming")
    /\ proven' = proven \cup {code[c]} /\ marker' = marker \cup ({parent[c]} \cap Helper)
    /\ UNCHANGED <<disk, lease, updater, client, helper, startable, confirmed, mistaken>>

confirmAcquire(c) ==
    /\ pc[c] = "confirming" /\ lease = None /\ lease' = c /\ Go(c, "leased")
    /\ UNCHANGED <<disk, updater, client, helper, marker, history>>

\* The client runs another bundle than it observed, and no other start has proven this one.
Mistake(c) ==
    mistaken' = IF seen[c] = code[c] THEN mistaken ELSE mistaken \cup ({target} \ proven)

\* Mutant of confirmIdentity: whatever is installed now is confirmed.
confirmAnyIdentity(c) ==
    /\ pc[c] = "leased" /\ Go(c, "tidy") /\ UNCHANGED lease
    /\ IF backup # None THEN confirm_start /\ Mistake(c) ELSE UNCHANGED <<disk, history>>
    /\ UNCHANGED <<updater, client, helper, marker>>

\* Startup.confirm under the lease: another installation than the observed one is left alone.
confirmIdentity(c) ==
    /\ pc[c] = "leased"
    /\ IF target # seen[c]
       THEN Go(c, "running") /\ lease' = None /\ UNCHANGED <<disk, history>>
       ELSE /\ Go(c, "tidy") /\ UNCHANGED lease
            /\ IF backup # None THEN confirm_start /\ Mistake(c) ELSE UNCHANGED <<disk, history>>
    /\ UNCHANGED <<updater, client, helper, marker>>

confirmTidy(c) ==
    /\ pc[c] = "tidy"
    /\ \/ cleanup_confirmed_backup /\ UNCHANGED <<pc, lease>>
       \/ Clean /\ Go(c, "running") /\ lease' = None /\ UNCHANGED disk
    /\ UNCHANGED <<updater, client, helper, marker, history>>

\* The worker of a started client downloads under the lease.
download(c) ==
    /\ \/ pc[c] = "running" /\ updater = c /\ lease = None /\ lease' = c /\ Go(c, "downloading")
       \/ pc[c] = "downloading" /\ lease' = None /\ Go(c, "running")
    /\ UNCHANGED <<disk, updater, client, helper, marker, history>>

\* Mutant of needs_rollback: the test for the receipt is inverted.
needsConfirmed == backup # None /\ receipt /\ ~before_exchange /\ journal # Torn

\* needs_rollback as far as it looks at the disk, without the lease.
needs_rollback == backup # None /\ ~receipt /\ ~before_exchange /\ journal # Torn

\* recover_after_failed_start: a start that fails looks at the disk, and ...
probe(c) ==
    /\ pc[c] = "preparing" /\ updater = c /\ needs_rollback /\ Go(c, "probed")
    /\ UNCHANGED <<disk, lease, updater, client, helper, marker, history>>

\* ... when the lease is free as well, leaves a helper that acts once it has exited.
recover_after_failed_start(c, h) ==
    /\ pc[c] = "probed" /\ lease = None /\ pc[h] = "off"
    /\ pc' = [pc EXCEPT ![c] = "off", ![h] = "recover"] /\ mode' = [mode EXCEPT ![h] = "recover"]
    /\ Gone({c})
    /\ UNCHANGED <<disk, work, marker, history>>

\* apply_after_exit: the user accepted an update and the client has exited.
apply_after_exit(c, h) ==
    /\ pc[c] = "running" /\ updater = c /\ pc[h] = "off"
    /\ pc' = [pc EXCEPT ![c] = "off", ![h] = "wait"] /\ mode' = [mode EXCEPT ![h] = "apply"]
    /\ Gone({c})
    /\ UNCHANGED <<disk, work, marker, history>>

----------------------------------------------------------------------------
(* The helper *)

\* The helper ends; its client runs on.
End(h) ==
    /\ Go(h, "off") /\ Gone({h})
    /\ mode' = [mode EXCEPT ![h] = "none"] /\ work' = [work EXCEPT ![h] = None]
    /\ marker' = marker \ {h}

crash(h) ==
    /\ pc[h] # "off" /\ End(h) /\ UNCHANGED <<disk, history>>

\* after_exit returned an error: the lease is released and finish_apply restarts the client.
Fail(h) == Go(h, "reopen") /\ Release(h) /\ UNCHANGED <<updater, client, helper, marker>>

\* Lease::wait.
wait(h) ==
    /\ pc[h] = "wait"
    /\ IF lease = None THEN Go(h, "verify") /\ lease' = h
                       ELSE Go(h, "reopen") /\ UNCHANGED lease
    /\ UNCHANGED <<disk, updater, client, helper, marker, history>>

\* An inode is not reused while a file has it, or a process runs or remembers it.
Used == {target, backup} \cup {work[h] : h \in Helper} \cup {code[c] : c \in Client}
                         \cup {seen[c] : c \in Client}

\* The stage is refused or the installation is not writable; it is not newer; or it is unpacked
\* into the work directory.
verify(h) ==
    /\ pc[h] = "verify"
    /\ \/ Fail(h) /\ UNCHANGED <<disk, history>>
       \/ Go(h, "launch") /\ UNCHANGED <<disk, lease, updater, client, helper, marker, history>>
       \/ \E i \in Install \ Used : \E good \in SUBSET {i} :
            /\ Go(h, "swap") /\ work' = [work EXCEPT ![h] = i]
            /\ startable' = (startable \ {i}) \cup good
            /\ proven' = proven \ {i} /\ confirmed' = confirmed \ {i} /\ mistaken' = mistaken \ {i}
            /\ damaged' = damaged \ {i}
            /\ UNCHANGED <<target, backup, journal, receipt, lease, updater, client, mode, marker>>

\* swap: cleanup_confirmed_backup, then the journal is created.
swap(h) ==
    /\ pc[h] = "swap"
    /\ \/ cleanup_confirmed_backup /\ UNCHANGED <<pc, lease, updater, client, helper, marker>>
       \/ Clean /\ backup # None /\ Fail(h) /\ UNCHANGED disk
       \/ /\ Clean /\ backup = None /\ journal' = Torn /\ Go(h, "write")
          /\ UNCHANGED <<target, backup, receipt, damaged, lease, updater, client, helper, marker>>
    /\ UNCHANGED history

\* Mutant of prepare_exchange: no identity is recorded.
prepareNothing(h) ==
    /\ pc[h] = "write" /\ journal' = None /\ Go(h, "stage")
    /\ UNCHANGED <<target, backup, receipt, damaged, lease, updater, client, helper, marker, history>>

\* prepare_exchange: the identity is written and synced.
prepare_exchange(h) ==
    /\ pc[h] = "write" /\ journal' = target /\ Go(h, "stage")
    /\ UNCHANGED <<target, backup, receipt, damaged, lease, updater, client, helper, marker, history>>

\* The candidate is renamed to the backup path, or the rename fails.
stage(h) ==
    /\ pc[h] = "stage" /\ UNCHANGED <<target, receipt, damaged, history>>
    /\ \/ /\ backup' = work[h] /\ work' = [work EXCEPT ![h] = None] /\ Go(h, "exchange")
          /\ UNCHANGED <<journal, lease, updater, client, mode, marker>>
       \/ journal' = None /\ Fail(h) /\ UNCHANGED backup

\* The exchange succeeds, or the candidate goes back and the journal is removed.
swapExchange(h) ==
    /\ pc[h] = "exchange" /\ UNCHANGED <<lease, updater, client, marker, history>>
    /\ \/ /\ exchange /\ Go(h, "launch")
          /\ mode' = [mode EXCEPT ![h] = "touched"] /\ UNCHANGED work
       \/ /\ backup' = None /\ work' = [work EXCEPT ![h] = backup] /\ Go(h, "unstage")
          /\ UNCHANGED <<target, journal, receipt, damaged, mode>>

unstage(h) ==
    /\ pc[h] = "unstage" /\ journal' = None /\ Fail(h)
    /\ UNCHANGED <<target, backup, receipt, damaged, history>>

\* The start did not succeed: a swap is rolled back, an untouched installation is not.
NotStarted(h) ==
    IF mode[h] = "touched"
    THEN Go(h, "rollback") /\ UNCHANGED <<lease, updater, client, helper, marker>>
    ELSE Fail(h)

\* launch spawns the client with a marker of its own.
launch(h) ==
    /\ pc[h] = "launch" /\ UNCHANGED <<disk, history>>
    /\ \/ \E c \in Client :
            /\ spawn(c, h) /\ pc' = [pc EXCEPT ![c] = "preparing", ![h] = "starting"]
            /\ UNCHANGED <<lease, updater, helper, marker>>
       \/ NotStarted(h)

\* Monitor::poll finds the marker.
started(h) ==
    /\ pc[h] = "starting" /\ h \in marker /\ UNCHANGED <<disk, history>>
    /\ IF mode[h] = "touched"
       THEN Go(h, "receipt") /\ UNCHANGED <<lease, updater, client, helper, marker>>
       ELSE End(h)

\* It finds none: the client has exited or stalled.
stalled(h) ==
    /\ pc[h] = "starting" /\ h \notin marker /\ Go(h, "stopping")
    /\ UNCHANGED <<disk, lease, updater, client, helper, marker, history>>

\* Tree::stop returns once the client is gone, whatever it wrote in the meantime.
stop(h) ==
    /\ pc[h] = "stopping" /\ UNCHANGED <<disk, history>>
    /\ LET tree == {c \in Client : parent[c] = h} IN
       \/ /\ tree # {} /\ Gone(tree)
          /\ pc' = [p \in Proc |-> IF p \in tree THEN "off" ELSE pc[p]]
          /\ UNCHANGED <<helper, marker>>
       \/ tree = {} /\ NotStarted(h)

confirmStarted(h) ==
    /\ pc[h] = "receipt" /\ confirm_start /\ Go(h, "tidy")
    /\ UNCHANGED <<mistaken, lease, updater, client, helper, marker>>

tidy(h) ==
    /\ pc[h] = "tidy" /\ UNCHANGED history
    /\ \/ cleanup_confirmed_backup /\ UNCHANGED <<pc, lease, updater, client, helper, marker>>
       \/ Clean /\ End(h) /\ UNCHANGED disk

----------------------------------------------------------------------------
(* Rolling back *)

\* An error while rolling back: restore_with_lease tries once more after the start that failed.
RollbackFails(h) ==
    CASE mode[h] = "touched" -> /\ Go(h, "restore") /\ mode' = [mode EXCEPT ![h] = "undo"]
                                /\ UNCHANGED <<lease, updater, client, work, marker>>
      [] mode[h] = "undo"    -> Fail(h)
      [] mode[h] = "recover" -> End(h)

\* rollback: exchange, move the failed installation aside, remove the journal.
rollback(h) ==
    /\ pc[h] = "rollback" /\ UNCHANGED history
    /\ \/ /\ exchange /\ Go(h, "aside")
          /\ UNCHANGED <<lease, updater, client, helper, marker>>
       \/ RollbackFails(h) /\ UNCHANGED disk

aside(h) ==
    /\ pc[h] = "aside" /\ UNCHANGED <<target, journal, receipt, damaged, history>>
    /\ \/ /\ backup' = None /\ Go(h, "clear")
          /\ UNCHANGED <<lease, updater, client, helper, marker>>
       \/ RollbackFails(h) /\ UNCHANGED backup

\* clear_preparation; a recovery then starts the restored client, after its lease.
clear(h) ==
    /\ pc[h] = "clear" /\ journal' = None /\ Fail(h)
    /\ UNCHANGED <<target, backup, receipt, damaged, history>>

\* restore: the lease is taken or the recovery gives up.
recover(h) ==
    /\ pc[h] = "recover"
    /\ \/ /\ lease = None /\ lease' = h /\ Go(h, "restore")
          /\ UNCHANGED <<updater, client, helper, marker>>
       \/ lease # None /\ End(h)
    /\ UNCHANGED <<disk, history>>

\* Nothing was restored.
Unrestored(h) == IF mode[h] = "recover" THEN End(h) ELSE Fail(h)

\* restore_with_lease: a confirmed start is kept, a prepared candidate is deleted, a
\* predecessor is restored.
restore_with_lease(h) ==
    /\ pc[h] = "restore" /\ UNCHANGED history
    /\ \/ /\ backup = None \/ receipt \/ journal = Torn
          /\ Unrestored(h) /\ UNCHANGED disk
       \/ /\ backup # None /\ ~receipt /\ before_exchange
          /\ remove /\ UNCHANGED <<target, journal, receipt>>
          /\ pc' = [pc EXCEPT ![h] = IF backup' = None THEN "forget" ELSE "restore"]
          /\ UNCHANGED <<lease, updater, client, helper, marker>>
       \/ /\ backup # None /\ ~receipt /\ ~before_exchange /\ journal # Torn
          /\ Go(h, "rollback") /\ UNCHANGED <<disk, lease, updater, client, helper, marker>>

forget(h) ==
    /\ pc[h] = "forget" /\ journal' = None /\ Unrestored(h)
    /\ UNCHANGED <<target, backup, receipt, damaged, history>>

\* relaunch_retained, and the launch after a recovery; the helper has nothing more to decide.
reopen(h) ==
    /\ pc[h] = "reopen"
    /\ \/ \E c \in Client : /\ spawn(c, None)
                            /\ pc' = [pc EXCEPT ![c] = "preparing", ![h] = "off"]
       \/ Go(h, "off") /\ UNCHANGED client
    /\ mode' = [mode EXCEPT ![h] = "none"] /\ work' = [work EXCEPT ![h] = None]
    /\ marker' = marker \ {h}
    /\ UNCHANGED <<disk, lease, updater, history>>

----------------------------------------------------------------------------
ClientNext(c) ==
    \/ start(c) \/ observe(c) \/ tick(c) \/ exit(c) \/ acknowledge_startup(c)
    \/ confirmAcquire(c) \/ confirmIdentity(c) \/ confirmTidy(c) \/ download(c) \/ probe(c)
    \/ \E h \in Helper : recover_after_failed_start(c, h) \/ apply_after_exit(c, h)

HelperNext(h) ==
    \/ wait(h) \/ verify(h) \/ swap(h) \/ prepare_exchange(h) \/ stage(h) \/ swapExchange(h)
    \/ unstage(h) \/ launch(h) \/ started(h) \/ stalled(h) \/ stop(h) \/ confirmStarted(h)
    \/ tidy(h) \/ rollback(h) \/ aside(h) \/ clear(h) \/ recover(h) \/ restore_with_lease(h)
    \/ forget(h) \/ reopen(h)

Next ==
    \/ \E c \in Client : ClientNext(c)
    \/ \E h \in Helper : HelperNext(h) \/ crash(h)

Spec == Init /\ [][Next]_vars

\* What nobody promises to stop: processes that die, renames that fail, and new updates.
Fault ==
    \/ \E h \in Helper :
        \/ crash(h)
        \/ pc[h] \in {"stage", "exchange"} /\ pc'[h] \in {"reopen", "unstage"}
        \/ pc[h] \in {"rollback", "aside"} /\ pc'[h] \notin {"aside", "clear"}
    \/ \E c \in Client : exit(c) /\ pc[c] \notin {"running", "downloading"}
    \/ \E c \in Client, h \in Helper : apply_after_exit(c, h)

\* The user opens the client and closes it; a start that fails after check_in_background runs
\* recover_after_failed_start; the helper runs to its end, and gets the lease once it is free.
Fairness ==
    /\ \A c \in Client :
        /\ WF_vars(start(c)) /\ WF_vars(observe(c)) /\ WF_vars(tick(c))
        /\ WF_vars(exit(c) /\ pc[c] \in {"running", "downloading"})
        /\ WF_vars(acknowledge_startup(c))
        /\ SF_vars(confirmAcquire(c)) /\ WF_vars(confirmIdentity(c)) /\ WF_vars(confirmTidy(c))
        /\ WF_vars(pc[c] = "downloading" /\ download(c))
        /\ SF_vars(probe(c)) /\ SF_vars(\E h \in Helper : recover_after_failed_start(c, h))
    /\ \A h \in Helper : WF_vars(HelperNext(h))

\* Every behaviour in which the faults come to an end.
LiveSpec == Spec /\ Fairness /\ <>[][~Fault]_vars

----------------------------------------------------------------------------
(* Properties *)

\* A restore would put a whole predecessor whose startup was confirmed back.
Recoverable ==
    /\ backup \in confirmed \ damaged /\ ~receipt
    /\ journal \notin {target, Torn}

\* "The previous bundle remains beside it until the new client completes startup"
\* (docs/updating.md): at every step, whoever dies, either the installed bundle has completed
\* a startup or its predecessor is still there, whole, in the state a restore acts on.
PredecessorAlwaysKept == target \in proven \ damaged \/ Recoverable

\* The exchange, the receipt, the journal, the clean-up and the rollback keep the predecessor
\* of a bundle that has not completed a startup, whoever dies: it goes only when
\* Startup::observe looked at the installed path too late and its client confirmed what it saw.
PredecessorKept == PredecessorAlwaysKept \/ target \in mistaken \ damaged

\* The journal decides every interrupted swap: a bundle at the backup path without a receipt
\* is either the candidate of a swap that has not happened, or was undone, or the predecessor
\* of one that has; restore_with_lease and needs_rollback never read a torn or a foreign record.
JournalDecides ==
    backup # None /\ ~receipt => \/ journal = target /\ target \in confirmed
                                 \/ journal = backup /\ backup \in confirmed

\* The installed bundle changes by an update, from a confirmed bundle to one never installed,
\* or by a rollback, from an unconfirmed one to its confirmed predecessor: a confirmed startup
\* is never rolled back, and a recovery never installs a candidate (restore_with_lease).
ConfirmedNotUndone ==
    [][target' # target => (target \in confirmed) # (target' \in confirmed)]_vars

\* "A failed new start restores the previous bundle" (docs/updating.md), also after the helper
\* that should have done so was interrupted anywhere: once processes stop dying and no new
\* update is applied, the installed path comes to hold a bundle that starts, and keeps it,
\* unless a late observation has confirmed the one that does not.
StartsInTheEnd == <>[](target \in (startable \cup mistaken) \ damaged)

=============================================================================
