-------------------------- MODULE HelperRetention --------------------------
(***************************************************************************)
(* crates/update-installer/src/helper.rs with its callers (stage.rs        *)
(* retain, launcher-host's worker.rs and handoff.rs, main.rs): copies of   *)
(* the helper and snapshots of a stage are made, handed to another process *)
(* and pruned once idle.  The writer lease does not cover the pruning.     *)
(*                                                                         *)
(* A copy is its directory, found by name, and its lock file, which a      *)
(* process that has opened it keeps whatever happens to the name.  Locks   *)
(* die with their process.  Modelled as on macOS and Linux, where a locked *)
(* directory can be renamed.                                               *)
(***************************************************************************)
EXTENDS FiniteSets

CONSTANTS
    Copy,       \* names of helper-* and manual-* directories
    Helper,     \* helper processes
    Worker, Other,   \* the client's worker thread, and the thread of an exit or a manual download
    Client,     \* the client's reader on a copy
    None

Thread == {Worker, Other}

ASSUME RetentionConstants ==
    /\ Worker # Other /\ Thread \cap Helper = {} /\ Client \notin Helper
    /\ None \notin Copy \cup Helper \cup Thread

VARIABLES
    dir,        \* where a copy's directory is: nowhere, at its name, or renamed to be discarded
    full,       \* copies whose files are written
    lock,       \* copies with a lock file
    fresh,      \* copies stamped less than HANDOFF_WINDOW ago
    readers,    \* holders of the shared lock of each copy
    pruner,     \* the thread with the exclusive lock of each copy
    running,    \* whether a client runs
    offered,    \* State.ready: the snapshot the client offers
    requested,  \* State.requested: the exit has frozen the offer
    pc, at,     \* what a thread or helper is at, and the copy it is about
    created,    \* threads whose retire_idle_copy made the lock file itself
    stage       \* the snapshot a helper is told to apply

disk == <<dir, full, lock, fresh>>
locks == <<readers, pruner>>
vars == <<disk, locks, running, offered, requested, pc, at, created, stage>>

Actor == Thread \cup Helper

ThreadPC == {"idle", "prune", "open", "try", "recheck", "rename", "delete", "make", "lock", "share",
    "fill", "have", "spawned"}
HelperPC == {"off", "hold", "share", "holdStage", "shareStage", "held"}

\* No lock is held shared and exclusively at once; the other state has its type.
TypeOK ==
    /\ dir \in [Copy -> {"none", "here", "discard"}] /\ full \subseteq Copy
    /\ lock \subseteq Copy /\ fresh \subseteq Copy
    /\ readers \in [Copy -> SUBSET (Helper \cup {Client})] /\ pruner \in [Copy -> Thread \cup {None}]
    /\ \A k \in Copy : pruner[k] # None => readers[k] = {}
    /\ running \in BOOLEAN /\ requested \in BOOLEAN /\ offered \in Copy \cup {None}
    /\ DOMAIN pc = Actor /\ at \in [Actor -> Copy \cup {None}] /\ created \subseteq Thread
    /\ \A t \in Thread : pc[t] \in ThreadPC
    /\ \A h \in Helper : pc[h] \in HelperPC
    /\ stage \in [Helper -> Copy \cup {None}]

Init ==
    /\ dir = [k \in Copy |-> "none"] /\ full = {} /\ lock = {} /\ fresh = {}
    /\ readers = [k \in Copy |-> {}] /\ pruner = [k \in Copy |-> None]
    /\ running = FALSE /\ offered = None /\ requested = FALSE
    /\ pc = [a \in Actor |-> IF a \in Thread THEN "idle" ELSE "off"]
    /\ at = [a \in Actor |-> None] /\ created = {} /\ stage = [h \in Helper |-> None]

Go(a, to) == pc' = [pc EXCEPT ![a] = to]
Forget(a, to) == Go(a, to) /\ at' = [at EXCEPT ![a] = None]

\* open_lock: creating the file stamps it.
open_lock(k) ==
    /\ dir[k] = "here" /\ lock' = lock \cup {k}
    /\ fresh' = IF k \in lock THEN fresh ELSE fresh \cup {k}
    /\ UNCHANGED <<dir, full>>
lock_shared(a, k) == pruner[k] = None /\ readers' = [readers EXCEPT ![k] = @ \cup {a}] /\ UNCHANGED pruner
Release(a, k) == readers' = [readers EXCEPT ![k] = @ \ {a}] /\ UNCHANGED pruner

\* remove_dir_all.
Gone(k) ==
    /\ dir' = [dir EXCEPT ![k] = "none"]
    /\ full' = full \ {k} /\ lock' = lock \ {k} /\ fresh' = fresh \ {k}

----------------------------------------------------------------------------
(* prune *)

\* worker.rs run begins with a pass.
workerPrunes ==
    /\ running /\ pc[Worker] = "idle" /\ Go(Worker, "prune")
    /\ UNCHANGED <<disk, locks, running, offered, requested, at, created, stage>>

\* A copy that looks idle is retired.  The pass took its time before it looked, so that it may
\* also leave one whose window has just ended.
look(t, k) ==
    /\ pc[t] = "prune" /\ dir[k] = "here" /\ k \notin fresh
    /\ Go(t, "open") /\ at' = [at EXCEPT ![t] = k]
    /\ UNCHANGED <<disk, locks, running, offered, requested, created, stage>>

\* A helper-discard-* directory that a dead or failed pass left is itself a copy to prune.
lookDiscarded(t, k) ==
    /\ pc[t] = "prune" /\ dir[k] = "discard" /\ \A u \in Thread : at[u] = k => pc[u] # "delete"
    /\ Gone(k) /\ UNCHANGED <<locks, running, offered, requested, pc, at, created, stage>>

\* retire_idle_copy opens or creates the lock file, and is told which.
open(t) ==
    /\ pc[t] = "open"
    /\ \/ open_lock(at[t]) /\ Go(t, "try") /\ UNCHANGED at
          /\ created' = IF at[t] \in lock THEN created \ {t} ELSE created \cup {t}
       \/ dir[at[t]] # "here" /\ Forget(t, "prune") /\ UNCHANGED <<disk, created>>
    /\ UNCHANGED <<locks, running, offered, requested, stage>>

\* Mutant of try: only another pass is kept out.
tryIgnoresReaders(t) ==
    /\ pc[t] = "try"
    /\ IF pruner[at[t]] = None
       THEN pruner' = [pruner EXCEPT ![at[t]] = t] /\ Go(t, "recheck") /\ UNCHANGED at
       ELSE Forget(t, "prune") /\ UNCHANGED pruner
    /\ UNCHANGED <<disk, readers, running, offered, requested, created, stage>>

\* try_lock
try(t) ==
    /\ pc[t] = "try"
    /\ IF readers[at[t]] = {} /\ pruner[at[t]] = None
       THEN pruner' = [pruner EXCEPT ![at[t]] = t] /\ Go(t, "recheck") /\ UNCHANGED at
       ELSE Forget(t, "prune") /\ UNCHANGED pruner
    /\ UNCHANGED <<disk, readers, running, offered, requested, created, stage>>

\* Mutant of recheck: what the pass saw before it had the lock is good enough.
recheckNothing(t) ==
    /\ pc[t] = "recheck" /\ Go(t, "rename")
    /\ UNCHANGED <<disk, locks, running, offered, requested, at, created, stage>>

\* The stamp again, under the lock; a pass that made the file goes by the directory's own stamp.
recheck(t) ==
    /\ pc[t] = "recheck"
    /\ \/ (t \in created \/ at[t] \notin fresh) /\ Go(t, "rename") /\ UNCHANGED <<at, pruner>>
       \/ Forget(t, "prune") /\ pruner' = [pruner EXCEPT ![at[t]] = None]
    /\ UNCHANGED <<disk, readers, running, offered, requested, created, stage>>

rename(t) ==
    /\ pc[t] = "rename" /\ Go(t, "delete")
    /\ dir' = [dir EXCEPT ![at[t]] = IF @ = "here" THEN "discard" ELSE @]
    /\ UNCHANGED <<full, lock, fresh, locks, running, offered, requested, at, created, stage>>

\* The lock is dropped, then the discarded directory is deleted, or left if that fails.
delete(t) ==
    /\ pc[t] = "delete" /\ Forget(t, "prune") /\ pruner' = [pruner EXCEPT ![at[t]] = None]
    /\ (dir[at[t]] = "discard" /\ Gone(at[t])) \/ UNCHANGED disk
    /\ UNCHANGED <<readers, running, offered, requested, created, stage>>

\* The end of the pass: the worker may have a stage to retain; an exit copies the helper.
pruned(t) ==
    /\ pc[t] = "prune" /\ (Go(t, "make") \/ (t = Worker /\ Go(t, "idle")))
    /\ UNCHANGED <<disk, locks, running, offered, requested, at, created, stage>>

----------------------------------------------------------------------------
(* retained_directory and what its callers do with the copy *)

\* A new directory, which nobody has opened yet.
make(t, k) ==
    /\ pc[t] = "make" /\ dir[k] = "none" /\ readers[k] = {} /\ \A a \in Actor : at[a] # k
    /\ \A h \in Helper : stage[h] # k
    /\ dir' = [dir EXCEPT ![k] = "here"] /\ fresh' = fresh \cup {k}
    /\ Go(t, "lock") /\ at' = [at EXCEPT ![t] = k]
    /\ UNCHANGED <<full, lock, locks, running, offered, requested, created, stage>>

\* open_lock, which fails when the directory has been retired already.
lockCopy(t) ==
    /\ pc[t] = "lock"
    /\ \/ open_lock(at[t]) /\ Go(t, "share") /\ UNCHANGED at
       \/ dir[at[t]] # "here" /\ Forget(t, "idle") /\ UNCHANGED disk
    /\ UNCHANGED <<locks, running, offered, requested, created, stage>>

shareCopy(t) ==
    /\ pc[t] = "share" /\ lock_shared(Client, at[t]) /\ Go(t, "fill")
    /\ UNCHANGED <<disk, running, offered, requested, at, created, stage>>

\* The files are copied; without them the directory goes, wherever it still is by its name.
fill(t) ==
    /\ pc[t] = "fill"
    /\ \/ /\ dir[at[t]] = "here" /\ full' = full \cup {at[t]} /\ Go(t, "have")
          /\ UNCHANGED <<dir, lock, fresh, locks, at>>
       \/ /\ Release(Client, at[t]) /\ Forget(t, "idle")
          /\ IF dir[at[t]] = "here" THEN Gone(at[t]) ELSE UNCHANGED disk
    /\ UNCHANGED <<running, offered, requested, created, stage>>

\* State::offer: the reader of the snapshot offered before is dropped.  A worker of an earlier
\* generation, or any once an exit is accepted, is refused and drops that of its own snapshot.
offer(accepted) ==
    /\ pc[Worker] = "have" /\ Forget(Worker, "idle") /\ (accepted => ~requested)
    /\ offered' = IF accepted THEN at[Worker] ELSE offered
    /\ LET unwanted == IF accepted THEN offered ELSE at[Worker] IN
       IF unwanted = None THEN UNCHANGED locks ELSE Release(Client, unwanted)
    /\ UNCHANGED <<disk, running, requested, created, stage>>

\* Another channel is selected, or a worker finds that the offered snapshot no longer verifies.
\* (A worker's own clone of the offer may keep the reader a little longer.)
withdraw ==
    /\ ~requested /\ offered # None /\ offered' = None /\ Release(Client, offered)
    /\ UNCHANGED <<disk, running, requested, pc, at, created, stage>>

\* apply_after_exit: spawn stamps the offered snapshot (a recovery has none), then a pass runs.
beginExit ==
    /\ running /\ pc[Other] = "idle" /\ Go(Other, "prune") /\ requested' = TRUE
    /\ fresh' = fresh \cup ({offered} \ {None})
    /\ UNCHANGED <<dir, full, lock, locks, running, offered, at, created, stage>>

\* open_download makes a snapshot of its own.
beginDownload ==
    /\ running /\ pc[Other] = "idle" /\ Go(Other, "make")
    /\ UNCHANGED <<disk, locks, running, offered, requested, at, created, stage>>

\* The desktop has the path: the copy is stamped and its reader dropped.
handToDesktop ==
    /\ pc[Other] = "have" /\ ~requested /\ fresh' = fresh \cup {at[Other]}
    /\ Release(Client, at[Other]) /\ Forget(Other, "idle")
    /\ UNCHANGED <<dir, full, lock, running, offered, requested, created, stage>>

\* spawn_with_args; the client keeps both readers until it is gone.
spawn(h) ==
    /\ pc[Other] = "have" /\ requested /\ pc[h] = "off"
    /\ pc' = [pc EXCEPT ![Other] = "spawned", ![h] = "hold"]
    /\ at' = [at EXCEPT ![h] = at[Other]] /\ stage' = [stage EXCEPT ![h] = offered]
    /\ UNCHANGED <<disk, locks, running, offered, requested, created>>

startClient ==
    /\ ~running /\ running' = TRUE
    /\ UNCHANGED <<disk, locks, offered, requested, pc, at, created, stage>>

\* The client exits or dies at any point.
stopClient ==
    /\ running /\ running' = FALSE /\ offered' = None /\ requested' = FALSE /\ created' = {}
    /\ readers' = [k \in Copy |-> readers[k] \ {Client}] /\ pruner' = [k \in Copy |-> None]
    /\ pc' = [a \in Actor |-> IF a \in Thread THEN "idle" ELSE pc[a]]
    /\ at' = [a \in Actor |-> IF a \in Thread THEN None ELSE at[a]]
    /\ UNCHANGED <<disk, stage>>

----------------------------------------------------------------------------
(* The helper process *)

\* hold and hold_snapshot open the lock file by its name, ...
holdOpen(h, k, from, to) ==
    /\ pc[h] = from /\ open_lock(k) /\ Go(h, to)
    /\ UNCHANGED <<locks, running, offered, requested, at, created, stage>>

\* Mutant of holdShare: the copy is taken to be there since its lock is.
holdShareOnly(h, k, from, to) ==
    /\ pc[h] = from /\ lock_shared(h, k) /\ Go(h, to)
    /\ UNCHANGED <<disk, running, offered, requested, at, created, stage>>

\* ... lock it, and then look whether the directory still has that name.
holdShare(h, k, from, to) ==
    /\ pc[h] = from /\ dir[k] = "here" /\ lock_shared(h, k) /\ Go(h, to)
    /\ UNCHANGED <<disk, running, offered, requested, at, created, stage>>

hold(h) ==
    \/ holdOpen(h, at[h], "hold", "share")
    \/ holdShare(h, at[h], "share", IF stage[h] = None THEN "held" ELSE "holdStage")

hold_snapshot(h) ==
    /\ stage[h] # None
    /\ holdOpen(h, stage[h], "holdStage", "shareStage") \/ holdShare(h, stage[h], "shareStage", "held")

\* The helper fails because a copy is gone, is done with both, or dies.
stopHelper(h) ==
    /\ pc[h] # "off" /\ Forget(h, "off") /\ stage' = [stage EXCEPT ![h] = None]
    /\ readers' = [k \in Copy |-> readers[k] \ {h}]
    /\ UNCHANGED <<disk, pruner, running, offered, requested, created>>

\* HANDOFF_WINDOW passes for a copy.
age(k) ==
    /\ k \in fresh /\ fresh' = fresh \ {k}
    /\ UNCHANGED <<dir, full, lock, locks, running, offered, requested, pc, at, created, stage>>

Next ==
    \/ workerPrunes \/ withdraw \/ beginExit \/ beginDownload \/ handToDesktop
    \/ startClient \/ stopClient
    \/ \E accepted \in BOOLEAN : offer(accepted)
    \/ \E t \in Thread :
        \/ open(t) \/ try(t) \/ recheck(t) \/ rename(t) \/ delete(t) \/ pruned(t)
        \/ lockCopy(t) \/ shareCopy(t) \/ fill(t)
        \/ \E k \in Copy : look(t, k) \/ lookDiscarded(t, k) \/ make(t, k)
    \/ \E h \in Helper : spawn(h) \/ hold(h) \/ hold_snapshot(h) \/ stopHelper(h)
    \/ \E k \in Copy : age(k)

Spec == Init /\ [][Next]_vars

----------------------------------------------------------------------------
(* Properties *)

Present(k) == dir[k] = "here" /\ k \in full

\* What a process relies on is there: the snapshot a client offers, the copy a helper has found
\* and the snapshot it is about to apply (docs/updating.md: "Helper copies and stages remain
\* retained while either side of a handoff holds them").
HeldPresent ==
    /\ offered # None => Present(offered)
    /\ \A h \in Helper :
        /\ pc[h] \in {"holdStage", "shareStage", "held"} => Present(at[h])
        /\ pc[h] = "held" /\ stage[h] # None => Present(stage[h])

\* A copy handed over and not yet held by its new reader survives its window, although passes
\* that judged it idle before it was stamped are still under way (helper.rs HANDOFF_WINDOW:
\* "An idle copy is kept this long while its helper starts or the desktop handler opens it").
\* The exception is retire_idle_copy's own: a pass that made the lock file, before the owner of a
\* directory older than the window came to open it, goes by the directory's stamp and overlooks
\* one set on the file since.
WindowKept ==
    [][\A k \in full \cap fresh :
        dir[k] = "here" => dir'[k] = "here" \/ \E t \in created : at[t] = k]_vars
=============================================================================
