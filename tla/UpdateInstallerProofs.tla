----------------------- MODULE UpdateInstallerProofs -----------------------
(***************************************************************************)
(* Proofs about UpdateInstaller, for every number of installations,        *)
(* clients and helpers: the journal decides every interrupted swap, a      *)
(* confirmed startup is never undone, and the predecessor is kept until    *)
(* its successor started or was confirmed by a late observation.           *)
(***************************************************************************)
EXTENDS UpdateInstaller, TLAPS

\* An installation a user can be left with: a client confirms what it has proven, or has
\* observed too late.
Good(i) == i \in confirmed \ damaged /\ i \in proven \cup mistaken

Disk2 == /\ backup # None /\ ~receipt /\ journal = backup /\ Good(backup)
         /\ target \notin confirmed
Disk1 == /\ backup # None /\ ~receipt /\ journal = target /\ Good(target)
         /\ backup \notin confirmed

\* What the disk may hold, whoever died: no backup, or one whose removal was confirmed, or the
\* candidate of a swap that has not happened (Disk1), or the predecessor of one that has (Disk2).
DiskInv ==
    /\ target \notin damaged /\ backup # target
    /\ backup = None \/ receipt => Good(target)
    /\ backup # None /\ ~receipt => Disk1 \/ Disk2

\* Only the holder of the lease is at a step that reads or changes the disk.
HelperLeased == {"verify", "swap", "write", "stage", "exchange", "unstage", "launch", "starting",
    "stopping", "receipt", "tidy", "rollback", "aside", "clear", "restore", "forget"}
LeaseInv ==
    /\ \A h \in Helper : pc[h] \in HelperLeased => lease = h
    /\ \A c \in Client : pc[c] \in {"leased", "tidy", "downloading"} => lease = c

\* How far an attempt got says what it may have to undo.
ModeInv ==
    \A h \in Helper :
        /\ pc[h] \in {"wait", "verify", "swap", "write", "stage", "exchange", "unstage"} => mode[h] = "apply"
        /\ pc[h] \in {"launch", "starting", "stopping"} => mode[h] \in {"apply", "touched"}
        /\ pc[h] \in {"receipt", "tidy"} => mode[h] = "touched"
        /\ pc[h] \in {"rollback", "aside"} => mode[h] \in {"touched", "undo", "recover"}
        /\ pc[h] \in {"restore", "forget"} => mode[h] \in {"undo", "recover"}
        /\ pc[h] = "recover" => mode[h] = "recover"

\* What a helper finds on the disk at each of its steps.
HelperInv ==
    \A h \in Helper :
        /\ pc[h] \in {"write", "stage", "unstage", "clear", "forget"} => backup = None /\ ~receipt
        /\ pc[h] \in {"stage", "unstage"} => journal = target
        /\ pc[h] = "exchange" => Disk1 /\ backup \notin damaged
        /\ pc[h] = "aside" => Disk1
        /\ pc[h] \in {"launch", "starting", "stopping"} /\ mode[h] = "touched" => Disk2
        /\ pc[h] \in {"rollback", "receipt"} => Disk2
        /\ pc[h] \in {"swap", "write", "stage"} =>
            work[h] \in Install \ ({target, backup} \cup confirmed \cup damaged)

\* A helper watches the clients it started, and a marker is one of theirs.
WatchInv ==
    /\ \A c \in Client : parent[c] \in Helper => pc[parent[c]] \in {"starting", "stopping", "receipt", "tidy"}
    /\ \A h \in marker : pc[h] \notin {"off", "wait", "verify", "swap", "write", "stage", "exchange",
                                       "unstage", "launch", "recover"}
    /\ \A h \in Helper : pc[h] \in {"starting", "stopping", "receipt"} /\ mode[h] = "touched" =>
        /\ \A c \in Client : parent[c] = h => code[c] = target
        /\ h \in marker => target \in proven
        /\ pc[h] = "receipt" => h \in marker

\* A client has proven the installation it runs before it asks to confirm it.
ClientInv ==
    \A c \in Client :
        /\ pc[c] # "off" => code[c] # None
        /\ pc[c] \in {"confirming", "leased", "tidy", "running", "downloading"} => code[c] \in proven

IInv == TypeOK /\ DiskInv /\ LeaseInv /\ ModeInv /\ HelperInv /\ WatchInv /\ ClientInv

----------------------------------------------------------------------------
\* One removal of cleanup_confirmed_backup touches the backup only under a receipt, and the
\* journal and the receipt only after it.
LEMMA CleanupEffect ==
  ASSUME TypeOK, cleanup_confirmed_backup
  PROVE  \/ /\ receipt /\ backup # None /\ backup' = None
            /\ UNCHANGED <<target, journal, receipt, damaged>>
         \/ /\ receipt /\ backup # None /\ damaged' = damaged \cup {backup}
            /\ UNCHANGED <<target, backup, journal, receipt>>
         \/ /\ backup = None /\ journal' = None /\ UNCHANGED <<target, backup, receipt, damaged>>
         \/ /\ receipt /\ backup = None /\ receipt' = FALSE
            /\ UNCHANGED <<target, backup, journal, damaged>>
  BY DEF TypeOK, cleanup_confirmed_backup, Clean, remove

\* ... so that the disk stays typed.
LEMMA CleanupType ==
  ASSUME TypeOK, cleanup_confirmed_backup
  PROVE  /\ target' \in Install /\ backup' \in Install \cup {None}
         /\ journal' \in Install \cup {None, Torn} /\ receipt' \in BOOLEAN /\ damaged' \subseteq Install
  BY CleanupEffect DEF TypeOK

\* The places of processes, a part of TypeOK.
PlacesOK ==
    /\ \A c \in Client : pc[c] \in ClientPC
    /\ \A h \in Helper : pc[h] \in HelperPC
    /\ DOMAIN pc = Proc

\* A process goes to a place of its own.
LEMMA GoType ==
  ASSUME PlacesOK, NEW p \in Proc, NEW to, Go(p, to),
         p \in Client => to \in ClientPC, p \in Helper => to \in HelperPC
  PROVE  PlacesOK'
  BY DEF PlacesOK, Go, Proc

\* The processes, another part.
ProcessesOK ==
    /\ PlacesOK
    /\ lease \in Proc \cup {None} /\ updater \in Client \cup {None}
    /\ code \in [Client -> Install \cup {None}] /\ seen \in [Client -> Install \cup {None}]
    /\ parent \in [Client -> Helper \cup {None}]
    /\ mode \in [Helper -> {"none", "apply", "touched", "undo", "recover"}]
    /\ work \in [Helper -> Install \cup {None}] /\ marker \subseteq Helper

\* The end of a helper leaves typed state behind, ...
LEMMA EndType == ASSUME TypeOK, NEW h \in Helper, End(h) PROVE ProcessesOK'
<1>1. PlacesOK'
  BY GoType, UpdateConstants DEF TypeOK, PlacesOK, End, Proc, HelperPC
<1> QED BY <1>1, UpdateConstants DEF TypeOK, ProcessesOK, End, Gone, Proc

\* ... a failed attempt too, ...
LEMMA FailType == ASSUME TypeOK, NEW h \in Helper, Fail(h) PROVE ProcessesOK'
<1>1. PlacesOK'
  BY GoType, UpdateConstants DEF TypeOK, PlacesOK, Fail, Proc, HelperPC
<1> QED BY <1>1 DEF TypeOK, ProcessesOK, Fail, Release, client, helper

\* ... and a rollback that fails.
LEMMA RollbackFailsType ==
  ASSUME TypeOK, ModeInv, NEW h \in Helper, pc[h] \in {"rollback", "aside"}, RollbackFails(h)
  PROVE  ProcessesOK'
<1>1. CASE mode[h] = "touched"
  <2>1. PlacesOK'
    BY <1>1, GoType, UpdateConstants DEF TypeOK, PlacesOK, RollbackFails, Proc, HelperPC
  <2> QED BY <1>1, <2>1 DEF TypeOK, ProcessesOK, RollbackFails, client
<1>2. CASE mode[h] = "undo"
  BY <1>2, FailType DEF RollbackFails
<1>3. CASE mode[h] = "recover"
  BY <1>3, EndType DEF RollbackFails
<1> QED BY <1>1, <1>2, <1>3 DEF ModeInv

\* Every step keeps the types.
LEMMA TypeStep == ASSUME IInv, Next PROVE TypeOK'
<1> USE UpdateConstants DEF IInv, TypeOK, Proc, ClientPC, HelperPC, disk, client, helper, history, Go
<1>1. ASSUME NEW c \in Client, start(c) PROVE TypeOK'
  BY <1>1 DEF start, spawn
<1>2. ASSUME NEW c \in Client, observe(c) PROVE TypeOK'
  BY <1>2 DEF observe
<1>3. ASSUME NEW c \in Client, tick(c) PROVE TypeOK'
  BY <1>3 DEF tick
<1>4. ASSUME NEW c \in Client, exit(c) PROVE TypeOK'
  BY <1>4 DEF exit, Gone
<1>5. ASSUME NEW c \in Client, acknowledge_startup(c) PROVE TypeOK'
  BY <1>5 DEF acknowledge_startup
<1>6. ASSUME NEW c \in Client, confirmAcquire(c) PROVE TypeOK'
  BY <1>6 DEF confirmAcquire
<1>7. ASSUME NEW c \in Client, confirmIdentity(c) PROVE TypeOK'
  <2>1. PlacesOK'
    <3>1. PlacesOK /\ c \in Proc /\ c \notin Helper
      BY DEF PlacesOK
    <3>2. Go(c, "running") \/ Go(c, "tidy")
      BY <1>7 DEF confirmIdentity
    <3> QED BY <3>1, <3>2, GoType
  <2>2. CASE backup # None /\ target = seen[c]
    BY <1>7, <2>1, <2>2 DEF confirmIdentity, confirm_start, Mistake, PlacesOK
  <2>3. CASE ~(backup # None /\ target = seen[c])
    BY <1>7, <2>1, <2>3 DEF confirmIdentity, PlacesOK
  <2> QED BY <2>2, <2>3
<1>8. ASSUME NEW c \in Client, confirmTidy(c) PROVE TypeOK'
  <2>1. CASE cleanup_confirmed_backup
    BY <1>8, <2>1, CleanupType DEF confirmTidy, Clean
  <2>2. CASE ~cleanup_confirmed_backup
    BY <1>8, <2>2 DEF confirmTidy
  <2> QED BY <2>1, <2>2
<1>9. ASSUME NEW c \in Client, download(c) PROVE TypeOK'
  BY <1>9 DEF download
<1>10. ASSUME NEW c \in Client, probe(c) PROVE TypeOK'
  BY <1>10 DEF probe
<1>11. ASSUME NEW c \in Client, NEW h \in Helper, recover_after_failed_start(c, h) PROVE TypeOK'
  BY <1>11 DEF recover_after_failed_start, Gone
<1>12. ASSUME NEW c \in Client, NEW h \in Helper, apply_after_exit(c, h) PROVE TypeOK'
  BY <1>12 DEF apply_after_exit, Gone
<1>13. ASSUME NEW h \in Helper, wait(h) PROVE TypeOK'
  BY <1>13 DEF wait
<1>14. ASSUME NEW h \in Helper, verify(h) PROVE TypeOK'
  <2>1. CASE Fail(h) /\ UNCHANGED <<disk, history>>
    BY <1>14, <2>1, FailType DEF ProcessesOK, PlacesOK
  <2>2. CASE Go(h, "launch") /\ UNCHANGED <<disk, lease, updater, client, helper, marker, history>>
    BY <1>14, <2>2
  <2>3. ASSUME NEW i \in Install, NEW good \in SUBSET {i},
               Go(h, "swap"), work' = [work EXCEPT ![h] = i],
               startable' = (startable \ {i}) \cup good, proven' = proven \ {i},
               confirmed' = confirmed \ {i}, mistaken' = mistaken \ {i}, damaged' = damaged \ {i},
               UNCHANGED <<target, backup, journal, receipt, lease, updater, client, mode, marker>>
        PROVE  TypeOK'
    <3>1. PlacesOK'
      BY <2>3, GoType DEF PlacesOK
    <3> QED BY <2>3, <3>1 DEF PlacesOK
  <2> QED BY <1>14, <2>1, <2>2, <2>3 DEF verify
<1>15. ASSUME NEW h \in Helper, swap(h) PROVE TypeOK'
  <2>1. CASE cleanup_confirmed_backup
    <3>1. UNCHANGED <<pc, lease, updater, client, helper, marker, history>>
      BY <1>15, <2>1 DEF swap, cleanup_confirmed_backup
    <3> QED BY <2>1, <3>1, CleanupType
  <2>2. CASE ~cleanup_confirmed_backup
    BY <1>15, <2>2 DEF swap, Fail, Release
  <2> QED BY <2>1, <2>2
<1>16. ASSUME NEW h \in Helper, prepare_exchange(h) PROVE TypeOK'
  BY <1>16 DEF prepare_exchange
<1>17. ASSUME NEW h \in Helper, stage(h) PROVE TypeOK'
  BY <1>17 DEF stage, Fail, Release
<1>18. ASSUME NEW h \in Helper, swapExchange(h) PROVE TypeOK'
  <2>1. backup \in Install
    BY <1>18 DEF swapExchange, HelperInv, Disk1
  <2>2. CASE exchange /\ Go(h, "launch")
    BY <1>18, <2>1, <2>2 DEF swapExchange, exchange
  <2>3. CASE backup' = None /\ Go(h, "unstage")
    BY <1>18, <2>1, <2>3 DEF swapExchange
  <2> QED BY <1>18, <2>2, <2>3 DEF swapExchange
<1>19. ASSUME NEW h \in Helper, unstage(h) PROVE TypeOK'
  BY <1>19 DEF unstage, Fail, Release
<1>20. ASSUME NEW h \in Helper, launch(h) PROVE TypeOK'
  <2>1. ASSUME NEW c \in Client, spawn(c, h), pc' = [pc EXCEPT ![c] = "preparing", ![h] = "starting"],
               UNCHANGED <<disk, history, lease, updater, helper, marker>>
        PROVE  TypeOK'
    BY <2>1 DEF spawn
  <2>2. CASE Go(h, "rollback") /\ UNCHANGED <<disk, history, lease, updater, client, helper, marker>>
    BY <1>20, <2>2
  <2>3. CASE Fail(h) /\ UNCHANGED <<disk, history>>
    BY <1>20, <2>3, FailType DEF ProcessesOK, PlacesOK
  <2> QED BY <1>20, <2>1, <2>2, <2>3 DEF launch, NotStarted
<1>21. ASSUME NEW h \in Helper, started(h) PROVE TypeOK'
  BY <1>21 DEF started, End, Gone
<1>22. ASSUME NEW h \in Helper, stalled(h) PROVE TypeOK'
  BY <1>22 DEF stalled
<1>23. ASSUME NEW h \in Helper, stop(h) PROVE TypeOK'
  BY <1>23 DEF stop, Gone, NotStarted, Fail, Release
<1>24. ASSUME NEW h \in Helper, confirmStarted(h) PROVE TypeOK'
  BY <1>24 DEF confirmStarted, confirm_start
<1>25. ASSUME NEW h \in Helper, tidy(h) PROVE TypeOK'
  <2>1. CASE cleanup_confirmed_backup
    <3>1. UNCHANGED <<pc, lease, updater, client, helper, marker, history>>
      BY <1>25, <2>1 DEF tidy, cleanup_confirmed_backup
    <3> QED BY <2>1, <3>1, CleanupType
  <2>2. CASE ~cleanup_confirmed_backup
    <3>1. End(h) /\ UNCHANGED <<disk, history>>
      BY <1>25, <2>2 DEF tidy
    <3>2. ProcessesOK'
      BY <3>1, EndType
    <3> QED BY <3>1, <3>2 DEF ProcessesOK, PlacesOK
  <2> QED BY <2>1, <2>2
<1>26. ASSUME NEW h \in Helper, rollback(h) PROVE TypeOK'
  <2>1. backup \in Install
    BY <1>26 DEF rollback, HelperInv, Disk2
  <2>2. CASE exchange /\ Go(h, "aside") /\ UNCHANGED <<lease, updater, client, helper, marker>>
    <3>1. PlacesOK'
      BY <2>2, GoType DEF PlacesOK
    <3>2. target' \in Install /\ backup' \in Install /\ UNCHANGED <<journal, receipt, damaged, history>>
      BY <1>26, <2>1, <2>2 DEF rollback, exchange
    <3> QED BY <2>2, <3>1, <3>2 DEF PlacesOK
  <2>3. CASE RollbackFails(h) /\ UNCHANGED disk
    <3>1. ProcessesOK'
      BY <1>26, <2>3, RollbackFailsType DEF rollback
    <3> QED BY <1>26, <2>3, <3>1 DEF rollback, ProcessesOK, PlacesOK
  <2> QED BY <1>26, <2>2, <2>3 DEF rollback
<1>27. ASSUME NEW h \in Helper, aside(h) PROVE TypeOK'
  <2>1. CASE backup' = None /\ Go(h, "clear") /\ UNCHANGED <<lease, updater, client, helper, marker>>
    <3>1. PlacesOK'
      BY <2>1, GoType DEF PlacesOK
    <3> QED BY <1>27, <2>1, <3>1 DEF aside, PlacesOK
  <2>2. CASE RollbackFails(h) /\ UNCHANGED backup
    <3>1. ProcessesOK'
      BY <1>27, <2>2, RollbackFailsType DEF aside
    <3> QED BY <1>27, <2>2, <3>1 DEF aside, ProcessesOK, PlacesOK
  <2> QED BY <1>27, <2>1, <2>2 DEF aside
<1>28. ASSUME NEW h \in Helper, clear(h) PROVE TypeOK'
  BY <1>28 DEF clear, Fail, Release
<1>29. ASSUME NEW h \in Helper, recover(h) PROVE TypeOK'
  BY <1>29 DEF recover, End, Gone
<1>30. ASSUME NEW h \in Helper, restore_with_lease(h) PROVE TypeOK'
  BY <1>30 DEF restore_with_lease, Unrestored, End, Gone, Fail, Release, remove, before_exchange
<1>31. ASSUME NEW h \in Helper, forget(h) PROVE TypeOK'
  BY <1>31 DEF forget, Unrestored, End, Gone, Fail, Release
<1>32. ASSUME NEW h \in Helper, reopen(h) PROVE TypeOK'
  <2>1. code' \in [Client -> Install \cup {None}] /\ seen' \in [Client -> Install \cup {None}]
    BY <1>32 DEF reopen, spawn
  <2>2. parent' \in [Client -> Helper \cup {None}]
    BY <1>32 DEF reopen, spawn
  <2>3. PlacesOK'
    <3>1. CASE Go(h, "off")
      BY <3>1, GoType DEF PlacesOK
    <3>2. ASSUME NEW c \in Client, pc' = [pc EXCEPT ![c] = "preparing", ![h] = "off"] PROVE PlacesOK'
      BY <3>2 DEF PlacesOK
    <3> QED BY <1>32, <3>1, <3>2 DEF reopen
  <2> QED BY <1>32, <2>1, <2>2, <2>3 DEF reopen, PlacesOK
<1>33. ASSUME NEW h \in Helper, crash(h) PROVE TypeOK'
  BY <1>33 DEF crash, End, Gone
<1> QED BY <1>1, <1>2, <1>3, <1>4, <1>5, <1>6, <1>7, <1>8, <1>9, <1>10, <1>11, <1>12, <1>13,
           <1>14, <1>15, <1>16, <1>17, <1>18, <1>19, <1>20, <1>21, <1>22, <1>23, <1>24,
           <1>25, <1>26, <1>27, <1>28, <1>29, <1>30, <1>31, <1>32, <1>33
           DEF Next, ClientNext, HelperNext

\* A rollback that fails goes on to the second attempt, fails as an attempt or ends a recovery.
LEMMA RollbackFailsTo ==
  ASSUME ModeInv, NEW h \in Helper, pc[h] \in {"rollback", "aside"}, RollbackFails(h)
  PROVE  \/ /\ Go(h, "restore") /\ mode' = [mode EXCEPT ![h] = "undo"]
            /\ UNCHANGED <<lease, updater, client, work, marker>>
         \/ Fail(h)
         \/ End(h)
<1>1. CASE mode[h] = "touched"
  BY <1>1 DEF RollbackFails
<1>2. CASE mode[h] = "undo"
  BY <1>2 DEF RollbackFails
<1>3. CASE mode[h] = "recover"
  BY <1>3 DEF RollbackFails
<1> QED BY <1>1, <1>2, <1>3 DEF ModeInv

\* Only the holder of the lease gets to a step that needs it.
LEMMA LeaseStep == ASSUME IInv, Next PROVE LeaseInv'
<1> USE UpdateConstants DEF IInv, TypeOK, LeaseInv, HelperLeased, Proc, ClientPC, disk, client, helper, history, Go
<1>1. ASSUME NEW c \in Client, start(c) PROVE LeaseInv'
  BY <1>1 DEF start, spawn
<1>2. ASSUME NEW c \in Client, observe(c) PROVE LeaseInv'
  BY <1>2 DEF observe
<1>3. ASSUME NEW c \in Client, tick(c) PROVE LeaseInv'
  BY <1>3 DEF tick
<1>4. ASSUME NEW c \in Client, exit(c) PROVE LeaseInv'
  BY <1>4 DEF exit, Gone
<1>5. ASSUME NEW c \in Client, acknowledge_startup(c) PROVE LeaseInv'
  BY <1>5 DEF acknowledge_startup
<1>6. ASSUME NEW c \in Client, confirmAcquire(c) PROVE LeaseInv'
  BY <1>6 DEF confirmAcquire
<1>7. ASSUME NEW c \in Client, confirmIdentity(c) PROVE LeaseInv'
  BY <1>7 DEF confirmIdentity, confirm_start, Mistake
<1>8. ASSUME NEW c \in Client, confirmTidy(c) PROVE LeaseInv'
  BY <1>8 DEF confirmTidy, cleanup_confirmed_backup, Clean, remove
<1>9. ASSUME NEW c \in Client, download(c) PROVE LeaseInv'
  BY <1>9 DEF download
<1>10. ASSUME NEW c \in Client, probe(c) PROVE LeaseInv'
  BY <1>10 DEF probe
<1>11. ASSUME NEW c \in Client, NEW h \in Helper, recover_after_failed_start(c, h) PROVE LeaseInv'
  BY <1>11 DEF recover_after_failed_start, Gone
<1>12. ASSUME NEW c \in Client, NEW h \in Helper, apply_after_exit(c, h) PROVE LeaseInv'
  BY <1>12 DEF apply_after_exit, Gone
<1>13. ASSUME NEW h \in Helper, wait(h) PROVE LeaseInv'
  BY <1>13 DEF wait
<1>14. ASSUME NEW h \in Helper, verify(h) PROVE LeaseInv'
  BY <1>14 DEF verify, Fail, Release, Used
<1>15. ASSUME NEW h \in Helper, swap(h) PROVE LeaseInv'
  BY <1>15 DEF swap, cleanup_confirmed_backup, Clean, remove, Fail, Release
<1>16. ASSUME NEW h \in Helper, prepare_exchange(h) PROVE LeaseInv'
  BY <1>16 DEF prepare_exchange
<1>17. ASSUME NEW h \in Helper, stage(h) PROVE LeaseInv'
  BY <1>17 DEF stage, Fail, Release
<1>18. ASSUME NEW h \in Helper, swapExchange(h) PROVE LeaseInv'
  BY <1>18 DEF swapExchange, exchange
<1>19. ASSUME NEW h \in Helper, unstage(h) PROVE LeaseInv'
  BY <1>19 DEF unstage, Fail, Release
<1>20. ASSUME NEW h \in Helper, launch(h) PROVE LeaseInv'
  BY <1>20 DEF launch, spawn, NotStarted, Fail, Release
<1>21. ASSUME NEW h \in Helper, started(h) PROVE LeaseInv'
  BY <1>21 DEF started, End, Gone
<1>22. ASSUME NEW h \in Helper, stalled(h) PROVE LeaseInv'
  BY <1>22 DEF stalled
<1>23. ASSUME NEW h \in Helper, stop(h) PROVE LeaseInv'
  BY <1>23 DEF stop, Gone, NotStarted, Fail, Release
<1>24. ASSUME NEW h \in Helper, confirmStarted(h) PROVE LeaseInv'
  BY <1>24 DEF confirmStarted, confirm_start
<1>25. ASSUME NEW h \in Helper, tidy(h) PROVE LeaseInv'
  BY <1>25 DEF tidy, cleanup_confirmed_backup, Clean, remove, End, Gone
<1>26. ASSUME NEW h \in Helper, rollback(h) PROVE LeaseInv'
  <2>1. CASE Go(h, "aside") /\ UNCHANGED <<lease, helper>>
    BY <1>26, <2>1 DEF rollback
  <2>2. CASE RollbackFails(h)
    BY <1>26, <2>2, RollbackFailsTo DEF rollback, Fail, Release, End, Gone
  <2> QED BY <1>26, <2>1, <2>2 DEF rollback
<1>27. ASSUME NEW h \in Helper, aside(h) PROVE LeaseInv'
  <2>1. CASE Go(h, "clear") /\ UNCHANGED <<lease, helper>>
    BY <1>27, <2>1 DEF aside
  <2>2. CASE RollbackFails(h)
    BY <1>27, <2>2, RollbackFailsTo DEF aside, Fail, Release, End, Gone
  <2> QED BY <1>27, <2>1, <2>2 DEF aside
<1>28. ASSUME NEW h \in Helper, clear(h) PROVE LeaseInv'
  BY <1>28 DEF clear, Fail, Release
<1>29. ASSUME NEW h \in Helper, recover(h) PROVE LeaseInv'
  BY <1>29 DEF recover, End, Gone
<1>30. ASSUME NEW h \in Helper, restore_with_lease(h) PROVE LeaseInv'
  BY <1>30 DEF restore_with_lease, Unrestored, End, Gone, Fail, Release, remove, before_exchange
<1>31. ASSUME NEW h \in Helper, forget(h) PROVE LeaseInv'
  BY <1>31 DEF forget, Unrestored, End, Gone, Fail, Release
<1>32. ASSUME NEW h \in Helper, reopen(h) PROVE LeaseInv'
  BY <1>32 DEF reopen, spawn
<1>33. ASSUME NEW h \in Helper, crash(h) PROVE LeaseInv'
  BY <1>33 DEF crash, End, Gone
<1> QED BY <1>1, <1>2, <1>3, <1>4, <1>5, <1>6, <1>7, <1>8, <1>9, <1>10, <1>11, <1>12, <1>13,
           <1>14, <1>15, <1>16, <1>17, <1>18, <1>19, <1>20, <1>21, <1>22, <1>23, <1>24,
           <1>25, <1>26, <1>27, <1>28, <1>29, <1>30, <1>31, <1>32, <1>33
           DEF Next, ClientNext, HelperNext

\* What an attempt may have to undo is known at each of its steps.
LEMMA ModeStep == ASSUME IInv, Next PROVE ModeInv'
<1> USE UpdateConstants DEF IInv, TypeOK, ModeInv, Proc, disk, client, helper, history, Go
<1>1. ASSUME NEW c \in Client, start(c) PROVE ModeInv'
  BY <1>1 DEF start, spawn
<1>2. ASSUME NEW c \in Client, observe(c) PROVE ModeInv'
  BY <1>2 DEF observe
<1>3. ASSUME NEW c \in Client, tick(c) PROVE ModeInv'
  BY <1>3 DEF tick
<1>4. ASSUME NEW c \in Client, exit(c) PROVE ModeInv'
  BY <1>4 DEF exit, Gone
<1>5. ASSUME NEW c \in Client, acknowledge_startup(c) PROVE ModeInv'
  BY <1>5 DEF acknowledge_startup
<1>6. ASSUME NEW c \in Client, confirmAcquire(c) PROVE ModeInv'
  BY <1>6 DEF confirmAcquire
<1>7. ASSUME NEW c \in Client, confirmIdentity(c) PROVE ModeInv'
  BY <1>7 DEF confirmIdentity, confirm_start, Mistake
<1>8. ASSUME NEW c \in Client, confirmTidy(c) PROVE ModeInv'
  BY <1>8 DEF confirmTidy, cleanup_confirmed_backup, Clean, remove
<1>9. ASSUME NEW c \in Client, download(c) PROVE ModeInv'
  BY <1>9 DEF download
<1>10. ASSUME NEW c \in Client, probe(c) PROVE ModeInv'
  BY <1>10 DEF probe
<1>11. ASSUME NEW c \in Client, NEW h \in Helper, recover_after_failed_start(c, h) PROVE ModeInv'
  BY <1>11 DEF recover_after_failed_start, Gone
<1>12. ASSUME NEW c \in Client, NEW h \in Helper, apply_after_exit(c, h) PROVE ModeInv'
  BY <1>12 DEF apply_after_exit, Gone
<1>13. ASSUME NEW h \in Helper, wait(h) PROVE ModeInv'
  BY <1>13 DEF wait
<1>14. ASSUME NEW h \in Helper, verify(h) PROVE ModeInv'
  BY <1>14 DEF verify, Fail, Release, Used
<1>15. ASSUME NEW h \in Helper, swap(h) PROVE ModeInv'
  BY <1>15 DEF swap, cleanup_confirmed_backup, Clean, remove, Fail, Release
<1>16. ASSUME NEW h \in Helper, prepare_exchange(h) PROVE ModeInv'
  BY <1>16 DEF prepare_exchange
<1>17. ASSUME NEW h \in Helper, stage(h) PROVE ModeInv'
  BY <1>17 DEF stage, Fail, Release
<1>18. ASSUME NEW h \in Helper, swapExchange(h) PROVE ModeInv'
  BY <1>18 DEF swapExchange, exchange
<1>19. ASSUME NEW h \in Helper, unstage(h) PROVE ModeInv'
  BY <1>19 DEF unstage, Fail, Release
<1>20. ASSUME NEW h \in Helper, launch(h) PROVE ModeInv'
  BY <1>20 DEF launch, spawn, NotStarted, Fail, Release
<1>21. ASSUME NEW h \in Helper, started(h) PROVE ModeInv'
  BY <1>21 DEF started, End, Gone
<1>22. ASSUME NEW h \in Helper, stalled(h) PROVE ModeInv'
  BY <1>22 DEF stalled
<1>23. ASSUME NEW h \in Helper, stop(h) PROVE ModeInv'
  BY <1>23 DEF stop, Gone, NotStarted, Fail, Release
<1>24. ASSUME NEW h \in Helper, confirmStarted(h) PROVE ModeInv'
  BY <1>24 DEF confirmStarted, confirm_start
<1>25. ASSUME NEW h \in Helper, tidy(h) PROVE ModeInv'
  BY <1>25 DEF tidy, cleanup_confirmed_backup, Clean, remove, End, Gone
<1>26. ASSUME NEW h \in Helper, rollback(h) PROVE ModeInv'
  <2>1. CASE Go(h, "aside") /\ UNCHANGED <<lease, helper>>
    BY <1>26, <2>1 DEF rollback
  <2>2. CASE RollbackFails(h)
    BY <1>26, <2>2, RollbackFailsTo DEF rollback, Fail, Release, End, Gone
  <2> QED BY <1>26, <2>1, <2>2 DEF rollback
<1>27. ASSUME NEW h \in Helper, aside(h) PROVE ModeInv'
  <2>1. CASE Go(h, "clear") /\ UNCHANGED <<lease, helper>>
    BY <1>27, <2>1 DEF aside
  <2>2. CASE RollbackFails(h)
    BY <1>27, <2>2, RollbackFailsTo DEF aside, Fail, Release, End, Gone
  <2> QED BY <1>27, <2>1, <2>2 DEF aside
<1>28. ASSUME NEW h \in Helper, clear(h) PROVE ModeInv'
  BY <1>28 DEF clear, Fail, Release
<1>29. ASSUME NEW h \in Helper, recover(h) PROVE ModeInv'
  BY <1>29 DEF recover, End, Gone
<1>30. ASSUME NEW h \in Helper, restore_with_lease(h) PROVE ModeInv'
  BY <1>30 DEF restore_with_lease, Unrestored, End, Gone, Fail, Release, remove, before_exchange
<1>31. ASSUME NEW h \in Helper, forget(h) PROVE ModeInv'
  BY <1>31 DEF forget, Unrestored, End, Gone, Fail, Release
<1>32. ASSUME NEW h \in Helper, reopen(h) PROVE ModeInv'
  BY <1>32 DEF reopen, spawn
<1>33. ASSUME NEW h \in Helper, crash(h) PROVE ModeInv'
  BY <1>33 DEF crash, End, Gone
<1> QED BY <1>1, <1>2, <1>3, <1>4, <1>5, <1>6, <1>7, <1>8, <1>9, <1>10, <1>11, <1>12, <1>13,
           <1>14, <1>15, <1>16, <1>17, <1>18, <1>19, <1>20, <1>21, <1>22, <1>23, <1>24,
           <1>25, <1>26, <1>27, <1>28, <1>29, <1>30, <1>31, <1>32, <1>33
           DEF Next, ClientNext, HelperNext

\* The steps that leave the disk and its history alone.
Elsewhere == UNCHANGED <<target, backup, journal, receipt, damaged, startable, proven, confirmed, mistaken>>

\* Every step leaves a disk that the next process can go on from: the journal is written before
\* the candidate is put beside the installation, and removed only when there is no backup.
LEMMA DiskStep == ASSUME IInv, Next PROVE DiskInv'
<1> USE UpdateConstants DEF IInv, TypeOK, DiskInv, Disk1, Disk2, Good, HelperInv, disk, client, helper, history
<1>1. CASE Elsewhere
  BY <1>1 DEF Elsewhere
<1>2. ASSUME NEW c \in Client, acknowledge_startup(c) PROVE DiskInv'
  BY <1>2 DEF acknowledge_startup
<1>3. ASSUME NEW c \in Client, confirmIdentity(c) PROVE DiskInv'
  <2>1. CASE backup # None /\ target = seen[c]
    <3>1. code[c] \in proven
      BY <1>3 DEF confirmIdentity, ClientInv
    <3>2. target \in proven' \cup mistaken'
      BY <1>3, <2>1, <3>1 DEF confirmIdentity, confirm_start, Mistake
    <3> QED BY <1>3, <2>1, <3>2 DEF confirmIdentity, confirm_start, Mistake
  <2>2. CASE ~(backup # None /\ target = seen[c])
    BY <1>3, <2>2 DEF confirmIdentity
  <2> QED BY <2>1, <2>2
<1>4. ASSUME NEW c \in Client, confirmTidy(c) PROVE DiskInv'
  <2>1. CASE cleanup_confirmed_backup
    BY <1>4, <2>1, CleanupEffect DEF confirmTidy
  <2>2. CASE ~cleanup_confirmed_backup
    BY <1>4, <2>2 DEF confirmTidy
  <2> QED BY <2>1, <2>2
<1>5. ASSUME NEW h \in Helper, verify(h) PROVE DiskInv'
  <2>1. CASE UNCHANGED <<disk, history>>
    BY <2>1
  <2>2. ASSUME NEW i \in Install \ Used, NEW good \in SUBSET {i},
               /\ startable' = (startable \ {i}) \cup good
               /\ proven' = proven \ {i} /\ confirmed' = confirmed \ {i} /\ damaged' = damaged \ {i}
               /\ mistaken' = mistaken \ {i}
               /\ UNCHANGED <<target, backup, journal, receipt>>
        PROVE  DiskInv'
    <3>1. i # target /\ i # backup
      BY DEF Used
    <3> QED BY <2>2, <3>1
  <2> QED BY <1>5, <2>1, <2>2 DEF verify
<1>6. ASSUME NEW h \in Helper, swap(h) PROVE DiskInv'
  <2>1. CASE cleanup_confirmed_backup
    BY <1>6, <2>1, CleanupEffect DEF swap
  <2>2. CASE ~cleanup_confirmed_backup
    BY <1>6, <2>2 DEF swap, Clean
  <2> QED BY <2>1, <2>2
<1>7. ASSUME NEW h \in Helper, prepare_exchange(h) PROVE DiskInv'
  BY <1>7 DEF prepare_exchange
<1>8. ASSUME NEW h \in Helper, stage(h) PROVE DiskInv'
  BY <1>8 DEF stage
<1>9. ASSUME NEW h \in Helper, swapExchange(h) PROVE DiskInv'
  <2>1. CASE exchange
    BY <1>9, <2>1 DEF swapExchange, exchange
  <2>2. CASE backup' = None /\ UNCHANGED <<target, journal, receipt, damaged>>
    BY <1>9, <2>2 DEF swapExchange
  <2> QED BY <1>9, <2>1, <2>2 DEF swapExchange
<1>10. ASSUME NEW h \in Helper, unstage(h) PROVE DiskInv'
  BY <1>10 DEF unstage
<1>11. ASSUME NEW h \in Helper, confirmStarted(h) PROVE DiskInv'
  <2>1. target \in proven
    BY <1>11 DEF confirmStarted, WatchInv, ModeInv
  <2> QED BY <1>11, <2>1 DEF confirmStarted, confirm_start
<1>12. ASSUME NEW h \in Helper, tidy(h) PROVE DiskInv'
  <2>1. CASE cleanup_confirmed_backup
    BY <1>12, <2>1, CleanupEffect DEF tidy
  <2>2. CASE ~cleanup_confirmed_backup
    BY <1>12, <2>2 DEF tidy
  <2> QED BY <2>1, <2>2
<1>13. ASSUME NEW h \in Helper, rollback(h) PROVE DiskInv'
  <2>1. CASE exchange
    BY <1>13, <2>1 DEF rollback, exchange
  <2>2. CASE UNCHANGED disk
    BY <1>13, <2>2 DEF rollback
  <2> QED BY <1>13, <2>1, <2>2 DEF rollback
<1>14. ASSUME NEW h \in Helper, aside(h) PROVE DiskInv'
  BY <1>14 DEF aside
<1>15. ASSUME NEW h \in Helper, clear(h) PROVE DiskInv'
  BY <1>15 DEF clear
<1>16. ASSUME NEW h \in Helper, restore_with_lease(h) PROVE DiskInv'
  BY <1>16 DEF restore_with_lease, remove, before_exchange
<1>17. ASSUME NEW h \in Helper, forget(h) PROVE DiskInv'
  BY <1>17 DEF forget
<1>18. ASSUME NEW c \in Client,
             start(c) \/ observe(c) \/ tick(c) \/ exit(c) \/ confirmAcquire(c) \/ download(c) \/ probe(c)
      PROVE  Elsewhere
  BY <1>18 DEF Elsewhere, start, observe, tick, exit, confirmAcquire, download, probe
<1>19. ASSUME NEW c \in Client, NEW h \in Helper, recover_after_failed_start(c, h) \/ apply_after_exit(c, h)
      PROVE  Elsewhere
  BY <1>19 DEF Elsewhere, recover_after_failed_start, apply_after_exit
<1>20. ASSUME NEW h \in Helper,
             wait(h) \/ launch(h) \/ started(h) \/ stalled(h) \/ stop(h) \/ recover(h) \/ reopen(h) \/ crash(h)
      PROVE  Elsewhere
  BY <1>20 DEF Elsewhere, wait, launch, started, stalled, stop, recover, reopen, crash
<1> QED BY <1>1, <1>2, <1>3, <1>4, <1>5, <1>6, <1>7, <1>8, <1>9, <1>10, <1>11, <1>12, <1>13,
           <1>14, <1>15, <1>16, <1>17, <1>18, <1>19, <1>20
           DEF Next, ClientNext, HelperNext

\* A helper finds the disk as its last step left it: nobody else holds the lease.
LEMMA HelperStep == ASSUME IInv, Next PROVE HelperInv'
<1> USE UpdateConstants DEF IInv, TypeOK, LeaseInv, HelperLeased, ModeInv, HelperInv, DiskInv,
           Disk1, Disk2, Good, Proc, disk, client, helper, history, Go
<1>1. ASSUME NEW c \in Client, start(c) PROVE HelperInv'
  BY <1>1 DEF start, spawn
<1>2. ASSUME NEW c \in Client, observe(c) PROVE HelperInv'
  BY <1>2 DEF observe
<1>3. ASSUME NEW c \in Client, tick(c) PROVE HelperInv'
  BY <1>3 DEF tick
<1>4. ASSUME NEW c \in Client, exit(c) PROVE HelperInv'
  BY <1>4 DEF exit, Gone
<1>5. ASSUME NEW c \in Client, acknowledge_startup(c) PROVE HelperInv'
  BY <1>5 DEF acknowledge_startup
<1>6. ASSUME NEW c \in Client, confirmAcquire(c) PROVE HelperInv'
  BY <1>6 DEF confirmAcquire
<1>7. ASSUME NEW c \in Client, confirmIdentity(c) PROVE HelperInv'
  BY <1>7 DEF confirmIdentity, confirm_start, Mistake
<1>8. ASSUME NEW c \in Client, confirmTidy(c) PROVE HelperInv'
  <2>1. CASE cleanup_confirmed_backup
    <3>1. UNCHANGED <<pc, lease, updater, client, helper, marker, history>>
      BY <1>8, <2>1 DEF confirmTidy, cleanup_confirmed_backup
    <3> QED BY <1>8, <2>1, <3>1, CleanupEffect DEF confirmTidy
  <2>2. CASE ~cleanup_confirmed_backup
    BY <1>8, <2>2 DEF confirmTidy, Clean
  <2> QED BY <2>1, <2>2
<1>9. ASSUME NEW c \in Client, download(c) PROVE HelperInv'
  BY <1>9 DEF download
<1>10. ASSUME NEW c \in Client, probe(c) PROVE HelperInv'
  BY <1>10 DEF probe
<1>11. ASSUME NEW c \in Client, NEW h \in Helper, recover_after_failed_start(c, h) PROVE HelperInv'
  BY <1>11 DEF recover_after_failed_start, Gone
<1>12. ASSUME NEW c \in Client, NEW h \in Helper, apply_after_exit(c, h) PROVE HelperInv'
  BY <1>12 DEF apply_after_exit, Gone
<1>13. ASSUME NEW h \in Helper, wait(h) PROVE HelperInv'
  BY <1>13 DEF wait
<1>14. ASSUME NEW h \in Helper, verify(h) PROVE HelperInv'
  BY <1>14 DEF verify, Fail, Release, Used
<1>15. ASSUME NEW h \in Helper, swap(h) PROVE HelperInv'
  <2>1. CASE cleanup_confirmed_backup
    <3>1. UNCHANGED <<pc, lease, updater, client, helper, marker, history>>
      BY <1>15, <2>1 DEF swap, cleanup_confirmed_backup
    <3> QED BY <1>15, <2>1, <3>1, CleanupEffect, ZenonT(60) DEF swap
  <2>2. CASE ~cleanup_confirmed_backup
    BY <1>15, <2>2 DEF swap, Clean, Fail, Release
  <2> QED BY <2>1, <2>2
<1>16. ASSUME NEW h \in Helper, prepare_exchange(h) PROVE HelperInv'
  BY <1>16 DEF prepare_exchange
<1>17. ASSUME NEW h \in Helper, stage(h) PROVE HelperInv'
  BY <1>17 DEF stage, Fail, Release
<1>18. ASSUME NEW h \in Helper, swapExchange(h) PROVE HelperInv'
  BY <1>18 DEF swapExchange, exchange
<1>19. ASSUME NEW h \in Helper, unstage(h) PROVE HelperInv'
  BY <1>19 DEF unstage, Fail, Release
<1>20. ASSUME NEW h \in Helper, launch(h) PROVE HelperInv'
  BY <1>20 DEF launch, spawn, NotStarted, Fail, Release
<1>21. ASSUME NEW h \in Helper, started(h) PROVE HelperInv'
  BY <1>21 DEF started, End, Gone
<1>22. ASSUME NEW h \in Helper, stalled(h) PROVE HelperInv'
  BY <1>22 DEF stalled
<1>23. ASSUME NEW h \in Helper, stop(h) PROVE HelperInv'
  BY <1>23 DEF stop, Gone, NotStarted, Fail, Release
<1>24. ASSUME NEW h \in Helper, confirmStarted(h) PROVE HelperInv'
  BY <1>24 DEF confirmStarted, confirm_start
<1>25. ASSUME NEW h \in Helper, tidy(h) PROVE HelperInv'
  <2>1. CASE cleanup_confirmed_backup
    <3>1. UNCHANGED <<pc, lease, updater, client, helper, marker, history>>
      BY <1>25, <2>1 DEF tidy, cleanup_confirmed_backup
    <3> QED BY <1>25, <2>1, <3>1, CleanupEffect DEF tidy
  <2>2. CASE ~cleanup_confirmed_backup
    BY <1>25, <2>2 DEF tidy, Clean, End, Gone
  <2> QED BY <2>1, <2>2
<1>26. ASSUME NEW h \in Helper, rollback(h) PROVE HelperInv'
  <2>1. CASE exchange /\ Go(h, "aside") /\ UNCHANGED <<lease, updater, client, helper, marker>>
    BY <1>26, <2>1 DEF rollback, exchange
  <2>2. CASE RollbackFails(h) /\ UNCHANGED disk
    BY <1>26, <2>2, RollbackFailsTo DEF rollback, Fail, Release, End, Gone
  <2> QED BY <1>26, <2>1, <2>2 DEF rollback
<1>27. ASSUME NEW h \in Helper, aside(h) PROVE HelperInv'
  <2>1. CASE backup' = None /\ Go(h, "clear") /\ UNCHANGED <<lease, updater, client, helper, marker>>
    BY <1>27, <2>1 DEF aside
  <2>2. CASE RollbackFails(h) /\ UNCHANGED backup
    BY <1>27, <2>2, RollbackFailsTo DEF aside, Fail, Release, End, Gone
  <2> QED BY <1>27, <2>1, <2>2 DEF aside
<1>28. ASSUME NEW h \in Helper, clear(h) PROVE HelperInv'
  BY <1>28 DEF clear, Fail, Release
<1>29. ASSUME NEW h \in Helper, recover(h) PROVE HelperInv'
  BY <1>29 DEF recover, End, Gone
<1>30. ASSUME NEW h \in Helper, restore_with_lease(h) PROVE HelperInv'
  BY <1>30 DEF restore_with_lease, Unrestored, End, Gone, Fail, Release, remove, before_exchange
<1>31. ASSUME NEW h \in Helper, forget(h) PROVE HelperInv'
  BY <1>31 DEF forget, Unrestored, End, Gone, Fail, Release
<1>32. ASSUME NEW h \in Helper, reopen(h) PROVE HelperInv'
  BY <1>32 DEF reopen, spawn
<1>33. ASSUME NEW h \in Helper, crash(h) PROVE HelperInv'
  BY <1>33 DEF crash, End, Gone
<1> QED BY <1>1, <1>2, <1>3, <1>4, <1>5, <1>6, <1>7, <1>8, <1>9, <1>10, <1>11, <1>12, <1>13,
           <1>14, <1>15, <1>16, <1>17, <1>18, <1>19, <1>20, <1>21, <1>22, <1>23, <1>24,
           <1>25, <1>26, <1>27, <1>28, <1>29, <1>30, <1>31, <1>32, <1>33
           DEF Next, ClientNext, HelperNext

\* The marker a helper finds was written by a client that runs what is installed now.
LEMMA WatchStep == ASSUME IInv, Next PROVE WatchInv'
<1> USE UpdateConstants DEF IInv, TypeOK, LeaseInv, HelperLeased, ModeInv, HelperInv, WatchInv,
           DiskInv, ClientInv, Disk1, Disk2, Proc, disk, client, helper, history, Go
<1>1. ASSUME NEW c \in Client, start(c) PROVE WatchInv'
  BY <1>1 DEF start, spawn
<1>2. ASSUME NEW c \in Client, observe(c) PROVE WatchInv'
  BY <1>2 DEF observe
<1>3. ASSUME NEW c \in Client, tick(c) PROVE WatchInv'
  BY <1>3 DEF tick
<1>4. ASSUME NEW c \in Client, exit(c) PROVE WatchInv'
  BY <1>4 DEF exit, Gone
<1>5. ASSUME NEW c \in Client, acknowledge_startup(c) PROVE WatchInv'
  BY <1>5 DEF acknowledge_startup
<1>6. ASSUME NEW c \in Client, confirmAcquire(c) PROVE WatchInv'
  BY <1>6 DEF confirmAcquire
<1>7. ASSUME NEW c \in Client, confirmIdentity(c) PROVE WatchInv'
  BY <1>7 DEF confirmIdentity, confirm_start, Mistake
<1>8. ASSUME NEW c \in Client, confirmTidy(c) PROVE WatchInv'
  <2>1. CASE cleanup_confirmed_backup
    <3>1. UNCHANGED <<pc, lease, updater, client, helper, marker, history>>
      BY <1>8, <2>1 DEF confirmTidy, cleanup_confirmed_backup
    <3> QED BY <1>8, <2>1, <3>1, CleanupEffect DEF confirmTidy
  <2>2. CASE ~cleanup_confirmed_backup
    BY <1>8, <2>2 DEF confirmTidy, Clean
  <2> QED BY <2>1, <2>2
<1>9. ASSUME NEW c \in Client, download(c) PROVE WatchInv'
  BY <1>9 DEF download
<1>10. ASSUME NEW c \in Client, probe(c) PROVE WatchInv'
  BY <1>10 DEF probe
<1>11. ASSUME NEW c \in Client, NEW h \in Helper, recover_after_failed_start(c, h) PROVE WatchInv'
  BY <1>11 DEF recover_after_failed_start, Gone
<1>12. ASSUME NEW c \in Client, NEW h \in Helper, apply_after_exit(c, h) PROVE WatchInv'
  BY <1>12 DEF apply_after_exit, Gone
<1>13. ASSUME NEW h \in Helper, wait(h) PROVE WatchInv'
  BY <1>13 DEF wait
<1>14. ASSUME NEW h \in Helper, verify(h) PROVE WatchInv'
  BY <1>14 DEF verify, Fail, Release, Used
<1>15. ASSUME NEW h \in Helper, swap(h) PROVE WatchInv'
  <2>1. CASE cleanup_confirmed_backup
    <3>1. UNCHANGED <<pc, lease, updater, client, helper, marker, history>>
      BY <1>15, <2>1 DEF swap, cleanup_confirmed_backup
    <3> QED BY <1>15, <2>1, <3>1, CleanupEffect DEF swap
  <2>2. CASE ~cleanup_confirmed_backup
    BY <1>15, <2>2 DEF swap, Clean, Fail, Release
  <2> QED BY <2>1, <2>2
<1>16. ASSUME NEW h \in Helper, prepare_exchange(h) PROVE WatchInv'
  BY <1>16 DEF prepare_exchange
<1>17. ASSUME NEW h \in Helper, stage(h) PROVE WatchInv'
  BY <1>17 DEF stage, Fail, Release
<1>18. ASSUME NEW h \in Helper, swapExchange(h) PROVE WatchInv'
  BY <1>18 DEF swapExchange, exchange
<1>19. ASSUME NEW h \in Helper, unstage(h) PROVE WatchInv'
  BY <1>19 DEF unstage, Fail, Release
<1>20. ASSUME NEW h \in Helper, launch(h) PROVE WatchInv'
  BY <1>20 DEF launch, spawn, NotStarted, Fail, Release
<1>21. ASSUME NEW h \in Helper, started(h) PROVE WatchInv'
  BY <1>21 DEF started, End, Gone
<1>22. ASSUME NEW h \in Helper, stalled(h) PROVE WatchInv'
  BY <1>22 DEF stalled
<1>23. ASSUME NEW h \in Helper, stop(h) PROVE WatchInv'
  BY <1>23 DEF stop, Gone, NotStarted, Fail, Release
<1>24. ASSUME NEW h \in Helper, confirmStarted(h) PROVE WatchInv'
  BY <1>24 DEF confirmStarted, confirm_start
<1>25. ASSUME NEW h \in Helper, tidy(h) PROVE WatchInv'
  <2>1. CASE cleanup_confirmed_backup
    <3>1. UNCHANGED <<pc, lease, updater, client, helper, marker, history>>
      BY <1>25, <2>1 DEF tidy, cleanup_confirmed_backup
    <3> QED BY <1>25, <2>1, <3>1, CleanupEffect DEF tidy
  <2>2. CASE ~cleanup_confirmed_backup
    BY <1>25, <2>2 DEF tidy, Clean, End, Gone
  <2> QED BY <2>1, <2>2
<1>26. ASSUME NEW h \in Helper, rollback(h) PROVE WatchInv'
  <2>1. CASE exchange /\ Go(h, "aside") /\ UNCHANGED <<lease, updater, client, helper, marker>>
    BY <1>26, <2>1 DEF rollback, exchange
  <2>2. CASE RollbackFails(h) /\ UNCHANGED disk
    BY <1>26, <2>2, RollbackFailsTo DEF rollback, Fail, Release, End, Gone
  <2> QED BY <1>26, <2>1, <2>2 DEF rollback
<1>27. ASSUME NEW h \in Helper, aside(h) PROVE WatchInv'
  <2>1. CASE backup' = None /\ Go(h, "clear") /\ UNCHANGED <<lease, updater, client, helper, marker>>
    BY <1>27, <2>1 DEF aside
  <2>2. CASE RollbackFails(h) /\ UNCHANGED backup
    BY <1>27, <2>2, RollbackFailsTo DEF aside, Fail, Release, End, Gone
  <2> QED BY <1>27, <2>1, <2>2 DEF aside
<1>28. ASSUME NEW h \in Helper, clear(h) PROVE WatchInv'
  BY <1>28 DEF clear, Fail, Release
<1>29. ASSUME NEW h \in Helper, recover(h) PROVE WatchInv'
  BY <1>29 DEF recover, End, Gone
<1>30. ASSUME NEW h \in Helper, restore_with_lease(h) PROVE WatchInv'
  BY <1>30 DEF restore_with_lease, Unrestored, End, Gone, Fail, Release, remove, before_exchange
<1>31. ASSUME NEW h \in Helper, forget(h) PROVE WatchInv'
  BY <1>31 DEF forget, Unrestored, End, Gone, Fail, Release
<1>32. ASSUME NEW h \in Helper, reopen(h) PROVE WatchInv'
  BY <1>32 DEF reopen, spawn
<1>33. ASSUME NEW h \in Helper, crash(h) PROVE WatchInv'
  BY <1>33 DEF crash, End, Gone
<1> QED BY <1>1, <1>2, <1>3, <1>4, <1>5, <1>6, <1>7, <1>8, <1>9, <1>10, <1>11, <1>12, <1>13,
           <1>14, <1>15, <1>16, <1>17, <1>18, <1>19, <1>20, <1>21, <1>22, <1>23, <1>24,
           <1>25, <1>26, <1>27, <1>28, <1>29, <1>30, <1>31, <1>32, <1>33
           DEF Next, ClientNext, HelperNext

\* A client confirms the installation it runs and has proven.
LEMMA ClientStep == ASSUME IInv, Next PROVE ClientInv'
<1> USE UpdateConstants DEF IInv, TypeOK, LeaseInv, HelperLeased, ClientInv, Proc, ClientPC, disk, client, helper, history, Go
<1>1. ASSUME NEW c \in Client, start(c) PROVE ClientInv'
  BY <1>1 DEF start, spawn
<1>2. ASSUME NEW c \in Client, observe(c) PROVE ClientInv'
  BY <1>2 DEF observe
<1>3. ASSUME NEW c \in Client, tick(c) PROVE ClientInv'
  BY <1>3 DEF tick
<1>4. ASSUME NEW c \in Client, exit(c) PROVE ClientInv'
  BY <1>4 DEF exit, Gone
<1>5. ASSUME NEW c \in Client, acknowledge_startup(c) PROVE ClientInv'
  BY <1>5 DEF acknowledge_startup
<1>6. ASSUME NEW c \in Client, confirmAcquire(c) PROVE ClientInv'
  BY <1>6 DEF confirmAcquire
<1>7. ASSUME NEW c \in Client, confirmIdentity(c) PROVE ClientInv'
  BY <1>7 DEF confirmIdentity, confirm_start, Mistake
<1>8. ASSUME NEW c \in Client, confirmTidy(c) PROVE ClientInv'
  <2>1. CASE cleanup_confirmed_backup
    <3>1. UNCHANGED <<pc, lease, updater, client, helper, marker, history>>
      BY <1>8, <2>1 DEF confirmTidy, cleanup_confirmed_backup
    <3> QED BY <1>8, <2>1, <3>1, CleanupEffect DEF confirmTidy
  <2>2. CASE ~cleanup_confirmed_backup
    BY <1>8, <2>2 DEF confirmTidy, Clean
  <2> QED BY <2>1, <2>2
<1>9. ASSUME NEW c \in Client, download(c) PROVE ClientInv'
  BY <1>9 DEF download
<1>10. ASSUME NEW c \in Client, probe(c) PROVE ClientInv'
  BY <1>10 DEF probe
<1>11. ASSUME NEW c \in Client, NEW h \in Helper, recover_after_failed_start(c, h) PROVE ClientInv'
  BY <1>11 DEF recover_after_failed_start, Gone
<1>12. ASSUME NEW c \in Client, NEW h \in Helper, apply_after_exit(c, h) PROVE ClientInv'
  BY <1>12 DEF apply_after_exit, Gone
<1>13. ASSUME NEW h \in Helper, wait(h) PROVE ClientInv'
  BY <1>13 DEF wait
<1>14. ASSUME NEW h \in Helper, verify(h) PROVE ClientInv'
  BY <1>14 DEF verify, Fail, Release, Used
<1>15. ASSUME NEW h \in Helper, swap(h) PROVE ClientInv'
  <2>1. CASE cleanup_confirmed_backup
    <3>1. UNCHANGED <<pc, lease, updater, client, helper, marker, history>>
      BY <1>15, <2>1 DEF swap, cleanup_confirmed_backup
    <3> QED BY <1>15, <2>1, <3>1, CleanupEffect DEF swap
  <2>2. CASE ~cleanup_confirmed_backup
    BY <1>15, <2>2 DEF swap, Clean, Fail, Release
  <2> QED BY <2>1, <2>2
<1>16. ASSUME NEW h \in Helper, prepare_exchange(h) PROVE ClientInv'
  BY <1>16 DEF prepare_exchange
<1>17. ASSUME NEW h \in Helper, stage(h) PROVE ClientInv'
  BY <1>17 DEF stage, Fail, Release
<1>18. ASSUME NEW h \in Helper, swapExchange(h) PROVE ClientInv'
  BY <1>18 DEF swapExchange, exchange
<1>19. ASSUME NEW h \in Helper, unstage(h) PROVE ClientInv'
  BY <1>19 DEF unstage, Fail, Release
<1>20. ASSUME NEW h \in Helper, launch(h) PROVE ClientInv'
  BY <1>20 DEF launch, spawn, NotStarted, Fail, Release
<1>21. ASSUME NEW h \in Helper, started(h) PROVE ClientInv'
  BY <1>21 DEF started, End, Gone
<1>22. ASSUME NEW h \in Helper, stalled(h) PROVE ClientInv'
  BY <1>22 DEF stalled
<1>23. ASSUME NEW h \in Helper, stop(h) PROVE ClientInv'
  BY <1>23 DEF stop, Gone, NotStarted, Fail, Release
<1>24. ASSUME NEW h \in Helper, confirmStarted(h) PROVE ClientInv'
  BY <1>24 DEF confirmStarted, confirm_start
<1>25. ASSUME NEW h \in Helper, tidy(h) PROVE ClientInv'
  <2>1. CASE cleanup_confirmed_backup
    <3>1. UNCHANGED <<pc, lease, updater, client, helper, marker, history>>
      BY <1>25, <2>1 DEF tidy, cleanup_confirmed_backup
    <3> QED BY <1>25, <2>1, <3>1, CleanupEffect DEF tidy
  <2>2. CASE ~cleanup_confirmed_backup
    BY <1>25, <2>2 DEF tidy, Clean, End, Gone
  <2> QED BY <2>1, <2>2
<1>26. ASSUME NEW h \in Helper, rollback(h) PROVE ClientInv'
  <2>1. CASE exchange /\ Go(h, "aside") /\ UNCHANGED <<lease, updater, client, helper, marker>>
    BY <1>26, <2>1 DEF rollback, exchange
  <2>2. CASE RollbackFails(h) /\ UNCHANGED disk
    BY <1>26, <2>2, RollbackFailsTo DEF rollback, Fail, Release, End, Gone
  <2> QED BY <1>26, <2>1, <2>2 DEF rollback
<1>27. ASSUME NEW h \in Helper, aside(h) PROVE ClientInv'
  <2>1. CASE backup' = None /\ Go(h, "clear") /\ UNCHANGED <<lease, updater, client, helper, marker>>
    BY <1>27, <2>1 DEF aside
  <2>2. CASE RollbackFails(h) /\ UNCHANGED backup
    BY <1>27, <2>2, RollbackFailsTo DEF aside, Fail, Release, End, Gone
  <2> QED BY <1>27, <2>1, <2>2 DEF aside
<1>28. ASSUME NEW h \in Helper, clear(h) PROVE ClientInv'
  BY <1>28 DEF clear, Fail, Release
<1>29. ASSUME NEW h \in Helper, recover(h) PROVE ClientInv'
  BY <1>29 DEF recover, End, Gone
<1>30. ASSUME NEW h \in Helper, restore_with_lease(h) PROVE ClientInv'
  BY <1>30 DEF restore_with_lease, Unrestored, End, Gone, Fail, Release, remove, before_exchange
<1>31. ASSUME NEW h \in Helper, forget(h) PROVE ClientInv'
  BY <1>31 DEF forget, Unrestored, End, Gone, Fail, Release
<1>32. ASSUME NEW h \in Helper, reopen(h) PROVE ClientInv'
  BY <1>32 DEF reopen, spawn
<1>33. ASSUME NEW h \in Helper, crash(h) PROVE ClientInv'
  BY <1>33 DEF crash, End, Gone
<1> QED BY <1>1, <1>2, <1>3, <1>4, <1>5, <1>6, <1>7, <1>8, <1>9, <1>10, <1>11, <1>12, <1>13,
           <1>14, <1>15, <1>16, <1>17, <1>18, <1>19, <1>20, <1>21, <1>22, <1>23, <1>24,
           <1>25, <1>26, <1>27, <1>28, <1>29, <1>30, <1>31, <1>32, <1>33
           DEF Next, ClientNext, HelperNext

----------------------------------------------------------------------------
\* A first installation that has started satisfies the invariant.
LEMMA InvInit == Init => IInv
<1> SUFFICES ASSUME Init PROVE IInv
  OBVIOUS
<1> USE UpdateConstants DEF Init, Proc
<1>1. TypeOK
  BY DEF TypeOK, ClientPC, HelperPC
<1>2. DiskInv /\ LeaseInv
  BY DEF DiskInv, Disk1, Disk2, Good, LeaseInv, HelperLeased
<1>3. ModeInv /\ HelperInv
  BY DEF ModeInv, HelperInv, Disk1, Disk2, Good
<1>4. WatchInv /\ ClientInv
  BY DEF WatchInv, ClientInv
<1> QED BY <1>1, <1>2, <1>3, <1>4 DEF IInv

\* Every step, and every stutter, keeps it.
LEMMA InvStep == IInv /\ [Next]_vars => IInv'
<1> SUFFICES ASSUME IInv, [Next]_vars PROVE IInv'
  OBVIOUS
<1>1. CASE Next
  BY <1>1, TypeStep, DiskStep, LeaseStep, ModeStep, HelperStep, WatchStep, ClientStep DEF IInv
<1>2. CASE UNCHANGED vars
  <2> USE <1>2 DEF IInv, vars, disk, client, helper, history, Disk1, Disk2, Good
  <2>1. TypeOK' /\ LeaseInv' /\ ModeInv'
    BY DEF TypeOK, LeaseInv, ModeInv
  <2>2. DiskInv' /\ HelperInv'
    BY DEF DiskInv, HelperInv
  <2>3. WatchInv' /\ ClientInv'
    BY DEF WatchInv, ClientInv
  <2> QED BY <2>1, <2>2, <2>3
<1> QED BY <1>1, <1>2

\* The inductive invariant holds at every step of every client and helper, whoever dies when.
THEOREM Invariant == Spec => []IInv
<1>1. Init => IInv
  BY InvInit
<1>2. IInv /\ [Next]_vars => IInv'
  BY InvStep
<1> QED BY <1>1, <1>2, PTL DEF Spec

\* The variables have their types; in particular the installed path is never empty, for the
\* exchange is only reached with a bundle at the backup path.
THEOREM TypeCorrect == Spec => []TypeOK
<1>1. IInv => TypeOK
  BY DEF IInv
<1> QED BY <1>1, Invariant, PTL

\* A bundle at the backup path without a receipt is told apart by the journal, whether clients
\* observe their identity in time or not: restore_with_lease and needs_rollback always know
\* which side of the exchange an interrupted helper got to.
THEOREM JournalAlwaysDecides == Spec => []JournalDecides
<1>1. IInv => JournalDecides
  BY DEF IInv, DiskInv, Disk1, Disk2, Good, JournalDecides
<1> QED BY <1>1, Invariant, PTL

\* A restore never brings back a bundle that was not confirmed or that a removal has damaged:
\* what is at the backup path when rollback exchanges it is the whole confirmed predecessor.
LEMMA ExchangedFrom ==
  ASSUME IInv, Next, target' # target
  PROVE  /\ target' = backup
         /\ Disk1 \/ Disk2
<1> USE UpdateConstants DEF IInv, TypeOK, disk, client, helper, history
<1>1. ASSUME NEW h \in Helper, swapExchange(h) PROVE target' = backup /\ Disk1
  BY <1>1 DEF swapExchange, exchange, HelperInv
<1>2. ASSUME NEW h \in Helper, rollback(h) PROVE target' = backup /\ Disk2
  BY <1>2 DEF rollback, exchange, HelperInv
<1>3. ASSUME NEW c \in Client, ClientNext(c) PROVE FALSE
  BY <1>3 DEF ClientNext, start, observe, tick, exit, acknowledge_startup, confirmAcquire,
     confirmIdentity, confirm_start, Mistake, confirmTidy, cleanup_confirmed_backup, download, probe,
     recover_after_failed_start, apply_after_exit
<1>4. ASSUME NEW h \in Helper, HelperNext(h) \/ crash(h), ~swapExchange(h), ~rollback(h) PROVE FALSE
  BY <1>4 DEF HelperNext, wait, verify, swap, cleanup_confirmed_backup, prepare_exchange, stage,
     unstage, launch, started, stalled, stop, confirmStarted, confirm_start, tidy, aside, clear,
     recover, restore_with_lease, forget, reopen, crash
<1> QED BY <1>1, <1>2, <1>3, <1>4 DEF Next

\* The installed bundle changes from a confirmed one to an unconfirmed one or back: neither a
\* helper that rolls back nor one that recovers ever undoes a confirmed startup.
THEOREM ConfirmedIsNotUndone == Spec => ConfirmedNotUndone
<1>1. IInv /\ [Next]_vars => [target' # target => (target \in confirmed) # (target' \in confirmed)]_vars
  <2> SUFFICES ASSUME IInv, Next, target' # target
               PROVE  (target \in confirmed) # (target' \in confirmed)
    BY DEF vars, disk
  <2> QED BY ExchangedFrom DEF Disk1, Disk2, Good
<1> QED BY <1>1, Invariant, PTL DEF Spec, ConfirmedNotUndone

\* Whoever dies at whatever step, the installed bundle has completed a startup or its whole and
\* confirmed predecessor is beside it in the state a restore acts on.  The one way around it is
\* a client that observed the replacement of the bundle it runs and confirmed that, which the
\* run update_observe shows to happen.
THEOREM PredecessorIsKept == Spec => []PredecessorKept
<1>1. IInv => PredecessorKept
  <2> SUFFICES ASSUME IInv PROVE PredecessorKept
    OBVIOUS
  <2>1. CASE Good(target)
    BY <2>1 DEF Good, PredecessorKept, PredecessorAlwaysKept
  <2>2. CASE Disk2
    BY <2>2, UpdateConstants DEF Disk2, Good, IInv, TypeOK, DiskInv, PredecessorKept, PredecessorAlwaysKept, Recoverable
  <2> QED BY <2>1, <2>2 DEF IInv, DiskInv, Disk1
<1> QED BY <1>1, Invariant, PTL
=============================================================================
