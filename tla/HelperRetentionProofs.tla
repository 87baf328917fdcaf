----------------------- MODULE HelperRetentionProofs -----------------------
(***************************************************************************)
(* Proofs about HelperRetention, for every number of copies and helpers:   *)
(* what a process relies on is there, and a copy handed over survives its  *)
(* window.                                                                 *)
(***************************************************************************)
EXTENDS HelperRetention, TLAPS

Own == {"lock", "share", "fill", "have", "spawned"}

\* A thread or helper at work is about a copy, and a pass past try has its exclusive lock.
PlaceInv ==
    /\ \A t \in Thread : pc[t] \notin {"idle", "prune", "make"} => at[t] \in Copy
    /\ \A t \in Thread : pc[t] \in {"recheck", "rename", "delete"} => pruner[at[t]] = t
    /\ \A h \in Helper : pc[h] # "off" => at[h] \in Copy

\* A new copy has a name of its own, and nobody relies on it before its files are written.
OwnInv ==
    /\ \A t, u \in Thread : t # u /\ pc[t] \in Own /\ pc[u] \in Own => at[t] # at[u]
    /\ \A t \in Thread : pc[t] \in Own => at[t] # offered
    /\ \A t \in Thread : pc[t] \in {"lock", "share", "fill"} =>
        at[t] \notin full /\ \A h \in Helper : at[h] # at[t] /\ stage[h] # at[t]

\* Whoever relies on a copy is a reader of it.
ReaderInv ==
    /\ \A t \in Thread : pc[t] \in {"fill", "have", "spawned"} => Client \in readers[at[t]]
    /\ offered # None => Client \in readers[offered]
    /\ \A h \in Helper : pc[h] \in {"holdStage", "shareStage", "held"} => h \in readers[at[h]]
    /\ \A h \in Helper : pc[h] = "held" /\ stage[h] # None => h \in readers[stage[h]]

\* A name that a helper was given is not used again for another copy.
FullInv ==
    /\ \A k \in full : dir[k] # "none"
    /\ \A t \in Thread : pc[t] \in {"have", "spawned"} => Present(at[t])
    /\ \A h \in Helper : pc[h] # "off" /\ dir[at[h]] = "here" => at[h] \in full
    /\ \A h \in Helper : stage[h] # None /\ dir[stage[h]] = "here" => stage[h] \in full

\* Under its lock a pass sees every stamp, but for the one it made itself.
StampInv ==
    /\ \A t \in Thread : pc[t] \in {"try", "recheck", "rename"} /\ dir[at[t]] = "here" => at[t] \in lock
    /\ \A t \in Thread : pc[t] = "rename" /\ dir[at[t]] = "here" => t \in created \/ at[t] \notin fresh

IInv == TypeOK /\ PlaceInv /\ OwnInv /\ ReaderInv /\ FullInv /\ HeldPresent /\ StampInv

----------------------------------------------------------------------------
\* Every step keeps the types, and no lock is both shared and exclusive.
LEMMA TypeStep == ASSUME IInv, Next PROVE TypeOK'
<1> USE RetentionConstants DEF IInv, TypeOK, Thread, Actor, disk, locks, ThreadPC, HelperPC, PlaceInv
<1>1. CASE workerPrunes
  BY <1>1 DEF workerPrunes, Go
<1>2. ASSUME NEW accepted \in BOOLEAN, offer(accepted) PROVE TypeOK'
  BY <1>2 DEF offer, Go, Forget, Release
<1>3. CASE beginExit
  BY <1>3 DEF beginExit, Go
<1>4. CASE beginDownload
  BY <1>4 DEF beginDownload, Go
<1>5. CASE handToDesktop
  BY <1>5 DEF handToDesktop, Go, Forget, Release
<1>6. CASE startClient
  BY <1>6 DEF startClient
<1>7. CASE stopClient
  BY <1>7 DEF stopClient
<1>8. ASSUME NEW t \in Thread, open(t) PROVE TypeOK'
  BY <1>8 DEF open, Go, Forget, open_lock
<1>9. ASSUME NEW t \in Thread, try(t) PROVE TypeOK'
  BY <1>9 DEF try, Go, Forget
<1>10. ASSUME NEW t \in Thread, recheck(t) PROVE TypeOK'
  BY <1>10 DEF recheck, Go, Forget
<1>11. ASSUME NEW t \in Thread, rename(t) PROVE TypeOK'
  BY <1>11 DEF rename, Go
<1>12. ASSUME NEW t \in Thread, delete(t) PROVE TypeOK'
  BY <1>12 DEF delete, Go, Forget, Gone
<1>13. ASSUME NEW t \in Thread, pruned(t) PROVE TypeOK'
  BY <1>13 DEF pruned, Go
<1>14. ASSUME NEW t \in Thread, lockCopy(t) PROVE TypeOK'
  BY <1>14 DEF lockCopy, Go, Forget, open_lock
<1>15. ASSUME NEW t \in Thread, shareCopy(t) PROVE TypeOK'
  BY <1>15 DEF shareCopy, Go, lock_shared
<1>16. ASSUME NEW t \in Thread, fill(t) PROVE TypeOK'
  BY <1>16 DEF fill, Go, Forget, Release, Gone
<1>17. ASSUME NEW t \in Thread, NEW k \in Copy, look(t, k) PROVE TypeOK'
  BY <1>17 DEF look, Go
<1>18. ASSUME NEW t \in Thread, NEW k \in Copy, lookDiscarded(t, k) PROVE TypeOK'
  BY <1>18 DEF lookDiscarded, Gone
<1>19. ASSUME NEW t \in Thread, NEW k \in Copy, make(t, k) PROVE TypeOK'
  BY <1>19 DEF make, Go
<1>20. ASSUME NEW h \in Helper, spawn(h) PROVE TypeOK'
  BY <1>20 DEF spawn
<1>21. ASSUME NEW h \in Helper, hold(h) PROVE TypeOK'
  BY <1>21 DEF hold, holdOpen, holdShare, open_lock, lock_shared, Go
<1>22. ASSUME NEW h \in Helper, hold_snapshot(h) PROVE TypeOK'
  BY <1>22 DEF hold_snapshot, holdOpen, holdShare, open_lock, lock_shared, Go
<1>23. ASSUME NEW h \in Helper, stopHelper(h) PROVE TypeOK'
  BY <1>23 DEF stopHelper, Go, Forget
<1>24. ASSUME NEW k \in Copy, age(k) PROVE TypeOK'
  BY <1>24 DEF age
<1>25. CASE withdraw
  BY <1>25 DEF withdraw, Release
<1> QED BY ZenonT(60), <1>1, <1>2, <1>3, <1>4, <1>5, <1>6, <1>7, <1>8, <1>9, <1>10, <1>11, <1>12, <1>13,
           <1>14, <1>15, <1>16, <1>17, <1>18, <1>19, <1>20, <1>21, <1>22, <1>23, <1>24, <1>25
           DEF Next

\* Nobody takes the exclusive lock from a pass.
LEMMA PlaceStep == ASSUME IInv, Next PROVE PlaceInv'
<1> USE RetentionConstants DEF IInv, TypeOK, Thread, Actor, disk, locks, PlaceInv
<1>1. CASE workerPrunes
  BY <1>1 DEF workerPrunes, Go
<1>2. ASSUME NEW accepted \in BOOLEAN, offer(accepted) PROVE PlaceInv'
  BY <1>2 DEF offer, Go, Forget, Release
<1>3. CASE beginExit
  BY <1>3 DEF beginExit, Go
<1>4. CASE beginDownload
  BY <1>4 DEF beginDownload, Go
<1>5. CASE handToDesktop
  BY <1>5 DEF handToDesktop, Go, Forget, Release
<1>6. CASE startClient
  BY <1>6 DEF startClient
<1>7. CASE stopClient
  BY <1>7 DEF stopClient
<1>8. ASSUME NEW t \in Thread, open(t) PROVE PlaceInv'
  BY <1>8 DEF open, Go, Forget, open_lock
<1>9. ASSUME NEW t \in Thread, try(t) PROVE PlaceInv'
  BY <1>9 DEF try, Go, Forget
<1>10. ASSUME NEW t \in Thread, recheck(t) PROVE PlaceInv'
  BY <1>10 DEF recheck, Go, Forget
<1>11. ASSUME NEW t \in Thread, rename(t) PROVE PlaceInv'
  BY <1>11 DEF rename, Go
<1>12. ASSUME NEW t \in Thread, delete(t) PROVE PlaceInv'
  BY <1>12 DEF delete, Go, Forget, Gone
<1>13. ASSUME NEW t \in Thread, pruned(t) PROVE PlaceInv'
  BY <1>13 DEF pruned, Go
<1>14. ASSUME NEW t \in Thread, lockCopy(t) PROVE PlaceInv'
  BY <1>14 DEF lockCopy, Go, Forget, open_lock
<1>15. ASSUME NEW t \in Thread, shareCopy(t) PROVE PlaceInv'
  BY <1>15 DEF shareCopy, Go, lock_shared
<1>16. ASSUME NEW t \in Thread, fill(t) PROVE PlaceInv'
  BY <1>16 DEF fill, Go, Forget, Release, Gone
<1>17. ASSUME NEW t \in Thread, NEW k \in Copy, look(t, k) PROVE PlaceInv'
  BY <1>17 DEF look, Go
<1>18. ASSUME NEW t \in Thread, NEW k \in Copy, lookDiscarded(t, k) PROVE PlaceInv'
  BY <1>18 DEF lookDiscarded, Gone
<1>19. ASSUME NEW t \in Thread, NEW k \in Copy, make(t, k) PROVE PlaceInv'
  BY <1>19 DEF make, Go
<1>20. ASSUME NEW h \in Helper, spawn(h) PROVE PlaceInv'
  BY <1>20 DEF spawn
<1>21. ASSUME NEW h \in Helper, hold(h) PROVE PlaceInv'
  BY <1>21 DEF hold, holdOpen, holdShare, open_lock, lock_shared, Go
<1>22. ASSUME NEW h \in Helper, hold_snapshot(h) PROVE PlaceInv'
  BY <1>22 DEF hold_snapshot, holdOpen, holdShare, open_lock, lock_shared, Go
<1>23. ASSUME NEW h \in Helper, stopHelper(h) PROVE PlaceInv'
  BY <1>23 DEF stopHelper, Go, Forget
<1>24. ASSUME NEW k \in Copy, age(k) PROVE PlaceInv'
  BY <1>24 DEF age
<1>25. CASE withdraw
  BY <1>25 DEF withdraw, Release
<1> QED BY <1>1, <1>2, <1>3, <1>4, <1>5, <1>6, <1>7, <1>8, <1>9, <1>10, <1>11, <1>12, <1>13,
           <1>14, <1>15, <1>16, <1>17, <1>18, <1>19, <1>20, <1>21, <1>22, <1>23, <1>24, <1>25
           DEF Next

\* retained_directory finds a name that nobody has.
LEMMA OwnStep == ASSUME IInv, Next PROVE OwnInv'
<1> USE RetentionConstants DEF IInv, TypeOK, Thread, Actor, disk, locks,
           PlaceInv, OwnInv, Own, FullInv, HeldPresent, Present
<1>1. CASE workerPrunes
  BY <1>1 DEF workerPrunes, Go
<1>2. ASSUME NEW accepted \in BOOLEAN, offer(accepted) PROVE OwnInv'
  BY <1>2 DEF offer, Go, Forget, Release
<1>3. CASE beginExit
  BY <1>3 DEF beginExit, Go
<1>4. CASE beginDownload
  BY <1>4 DEF beginDownload, Go
<1>5. CASE handToDesktop
  BY <1>5 DEF handToDesktop, Go, Forget, Release
<1>6. CASE startClient
  BY <1>6 DEF startClient
<1>7. CASE stopClient
  BY <1>7 DEF stopClient
<1>8. ASSUME NEW t \in Thread, open(t) PROVE OwnInv'
  BY <1>8 DEF open, Go, Forget, open_lock
<1>9. ASSUME NEW t \in Thread, try(t) PROVE OwnInv'
  BY <1>9 DEF try, Go, Forget
<1>10. ASSUME NEW t \in Thread, recheck(t) PROVE OwnInv'
  BY <1>10 DEF recheck, Go, Forget
<1>11. ASSUME NEW t \in Thread, rename(t) PROVE OwnInv'
  BY <1>11 DEF rename, Go
<1>12. ASSUME NEW t \in Thread, delete(t) PROVE OwnInv'
  BY <1>12 DEF delete, Go, Forget, Gone
<1>13. ASSUME NEW t \in Thread, pruned(t) PROVE OwnInv'
  BY <1>13 DEF pruned, Go
<1>14. ASSUME NEW t \in Thread, lockCopy(t) PROVE OwnInv'
  BY <1>14 DEF lockCopy, Go, Forget, open_lock
<1>15. ASSUME NEW t \in Thread, shareCopy(t) PROVE OwnInv'
  BY <1>15 DEF shareCopy, Go, lock_shared
<1>16. ASSUME NEW t \in Thread, fill(t) PROVE OwnInv'
  BY <1>16 DEF fill, Go, Forget, Release, Gone
<1>17. ASSUME NEW t \in Thread, NEW k \in Copy, look(t, k) PROVE OwnInv'
  BY <1>17 DEF look, Go
<1>18. ASSUME NEW t \in Thread, NEW k \in Copy, lookDiscarded(t, k) PROVE OwnInv'
  BY <1>18 DEF lookDiscarded, Gone
<1>19. ASSUME NEW t \in Thread, NEW k \in Copy, make(t, k) PROVE OwnInv'
  BY <1>19 DEF make, Go
<1>20. ASSUME NEW h \in Helper, spawn(h) PROVE OwnInv'
  BY <1>20 DEF spawn
<1>21. ASSUME NEW h \in Helper, hold(h) PROVE OwnInv'
  BY <1>21 DEF hold, holdOpen, holdShare, open_lock, lock_shared, Go
<1>22. ASSUME NEW h \in Helper, hold_snapshot(h) PROVE OwnInv'
  BY <1>22 DEF hold_snapshot, holdOpen, holdShare, open_lock, lock_shared, Go
<1>23. ASSUME NEW h \in Helper, stopHelper(h) PROVE OwnInv'
  BY <1>23 DEF stopHelper, Go, Forget
<1>24. ASSUME NEW k \in Copy, age(k) PROVE OwnInv'
  BY <1>24 DEF age
<1>25. CASE withdraw
  BY <1>25 DEF withdraw, Release
<1> QED BY ZenonT(60), <1>1, <1>2, <1>3, <1>4, <1>5, <1>6, <1>7, <1>8, <1>9, <1>10, <1>11, <1>12, <1>13,
           <1>14, <1>15, <1>16, <1>17, <1>18, <1>19, <1>20, <1>21, <1>22, <1>23, <1>24, <1>25
           DEF Next

\* A reader is dropped only by the one who relied on it.
LEMMA ReaderStep == ASSUME IInv, Next PROVE ReaderInv'
<1> USE RetentionConstants DEF IInv, TypeOK, Thread, Actor, disk, locks,
           PlaceInv, OwnInv, ReaderInv, Own
<1>1. CASE workerPrunes
  BY <1>1 DEF workerPrunes, Go
<1>2. ASSUME NEW accepted \in BOOLEAN, offer(accepted) PROVE ReaderInv'
  BY <1>2 DEF offer, Go, Forget, Release
<1>3. CASE beginExit
  BY <1>3 DEF beginExit, Go
<1>4. CASE beginDownload
  BY <1>4 DEF beginDownload, Go
<1>5. CASE handToDesktop
  BY <1>5 DEF handToDesktop, Go, Forget, Release
<1>6. CASE startClient
  BY <1>6 DEF startClient
<1>7. CASE stopClient
  BY <1>7 DEF stopClient
<1>8. ASSUME NEW t \in Thread, open(t) PROVE ReaderInv'
  BY <1>8 DEF open, Go, Forget, open_lock
<1>9. ASSUME NEW t \in Thread, try(t) PROVE ReaderInv'
  BY <1>9 DEF try, Go, Forget
<1>10. ASSUME NEW t \in Thread, recheck(t) PROVE ReaderInv'
  BY <1>10 DEF recheck, Go, Forget
<1>11. ASSUME NEW t \in Thread, rename(t) PROVE ReaderInv'
  BY <1>11 DEF rename, Go
<1>12. ASSUME NEW t \in Thread, delete(t) PROVE ReaderInv'
  BY <1>12 DEF delete, Go, Forget, Gone
<1>13. ASSUME NEW t \in Thread, pruned(t) PROVE ReaderInv'
  BY <1>13 DEF pruned, Go
<1>14. ASSUME NEW t \in Thread, lockCopy(t) PROVE ReaderInv'
  BY <1>14 DEF lockCopy, Go, Forget, open_lock
<1>15. ASSUME NEW t \in Thread, shareCopy(t) PROVE ReaderInv'
  BY <1>15 DEF shareCopy, Go, lock_shared
<1>16. ASSUME NEW t \in Thread, fill(t) PROVE ReaderInv'
  BY <1>16 DEF fill, Go, Forget, Release, Gone
<1>17. ASSUME NEW t \in Thread, NEW k \in Copy, look(t, k) PROVE ReaderInv'
  BY <1>17 DEF look, Go
<1>18. ASSUME NEW t \in Thread, NEW k \in Copy, lookDiscarded(t, k) PROVE ReaderInv'
  BY <1>18 DEF lookDiscarded, Gone
<1>19. ASSUME NEW t \in Thread, NEW k \in Copy, make(t, k) PROVE ReaderInv'
  BY <1>19 DEF make, Go
<1>20. ASSUME NEW h \in Helper, spawn(h) PROVE ReaderInv'
  BY <1>20 DEF spawn
<1>21. ASSUME NEW h \in Helper, hold(h) PROVE ReaderInv'
  BY <1>21 DEF hold, holdOpen, holdShare, open_lock, lock_shared, Go
<1>22. ASSUME NEW h \in Helper, hold_snapshot(h) PROVE ReaderInv'
  BY <1>22 DEF hold_snapshot, holdOpen, holdShare, open_lock, lock_shared, Go
<1>23. ASSUME NEW h \in Helper, stopHelper(h) PROVE ReaderInv'
  BY <1>23 DEF stopHelper, Go, Forget
<1>24. ASSUME NEW k \in Copy, age(k) PROVE ReaderInv'
  BY <1>24 DEF age
<1>25. CASE withdraw
  BY <1>25 DEF withdraw, Release
<1> QED BY <1>1, <1>2, <1>3, <1>4, <1>5, <1>6, <1>7, <1>8, <1>9, <1>10, <1>11, <1>12, <1>13,
           <1>14, <1>15, <1>16, <1>17, <1>18, <1>19, <1>20, <1>21, <1>22, <1>23, <1>24, <1>25
           DEF Next

\* The files of a copy go with its directory.
LEMMA FullStep == ASSUME IInv, Next PROVE FullInv'
<1> USE RetentionConstants DEF IInv, TypeOK, Thread, Actor, disk, locks,
           PlaceInv, OwnInv, ReaderInv, FullInv, HeldPresent, Own, Present
<1>1. CASE workerPrunes
  BY <1>1 DEF workerPrunes, Go
<1>2. ASSUME NEW accepted \in BOOLEAN, offer(accepted) PROVE FullInv'
  BY <1>2 DEF offer, Go, Forget, Release
<1>3. CASE beginExit
  BY <1>3 DEF beginExit, Go
<1>4. CASE beginDownload
  BY <1>4 DEF beginDownload, Go
<1>5. CASE handToDesktop
  BY <1>5 DEF handToDesktop, Go, Forget, Release
<1>6. CASE startClient
  BY <1>6 DEF startClient
<1>7. CASE stopClient
  BY <1>7 DEF stopClient
<1>8. ASSUME NEW t \in Thread, open(t) PROVE FullInv'
  BY <1>8 DEF open, Go, Forget, open_lock
<1>9. ASSUME NEW t \in Thread, try(t) PROVE FullInv'
  BY <1>9 DEF try, Go, Forget
<1>10. ASSUME NEW t \in Thread, recheck(t) PROVE FullInv'
  BY <1>10 DEF recheck, Go, Forget
<1>11. ASSUME NEW t \in Thread, rename(t) PROVE FullInv'
  BY <1>11 DEF rename, Go
<1>12. ASSUME NEW t \in Thread, delete(t) PROVE FullInv'
  BY <1>12 DEF delete, Go, Forget, Gone
<1>13. ASSUME NEW t \in Thread, pruned(t) PROVE FullInv'
  BY <1>13 DEF pruned, Go
<1>14. ASSUME NEW t \in Thread, lockCopy(t) PROVE FullInv'
  BY <1>14 DEF lockCopy, Go, Forget, open_lock
<1>15. ASSUME NEW t \in Thread, shareCopy(t) PROVE FullInv'
  BY <1>15 DEF shareCopy, Go, lock_shared
<1>16. ASSUME NEW t \in Thread, fill(t) PROVE FullInv'
  BY <1>16 DEF fill, Go, Forget, Release, Gone
<1>17. ASSUME NEW t \in Thread, NEW k \in Copy, look(t, k) PROVE FullInv'
  BY <1>17 DEF look, Go
<1>18. ASSUME NEW t \in Thread, NEW k \in Copy, lookDiscarded(t, k) PROVE FullInv'
  BY <1>18 DEF lookDiscarded, Gone
<1>19. ASSUME NEW t \in Thread, NEW k \in Copy, make(t, k) PROVE FullInv'
  BY <1>19 DEF make, Go
<1>20. ASSUME NEW h \in Helper, spawn(h) PROVE FullInv'
  BY <1>20 DEF spawn
<1>21. ASSUME NEW h \in Helper, hold(h) PROVE FullInv'
  BY <1>21 DEF hold, holdOpen, holdShare, open_lock, lock_shared, Go
<1>22. ASSUME NEW h \in Helper, hold_snapshot(h) PROVE FullInv'
  BY <1>22 DEF hold_snapshot, holdOpen, holdShare, open_lock, lock_shared, Go
<1>23. ASSUME NEW h \in Helper, stopHelper(h) PROVE FullInv'
  BY <1>23 DEF stopHelper, Go, Forget
<1>24. ASSUME NEW k \in Copy, age(k) PROVE FullInv'
  BY <1>24 DEF age
<1>25. CASE withdraw
  BY <1>25 DEF withdraw, Release
<1> QED BY <1>1, <1>2, <1>3, <1>4, <1>5, <1>6, <1>7, <1>8, <1>9, <1>10, <1>11, <1>12, <1>13,
           <1>14, <1>15, <1>16, <1>17, <1>18, <1>19, <1>20, <1>21, <1>22, <1>23, <1>24, <1>25
           DEF Next

\* A copy with a reader is not renamed, and not deleted either.
LEMMA HeldStep == ASSUME IInv, Next PROVE HeldPresent'
<1> USE RetentionConstants DEF IInv, TypeOK, Thread, Actor, disk, locks,
           PlaceInv, OwnInv, ReaderInv, FullInv, HeldPresent, Own, Present
<1>1. CASE workerPrunes
  BY <1>1 DEF workerPrunes, Go
<1>2. ASSUME NEW accepted \in BOOLEAN, offer(accepted) PROVE HeldPresent'
  BY <1>2 DEF offer, Go, Forget, Release
<1>3. CASE beginExit
  BY <1>3 DEF beginExit, Go
<1>4. CASE beginDownload
  BY <1>4 DEF beginDownload, Go
<1>5. CASE handToDesktop
  BY <1>5 DEF handToDesktop, Go, Forget, Release
<1>6. CASE startClient
  BY <1>6 DEF startClient
<1>7. CASE stopClient
  BY <1>7 DEF stopClient
<1>8. ASSUME NEW t \in Thread, open(t) PROVE HeldPresent'
  BY <1>8 DEF open, Go, Forget, open_lock
<1>9. ASSUME NEW t \in Thread, try(t) PROVE HeldPresent'
  BY <1>9 DEF try, Go, Forget
<1>10. ASSUME NEW t \in Thread, recheck(t) PROVE HeldPresent'
  BY <1>10 DEF recheck, Go, Forget
<1>11. ASSUME NEW t \in Thread, rename(t) PROVE HeldPresent'
  BY <1>11 DEF rename, Go
<1>12. ASSUME NEW t \in Thread, delete(t) PROVE HeldPresent'
  BY <1>12 DEF delete, Go, Forget, Gone
<1>13. ASSUME NEW t \in Thread, pruned(t) PROVE HeldPresent'
  BY <1>13 DEF pruned, Go
<1>14. ASSUME NEW t \in Thread, lockCopy(t) PROVE HeldPresent'
  BY <1>14 DEF lockCopy, Go, Forget, open_lock
<1>15. ASSUME NEW t \in Thread, shareCopy(t) PROVE HeldPresent'
  BY <1>15 DEF shareCopy, Go, lock_shared
<1>16. ASSUME NEW t \in Thread, fill(t) PROVE HeldPresent'
  BY <1>16 DEF fill, Go, Forget, Release, Gone
<1>17. ASSUME NEW t \in Thread, NEW k \in Copy, look(t, k) PROVE HeldPresent'
  BY <1>17 DEF look, Go
<1>18. ASSUME NEW t \in Thread, NEW k \in Copy, lookDiscarded(t, k) PROVE HeldPresent'
  BY <1>18 DEF lookDiscarded, Gone
<1>19. ASSUME NEW t \in Thread, NEW k \in Copy, make(t, k) PROVE HeldPresent'
  BY <1>19 DEF make, Go
<1>20. ASSUME NEW h \in Helper, spawn(h) PROVE HeldPresent'
  BY <1>20 DEF spawn
<1>21. ASSUME NEW h \in Helper, hold(h) PROVE HeldPresent'
  BY <1>21 DEF hold, holdOpen, holdShare, open_lock, lock_shared, Go
<1>22. ASSUME NEW h \in Helper, hold_snapshot(h) PROVE HeldPresent'
  BY <1>22 DEF hold_snapshot, holdOpen, holdShare, open_lock, lock_shared, Go
<1>23. ASSUME NEW h \in Helper, stopHelper(h) PROVE HeldPresent'
  BY <1>23 DEF stopHelper, Go, Forget
<1>24. ASSUME NEW k \in Copy, age(k) PROVE HeldPresent'
  BY <1>24 DEF age
<1>25. CASE withdraw
  BY <1>25 DEF withdraw, Release
<1> QED BY <1>1, <1>2, <1>3, <1>4, <1>5, <1>6, <1>7, <1>8, <1>9, <1>10, <1>11, <1>12, <1>13,
           <1>14, <1>15, <1>16, <1>17, <1>18, <1>19, <1>20, <1>21, <1>22, <1>23, <1>24, <1>25
           DEF Next

\* A copy is stamped by its readers, whom a pass with the lock excludes.
LEMMA StampStep == ASSUME IInv, Next PROVE StampInv'
<1> USE RetentionConstants DEF IInv, TypeOK, Thread, Actor, disk, locks,
           PlaceInv, OwnInv, ReaderInv, FullInv, StampInv, Own
<1>1. CASE workerPrunes
  BY <1>1 DEF workerPrunes, Go
<1>2. ASSUME NEW accepted \in BOOLEAN, offer(accepted) PROVE StampInv'
  BY <1>2 DEF offer, Go, Forget, Release
<1>3. CASE beginExit
  BY <1>3 DEF beginExit, Go
<1>4. CASE beginDownload
  BY <1>4 DEF beginDownload, Go
<1>5. CASE handToDesktop
  BY <1>5 DEF handToDesktop, Go, Forget, Release
<1>6. CASE startClient
  BY <1>6 DEF startClient
<1>7. CASE stopClient
  BY <1>7 DEF stopClient
<1>8. ASSUME NEW t \in Thread, open(t) PROVE StampInv'
  BY <1>8 DEF open, Go, Forget, open_lock
<1>9. ASSUME NEW t \in Thread, try(t) PROVE StampInv'
  BY <1>9 DEF try, Go, Forget
<1>10. ASSUME NEW t \in Thread, recheck(t) PROVE StampInv'
  BY <1>10 DEF recheck, Go, Forget
<1>11. ASSUME NEW t \in Thread, rename(t) PROVE StampInv'
  BY <1>11 DEF rename, Go
<1>12. ASSUME NEW t \in Thread, delete(t) PROVE StampInv'
  BY <1>12 DEF delete, Go, Forget, Gone
<1>13. ASSUME NEW t \in Thread, pruned(t) PROVE StampInv'
  BY <1>13 DEF pruned, Go
<1>14. ASSUME NEW t \in Thread, lockCopy(t) PROVE StampInv'
  BY <1>14 DEF lockCopy, Go, Forget, open_lock
<1>15. ASSUME NEW t \in Thread, shareCopy(t) PROVE StampInv'
  BY <1>15 DEF shareCopy, Go, lock_shared
<1>16. ASSUME NEW t \in Thread, fill(t) PROVE StampInv'
  BY <1>16 DEF fill, Go, Forget, Release, Gone
<1>17. ASSUME NEW t \in Thread, NEW k \in Copy, look(t, k) PROVE StampInv'
  BY <1>17 DEF look, Go
<1>18. ASSUME NEW t \in Thread, NEW k \in Copy, lookDiscarded(t, k) PROVE StampInv'
  BY <1>18 DEF lookDiscarded, Gone
<1>19. ASSUME NEW t \in Thread, NEW k \in Copy, make(t, k) PROVE StampInv'
  BY <1>19 DEF make, Go
<1>20. ASSUME NEW h \in Helper, spawn(h) PROVE StampInv'
  BY <1>20 DEF spawn
<1>21. ASSUME NEW h \in Helper, hold(h) PROVE StampInv'
  BY <1>21 DEF hold, holdOpen, holdShare, open_lock, lock_shared, Go
<1>22. ASSUME NEW h \in Helper, hold_snapshot(h) PROVE StampInv'
  BY <1>22 DEF hold_snapshot, holdOpen, holdShare, open_lock, lock_shared, Go
<1>23. ASSUME NEW h \in Helper, stopHelper(h) PROVE StampInv'
  BY <1>23 DEF stopHelper, Go, Forget
<1>24. ASSUME NEW k \in Copy, age(k) PROVE StampInv'
  BY <1>24 DEF age
<1>25. CASE withdraw
  BY <1>25 DEF withdraw, Release
<1> QED BY <1>1, <1>2, <1>3, <1>4, <1>5, <1>6, <1>7, <1>8, <1>9, <1>10, <1>11, <1>12, <1>13,
           <1>14, <1>15, <1>16, <1>17, <1>18, <1>19, <1>20, <1>21, <1>22, <1>23, <1>24, <1>25
           DEF Next

----------------------------------------------------------------------------
\* An empty directory satisfies the invariant.
LEMMA InvInit == Init => IInv
<1> SUFFICES ASSUME Init PROVE IInv
  OBVIOUS
<1> USE RetentionConstants DEF Init, Thread, Actor
<1>1. TypeOK
  BY DEF TypeOK, ThreadPC, HelperPC
<1>2. PlaceInv /\ OwnInv
  BY DEF PlaceInv, OwnInv, Own
<1>3. ReaderInv /\ FullInv /\ HeldPresent /\ StampInv
  BY DEF ReaderInv, FullInv, HeldPresent, StampInv
<1> QED BY <1>1, <1>2, <1>3 DEF IInv

\* Every step, and every stutter, keeps it.
LEMMA InvStep == IInv /\ [Next]_vars => IInv'
<1> SUFFICES ASSUME IInv, [Next]_vars PROVE IInv'
  OBVIOUS
<1>1. CASE Next
  BY <1>1, TypeStep, PlaceStep, OwnStep, ReaderStep, FullStep, HeldStep, StampStep DEF IInv
<1>2. CASE UNCHANGED vars
  <2> USE <1>2 DEF IInv, vars, disk, locks, Present
  <2>1. TypeOK' /\ PlaceInv' /\ OwnInv'
    BY DEF TypeOK, PlaceInv, OwnInv
  <2>2. ReaderInv' /\ FullInv' /\ HeldPresent' /\ StampInv'
    BY DEF ReaderInv, FullInv, HeldPresent, StampInv
  <2> QED BY <2>1, <2>2
<1> QED BY <1>1, <1>2

\* The inductive invariant holds, whoever dies between which steps of a pass or a handoff.
THEOREM Invariant == Spec => []IInv
<1>1. Init => IInv
  BY InvInit
<1>2. IInv /\ [Next]_vars => IInv'
  BY InvStep
<1> QED BY <1>1, <1>2, PTL DEF Spec

\* The variables have their types; a copy is never locked shared and exclusively at once.
THEOREM TypeCorrect == Spec => []TypeOK
<1>1. IInv => TypeOK
  BY DEF IInv
<1> QED BY <1>1, Invariant, PTL

\* Passes run beside every handoff without the writer lease, and yet the snapshot a client offers
\* and the copy and snapshot a helper holds stay where they are, with their files.
THEOREM HeldIsPresent == Spec => []HeldPresent
<1>1. IInv => HeldPresent
  BY DEF IInv
<1> QED BY <1>1, Invariant, PTL

\* A copy loses its name by a pass that had its lock, or before its files are written.
LEMMA LosesName ==
  ASSUME IInv, Next, NEW k \in full, dir[k] = "here", dir'[k] # "here"
  PROVE  \E t \in Thread : at[t] = k /\ pc[t] = "rename"
<1> USE RetentionConstants DEF IInv, TypeOK, Thread, Actor, disk, locks
<1>1. ASSUME NEW t \in Thread, rename(t) PROVE at[t] = k /\ pc[t] = "rename"
  BY <1>1 DEF rename, PlaceInv
<1>2. ASSUME NEW t \in Thread, fill(t) PROVE FALSE
  BY <1>2 DEF fill, Gone, PlaceInv, OwnInv
<1>3. ASSUME NEW t \in Thread, delete(t) PROVE FALSE
  BY <1>3 DEF delete, Gone, PlaceInv
<1>4. ASSUME NEW t \in Thread, NEW j \in Copy, lookDiscarded(t, j) \/ make(t, j) \/ look(t, j) PROVE FALSE
  BY <1>4 DEF lookDiscarded, Gone, make, look
<1>5. ASSUME NEW t \in Thread,
             open(t) \/ try(t) \/ recheck(t) \/ pruned(t) \/ lockCopy(t) \/ shareCopy(t)
      PROVE  FALSE
  BY <1>5 DEF open, try, recheck, pruned, lockCopy, shareCopy, open_lock
<1>6. ASSUME NEW h \in Helper, spawn(h) \/ hold(h) \/ hold_snapshot(h) \/ stopHelper(h) PROVE FALSE
  BY <1>6 DEF spawn, hold, hold_snapshot, stopHelper, holdOpen, holdShare, open_lock
<1>7. ASSUME workerPrunes \/ withdraw \/ beginExit \/ beginDownload \/ handToDesktop \/ startClient \/
             stopClient \/ (\E j \in Copy : age(j)) \/ \E accepted \in BOOLEAN : offer(accepted)
      PROVE  FALSE
  BY <1>7 DEF workerPrunes, offer, withdraw, beginExit, beginDownload, handToDesktop, startClient, stopClient, age
<1> QED BY <1>1, <1>2, <1>3, <1>4, <1>5, <1>6, <1>7 DEF Next

\* A copy that has been stamped for a handoff keeps its name as long as its window lasts, although
\* a pass may have judged it idle before; the exception is a pass that made the lock file itself.
THEOREM WindowIsKept == Spec => WindowKept
<1>1. IInv /\ [Next]_vars =>
        [\A k \in full \cap fresh :
           dir[k] = "here" => dir'[k] = "here" \/ \E t \in created : at[t] = k]_vars
  <2> SUFFICES ASSUME IInv, Next, NEW k \in full \cap fresh, dir[k] = "here", dir'[k] # "here"
               PROVE  \E t \in created : at[t] = k
    OBVIOUS
  <2>1. PICK t \in Thread : at[t] = k /\ pc[t] = "rename"
    BY LosesName
  <2> QED BY <2>1 DEF IInv, StampInv
<1> QED BY <1>1, Invariant, PTL DEF Spec, WindowKept
=============================================================================
