------------------------- MODULE UpdateOfferProofs -------------------------
(***************************************************************************)
(* Proofs about UpdateOffer, for every set of releases and every number of *)
(* retries: no wish is forgotten, the offer is of the chosen channel, it   *)
(* only advances, and a notice is followed.                                *)
(***************************************************************************)
EXTENDS UpdateOffer, TLAPS

\* A worker of the current generation has the preferences and the wish of now.
MineInv ==
    /\ mine => /\ running /\ ~requested /\ w.switch = switchNow
               /\ w.channel = channel /\ w.checks = checks
    /\ switchNow => consented
    /\ hint # None => checks
    /\ w.hint # None => w.checks /\ w.mode \in {"manual", "fresh"}
    /\ step = "wait" => w.hint # None

Looked == {"stage", "gate", "fetch", "decide", "transfer", "promote", "publish"}

\* What a worker has found out by the step it is at.
StepInv ==
    /\ step \in {"decide", "transfer", "promote", "publish"} =>
        w.selected \in Build /\ accepts_release(w.channel, w.selected)
    /\ step \in {"transfer", "promote", "publish"} =>
        (w.switch \/ w.selected > Installed) /\ supersedes(w.selected, w.switch)
    /\ step = "finish" /\ mine /\ w.hint # None => w.selected # None \/ w.outcome = "failed"
    /\ step \in Looked /\ mine /\ offer # None => w.staged = offer.build

IInv == TypeOK /\ MineInv /\ StepInv /\ NoWorkLost /\ OfferChosen

----------------------------------------------------------------------------
\* What worker::start gives a new worker.
Started(mode, taken) ==
    [mode |-> mode, switch |-> switchNow, channel |-> channel, checks |-> checks, hint |-> taken,
     retained |-> None, staged |-> None, selected |-> None, retried |-> FALSE, outcome |-> "ok"]

\* A call of start begins a worker with the state of now, or none; one that takes a notice asks
\* the server.
LEMMA StartEffect ==
  ASSUME NEW force \in BOOLEAN, start(force), hint \in Hint \cup {None}
  PROVE  \/ UNCHANGED <<step, w, mine>>
         \/ /\ ~requested /\ step' \in {"look", "wait"}
            /\ \E mode \in {"manual", "cached", "fresh", "scheduled"}, taken \in Hint \cup {None} :
                /\ w' = Started(mode, taken)
                /\ taken # None => taken = hint /\ mode \in {"manual", "fresh"}
                /\ step' = "wait" => taken # None
<1> DEFINE taken == IF force \/ checkNow THEN None ELSE hint
<1>1. FetchMode(force) \in {"manual", "cached", "fresh", "scheduled"} /\ taken \in Hint \cup {None}
  BY DEF FetchMode
<1>2. taken # None => taken = hint /\ FetchMode(force) \in {"manual", "fresh"}
  BY DEF FetchMode
<1>3. CASE updater /\ ~running /\ ~requested /\ complete
  <2>1. /\ step' = IF taken = None THEN "look" ELSE "wait"
        /\ w' = [Idle EXCEPT !.mode = FetchMode(force), !.switch = switchNow, !.channel = channel,
                             !.checks = checks, !.hint = taken]
    BY <1>3 DEF start
  <2> HIDE DEF taken
  <2>2. w' = Started(FetchMode(force), taken)
    BY <2>1 DEF Idle, Started
  <2> QED BY <1>1, <1>2, <1>3, <2>1, <2>2
<1>4. CASE ~(updater /\ ~running /\ ~requested /\ complete)
  BY <1>4 DEF start, worker
<1> QED BY <1>3, <1>4

\* A release offered or not, State has its type.
LEMMA OffersType ==
  ASSUME TypeOK, NEW b \in Build, Offers(b)
  PROVE  offer' \in [build : Build, switch : BOOLEAN] \cup {None} /\ switchAvailable' \in BOOLEAN
<1>1. w.switch \in BOOLEAN
  BY DEF TypeOK
<1>2. CASE accepts_worker
  <2>1. offer' = [build |-> b, switch |-> w.switch]
    BY <1>2 DEF Offers
  <2>2. switchAvailable' = FALSE
    BY <1>2 DEF Offers
  <2> QED BY <1>1, <2>1, <2>2
<1>3. CASE ~accepts_worker
  BY <1>3 DEF Offers, TypeOK
<1> QED BY <1>2, <1>3

\* Every step keeps the types.
LEMMA TypeStep == ASSUME IInv, Next PROVE TypeOK'
<1> USE OfferConstants DEF IInv, TypeOK, Hint, running, accepts_worker, settings, wishes, worker, memory, Idle
<1>1. CASE restartClient
  BY <1>1 DEF restartClient, NewProcess, Idle
<1>2. CASE tick
  <2>1. calls' \subseteq BOOLEAN
    BY <1>2 DEF tick
  <2>2. updater' \in BOOLEAN
    BY <1>2 DEF tick
  <2>3. UNCHANGED <<channel, checks, complete, offer, requested, switchNow, switchAvailable,
                    checkNow, manualCheck, hint, step, w, mine, ready, consented>>
    BY <1>2 DEF tick
  <2> QED BY <2>1, <2>2, <2>3
<1>3. CASE acknowledge_startup
  <2>1. calls' \subseteq BOOLEAN
    BY <1>3 DEF acknowledge_startup
  <2>2. complete' \in BOOLEAN /\ checkNow' \in BOOLEAN
    BY <1>3 DEF acknowledge_startup
  <2>3. UNCHANGED <<channel, checks, updater, offer, requested, switchNow, switchAvailable,
                    manualCheck, hint, step, w, mine, ready, consented>>
    BY <1>3 DEF acknowledge_startup
  <2> QED BY <2>1, <2>2, <2>3
<1>4. CASE request_check
  <2>1. calls' \subseteq BOOLEAN
    BY <1>4 DEF request_check
  <2>2. manualCheck' \in BOOLEAN /\ checkNow' \in BOOLEAN
    BY <1>4 DEF request_check
  <2>3. UNCHANGED <<channel, checks, updater, complete, offer, requested, switchNow,
                    switchAvailable, hint, step, w, mine, ready, consented>>
    BY <1>4 DEF request_check
  <2> QED BY <2>1, <2>2, <2>3
<1>5. CASE request_switch
  <2>1. calls' \subseteq BOOLEAN
    BY <1>5 DEF request_switch
  <2>2. switchNow' \in BOOLEAN /\ switchAvailable' \in BOOLEAN
    BY <1>5 DEF request_switch
  <2>3. mine' \in BOOLEAN /\ consented' \in BOOLEAN
    BY <1>5 DEF request_switch
  <2>4. UNCHANGED <<channel, checks, updater, complete, offer, requested, checkNow,
                    manualCheck, hint, step, w, ready>>
    BY <1>5 DEF request_switch
  <2> QED BY <2>1, <2>2, <2>3, <2>4
<1>6. CASE request_restart
  <2>1. requested' \in BOOLEAN /\ mine' \in BOOLEAN
    BY <1>6 DEF request_restart
  <2>2. UNCHANGED <<channel, checks, updater, complete, offer, switchNow, switchAvailable,
                    checkNow, manualCheck, hint, calls, step, w, ready, consented>>
    BY <1>6 DEF request_restart
  <2> QED BY <2>1, <2>2
<1>7. ASSUME NEW c \in {"beta", "nightly"}, NEW k \in BOOLEAN, configure(c, k) PROVE TypeOK'
  <2>1. calls' \subseteq BOOLEAN
    BY <1>7 DEF configure
  <2>2. channel' \in {"beta", "nightly"} /\ checks' \in BOOLEAN
    BY <1>7 DEF configure
  <2>3. manualCheck' \in BOOLEAN /\ mine' \in BOOLEAN
    BY <1>7 DEF configure
  <2>4. hint' \in Hint \cup {None}
    BY <1>7 DEF configure
  <2>5. offer' \in [build : Build, switch : BOOLEAN] \cup {None} /\ consented' \in BOOLEAN
    BY <1>7 DEF configure
  <2>6. switchNow' \in BOOLEAN /\ switchAvailable' \in BOOLEAN
    BY <1>7 DEF configure
  <2>7. UNCHANGED <<updater, complete, requested, checkNow, step, w, ready>>
    BY <1>7 DEF configure
  <2> QED BY <2>1, <2>2, <2>3, <2>4, <2>5, <2>6, <2>7
<1>8. ASSUME NEW b \in Build \cup {Legacy}, release_published(b) PROVE TypeOK'
  <2>1. calls' \subseteq BOOLEAN
    BY <1>8 DEF release_published
  <2>2. hint' \in Hint \cup {None}
    BY <1>8 DEF release_published
  <2>3. UNCHANGED <<channel, checks, updater, complete, offer, requested, switchNow,
                    switchAvailable, checkNow, manualCheck, step, w, mine, ready, consented>>
    BY <1>8 DEF release_published
  <2> QED BY <2>1, <2>2, <2>3
<1>9. ASSUME NEW force \in BOOLEAN, start(force) PROVE TypeOK'
  <2>1. calls' \subseteq BOOLEAN
    BY <1>9 DEF start
  <2>2. checkNow' \in BOOLEAN /\ manualCheck' \in BOOLEAN /\ mine' \in BOOLEAN
    BY <1>9 DEF start
  <2>3. /\ step' \in {"off", "wait", "look", "forget", "stage", "gate", "fetch", "decide", "transfer",
                      "promote", "publish", "finish"}
        /\ w' \in [mode : {"none", "manual", "cached", "fresh", "scheduled"}, switch : BOOLEAN,
                  channel : {"beta", "nightly"}, checks : BOOLEAN, hint : Hint \cup {None},
                  retained : Build \cup {None}, staged : Build \cup {None}, selected : Build \cup {None},
                  retried : BOOLEAN, outcome : {"ok", "failed", "behind"}]
    <3>1. CASE UNCHANGED <<step, w>>
      BY <3>1
    <3>2. ASSUME NEW mode \in {"manual", "cached", "fresh", "scheduled"}, NEW taken \in Hint \cup {None},
                 step' \in {"look", "wait"}, w' = Started(mode, taken)
          PROVE  w' \in [mode : {"none", "manual", "cached", "fresh", "scheduled"}, switch : BOOLEAN,
                        channel : {"beta", "nightly"}, checks : BOOLEAN, hint : Hint \cup {None},
                        retained : Build \cup {None}, staged : Build \cup {None}, selected : Build \cup {None},
                        retried : BOOLEAN, outcome : {"ok", "failed", "behind"}]
      BY <3>2 DEF Started
    <3> QED BY <1>9, <3>1, <3>2, StartEffect
  <2>4. UNCHANGED <<channel, checks, updater, complete, offer, requested, switchNow,
                    switchAvailable, hint, ready, consented>>
    BY <1>9 DEF start
  <2> QED BY <2>1, <2>2, <2>3, <2>4
<1>10. CASE wait_announcement
  BY <1>10 DEF wait_announcement
<1>11. CASE runFails
  BY <1>11 DEF runFails, Ends
<1>12. CASE retry_missing
  <2>1. step' = "look"
    BY <1>12 DEF retry_missing
  <2>2. w' \in [mode : {"none", "manual", "cached", "fresh", "scheduled"}, switch : BOOLEAN,
              channel : {"beta", "nightly"}, checks : BOOLEAN, hint : Hint \cup {None},
              retained : Build \cup {None}, staged : Build \cup {None}, selected : Build \cup {None},
              retried : BOOLEAN, outcome : {"ok", "failed", "behind"}]
    BY <1>12 DEF retry_missing
  <2>3. UNCHANGED <<channel, checks, updater, complete, offer, requested, switchNow,
                    switchAvailable, checkNow, manualCheck, hint, calls, mine, ready,
                    consented>>
    BY <1>12 DEF retry_missing
  <2> QED BY <2>1, <2>2, <2>3
<1>13. CASE retained_manifest
  <2>1. step' \in {"stage", "forget"}
    BY <1>13 DEF retained_manifest
  <2>2. UNCHANGED <<channel, checks, updater, complete, offer, requested, switchNow,
                    switchAvailable, checkNow, manualCheck, hint, calls, mine, ready, consented>>
    BY <1>13 DEF retained_manifest
  <2>3. w' \in [mode : {"none", "manual", "cached", "fresh", "scheduled"}, switch : BOOLEAN,
              channel : {"beta", "nightly"}, checks : BOOLEAN, hint : Hint \cup {None},
              retained : Build \cup {None}, staged : Build \cup {None}, selected : Build \cup {None},
              retried : BOOLEAN, outcome : {"ok", "failed", "behind"}]
    <3>1. offer # None => offer.build \in Build
      OBVIOUS
    <3>2. CASE w' = [w EXCEPT !.retained = None]
      BY <3>2
    <3>3. CASE offer # None /\ w' = [w EXCEPT !.retained = offer.build]
      BY <3>1, <3>3
    <3>4. CASE offer # None /\ w' = [w EXCEPT !.retained = offer.build, !.staged = offer.build]
      BY <3>1, <3>4
    <3> QED BY <1>13, <3>2, <3>3, <3>4 DEF retained_manifest
  <2> QED BY <2>1, <2>2, <2>3
<1>14. CASE forgetOffer
  BY <1>14 DEF forgetOffer
<1>15. CASE publishStage
  <2>1. step' = "gate"
    BY <1>15 DEF publishStage
  <2>2. w' \in [mode : {"none", "manual", "cached", "fresh", "scheduled"}, switch : BOOLEAN,
              channel : {"beta", "nightly"}, checks : BOOLEAN, hint : Hint \cup {None},
              retained : Build \cup {None}, staged : Build \cup {None}, selected : Build \cup {None},
              retried : BOOLEAN, outcome : {"ok", "failed", "behind"}]
    BY <1>15, ZenonT(60) DEF publishStage
  <2>3. offer' \in [build : Build, switch : BOOLEAN] \cup {None} /\ switchAvailable' \in BOOLEAN
    BY <1>15, OffersType DEF publishStage
  <2>4. UNCHANGED <<channel, checks, updater, complete, requested, switchNow, checkNow,
                    manualCheck, hint, calls, mine, ready, consented>>
    BY <1>15 DEF publishStage
  <2> QED BY <2>1, <2>2, <2>3, <2>4
<1>16. CASE gate
  BY <1>16 DEF gate, Ends, set_switch_offer
<1>17. ASSUME NEW b \in Build, select(b) PROVE TypeOK'
  BY <1>17 DEF select
<1>18. CASE decide
  BY <1>18 DEF decide, Recorded, Ends, set_switch_offer, supersedes
<1>19. CASE transfer
  BY <1>19 DEF transfer
<1>20. CASE promote
  BY <1>20 DEF promote
<1>21. CASE publish
  <2>1. step' = "finish"
    BY <1>21 DEF publish, Recorded, Ends
  <2>2. w' \in [mode : {"none", "manual", "cached", "fresh", "scheduled"}, switch : BOOLEAN,
              channel : {"beta", "nightly"}, checks : BOOLEAN, hint : Hint \cup {None},
              retained : Build \cup {None}, staged : Build \cup {None}, selected : Build \cup {None},
              retried : BOOLEAN, outcome : {"ok", "failed", "behind"}]
    BY <1>21 DEF publish, Recorded, Ends
  <2>3. offer' \in [build : Build, switch : BOOLEAN] \cup {None} /\ switchAvailable' \in BOOLEAN
    BY <1>21, OffersType DEF publish, StepInv
  <2>4. UNCHANGED <<channel, checks, updater, complete, requested, switchNow, checkNow,
                    manualCheck, hint, calls, mine, ready, consented>>
    BY <1>21 DEF publish
  <2> QED BY <2>1, <2>2, <2>3, <2>4
<1>22. CASE finish
  <2>1. calls' \subseteq BOOLEAN
    BY <1>22 DEF finish
  <2>2. step' = "off"
    BY <1>22 DEF finish
  <2>3. w' \in [mode : {"none", "manual", "cached", "fresh", "scheduled"}, switch : BOOLEAN,
              channel : {"beta", "nightly"}, checks : BOOLEAN, hint : Hint \cup {None},
              retained : Build \cup {None}, staged : Build \cup {None}, selected : Build \cup {None},
              retried : BOOLEAN, outcome : {"ok", "failed", "behind"}]
    BY <1>22 DEF finish
  <2>4. hint' \in Hint \cup {None}
    BY <1>22 DEF finish, finish_announcement
  <2>5. switchNow' \in BOOLEAN /\ switchAvailable' \in BOOLEAN /\ mine' \in BOOLEAN
    BY <1>22 DEF finish
  <2>6. UNCHANGED <<channel, checks, updater, complete, offer, requested, checkNow,
                    manualCheck, ready, consented>>
    BY <1>22 DEF finish
  <2> QED BY <2>1, <2>2, <2>3, <2>4, <2>5, <2>6
<1> QED BY <1>1, <1>2, <1>3, <1>4, <1>5, <1>6, <1>7, <1>8, <1>9, <1>10, <1>11, <1>12, <1>13,
           <1>14, <1>15, <1>16, <1>17, <1>18, <1>19, <1>20, <1>21, <1>22
           DEF Next

\* A change of preferences or a new wish makes the worker one of an earlier generation.
LEMMA MineStep == ASSUME IInv, Next PROVE MineInv'
<1> USE OfferConstants DEF IInv, TypeOK, Hint, running, accepts_worker, settings, wishes, worker, memory, MineInv
<1>1. CASE restartClient
  BY <1>1 DEF restartClient, NewProcess, Idle
<1>2. CASE tick
  BY <1>2 DEF tick
<1>3. CASE acknowledge_startup
  BY <1>3 DEF acknowledge_startup
<1>4. CASE request_check
  BY <1>4 DEF request_check
<1>5. CASE request_switch
  BY <1>5 DEF request_switch
<1>6. CASE request_restart
  BY <1>6 DEF request_restart
<1>7. ASSUME NEW c \in {"beta", "nightly"}, NEW k \in BOOLEAN, configure(c, k) PROVE MineInv'
  BY <1>7 DEF configure
<1>8. ASSUME NEW b \in Build \cup {Legacy}, release_published(b) PROVE MineInv'
  BY <1>8 DEF release_published
<1>9. ASSUME NEW force \in BOOLEAN, start(force) PROVE MineInv'
  <2>1. CASE UNCHANGED <<step, w, mine>>
    BY <1>9, <2>1 DEF start
  <2>2. ASSUME NEW mode \in {"manual", "cached", "fresh", "scheduled"}, NEW taken \in Hint \cup {None},
               ~requested, step' \in {"look", "wait"}, w' = Started(mode, taken),
               taken # None => taken = hint /\ mode \in {"manual", "fresh"},
               step' = "wait" => taken # None
        PROVE  MineInv'
    <3>1. UNCHANGED <<settings, requested, switchNow, hint, consented>>
      BY <1>9 DEF start
    <3> QED BY <2>2, <3>1 DEF Started
  <2> QED BY <1>9, <2>1, <2>2, StartEffect
<1>10. CASE wait_announcement
  <2>1. UNCHANGED <<settings, requested, switchNow, hint, consented, mine>> /\ step' = "look"
    BY <1>10 DEF wait_announcement
  <2>2. UNCHANGED <<w.switch, w.channel, w.checks, w.mode>>
    BY <1>10 DEF wait_announcement
  <2>3. w'.hint \in {None, w.hint} \/ (mine /\ w'.hint = hint)
    BY <1>10 DEF wait_announcement
  <2>4. w.hint # None \/ (mine /\ hint # None) => w.checks /\ w.mode \in {"manual", "fresh"}
    BY <1>10 DEF wait_announcement
  <2>5. mine' => ~requested' /\ w'.switch = switchNow' /\ w'.channel = channel' /\ w'.checks = checks'
    BY <2>1, <2>2
  <2> QED BY <2>1, <2>2, <2>3, <2>4, <2>5
<1>11. CASE runFails
  BY <1>11 DEF runFails, Ends
<1>12. CASE retry_missing
  BY <1>12 DEF retry_missing
<1>13. CASE retained_manifest
  <2>1. step' \in {"stage", "forget"}
    BY <1>13 DEF retained_manifest
  <2>2. UNCHANGED <<channel, checks, updater, complete, offer, requested, switchNow,
                    switchAvailable, checkNow, manualCheck, hint, calls, mine, ready, consented>>
    BY <1>13 DEF retained_manifest
  <2>3. CASE w' = [w EXCEPT !.retained = None]
    BY <2>1, <2>2, <2>3
  <2>4. CASE offer # None /\ w' = [w EXCEPT !.retained = offer.build]
    BY <2>1, <2>2, <2>4
  <2>5. CASE offer # None /\ w' = [w EXCEPT !.retained = offer.build, !.staged = offer.build]
    <3>1. offer.build \in Build
      BY <2>5
    <3> QED BY <2>1, <2>2, <2>5, <3>1
  <2> QED BY <1>13, <2>3, <2>4, <2>5 DEF retained_manifest
<1>14. CASE forgetOffer
  BY <1>14 DEF forgetOffer
<1>15. CASE publishStage
  BY <1>15 DEF publishStage, Permitted, supersedes, Offers
<1>16. CASE gate
  BY <1>16 DEF gate, Ends, set_switch_offer
<1>17. ASSUME NEW b \in Build, select(b) PROVE MineInv'
  BY <1>17 DEF select
<1>18. CASE decide
  BY <1>18 DEF decide, Recorded, Ends, set_switch_offer, supersedes
<1>19. CASE transfer
  BY <1>19 DEF transfer
<1>20. CASE promote
  BY <1>20 DEF promote
<1>21. CASE publish
  BY <1>21 DEF publish, Recorded, Ends, Offers
<1>22. CASE finish
  BY <1>22 DEF finish, finish_announcement, Idle
<1> QED BY <1>1, <1>2, <1>3, <1>4, <1>5, <1>6, <1>7, <1>8, <1>9, <1>10, <1>11, <1>12, <1>13,
           <1>14, <1>15, <1>16, <1>17, <1>18, <1>19, <1>20, <1>21, <1>22
           DEF Next

\* A worker goes on from what it has found out.
LEMMA StepStep == ASSUME IInv, Next PROVE StepInv'
<1> USE OfferConstants DEF IInv, TypeOK, Hint, running, accepts_worker, settings, wishes, worker, memory,
           MineInv, StepInv, Looked, supersedes, accepts_release
<1>1. CASE restartClient
  BY <1>1 DEF restartClient, NewProcess, Idle
<1>2. CASE tick
  BY <1>2 DEF tick
<1>3. CASE acknowledge_startup
  BY <1>3 DEF acknowledge_startup
<1>4. CASE request_check
  BY <1>4 DEF request_check
<1>5. CASE request_switch
  BY <1>5 DEF request_switch
<1>6. CASE request_restart
  BY <1>6 DEF request_restart
<1>7. ASSUME NEW c \in {"beta", "nightly"}, NEW k \in BOOLEAN, configure(c, k) PROVE StepInv'
  BY <1>7 DEF configure
<1>8. ASSUME NEW b \in Build \cup {Legacy}, release_published(b) PROVE StepInv'
  BY <1>8 DEF release_published
<1>9. ASSUME NEW force \in BOOLEAN, start(force) PROVE StepInv'
  BY <1>9 DEF start, FetchMode, Idle
<1>10. CASE wait_announcement
  BY <1>10 DEF wait_announcement
<1>11. CASE runFails
  BY <1>11 DEF runFails, Ends
<1>12. CASE retry_missing
  BY <1>12 DEF retry_missing
<1>13. CASE retained_manifest
  BY <1>13 DEF retained_manifest
<1>14. CASE forgetOffer
  BY <1>14 DEF forgetOffer
<1>15. CASE publishStage
  BY <1>15 DEF publishStage, Permitted, supersedes, Offers
<1>16. CASE gate
  BY <1>16 DEF gate, Ends, set_switch_offer
<1>17. ASSUME NEW b \in Build, select(b) PROVE StepInv'
  BY <1>17 DEF select
<1>18. CASE decide
  BY <1>18 DEF decide, Recorded, Ends, set_switch_offer, supersedes
<1>19. CASE transfer
  BY <1>19 DEF transfer
<1>20. CASE promote
  BY <1>20 DEF promote
<1>21. CASE publish
  BY <1>21 DEF publish, Recorded, Ends, Offers
<1>22. CASE finish
  BY <1>22 DEF finish, finish_announcement, Idle
<1> QED BY <1>1, <1>2, <1>3, <1>4, <1>5, <1>6, <1>7, <1>8, <1>9, <1>10, <1>11, <1>12, <1>13,
           <1>14, <1>15, <1>16, <1>17, <1>18, <1>19, <1>20, <1>21, <1>22
           DEF Next

\* What is asked while a worker runs is taken up when it ends.
LEMMA WorkStep == ASSUME IInv, Next PROVE NoWorkLost'
<1> USE OfferConstants DEF IInv, TypeOK, Hint, running, accepts_worker, settings, wishes, worker, memory, MineInv, NoWorkLost
<1>1. CASE restartClient
  BY <1>1 DEF restartClient, NewProcess, Idle
<1>2. CASE tick
  BY <1>2 DEF tick
<1>3. CASE acknowledge_startup
  BY <1>3 DEF acknowledge_startup
<1>4. CASE request_check
  BY <1>4 DEF request_check
<1>5. CASE request_switch
  BY <1>5 DEF request_switch
<1>6. CASE request_restart
  BY <1>6 DEF request_restart
<1>7. ASSUME NEW c \in {"beta", "nightly"}, NEW k \in BOOLEAN, configure(c, k) PROVE NoWorkLost'
  BY <1>7 DEF configure
<1>8. ASSUME NEW b \in Build \cup {Legacy}, release_published(b) PROVE NoWorkLost'
  BY <1>8 DEF release_published
<1>9. ASSUME NEW force \in BOOLEAN, start(force) PROVE NoWorkLost'
  BY <1>9 DEF start, FetchMode, Idle
<1>10. CASE wait_announcement
  BY <1>10 DEF wait_announcement
<1>11. CASE runFails
  BY <1>11 DEF runFails, Ends
<1>12. CASE retry_missing
  BY <1>12 DEF retry_missing
<1>13. CASE retained_manifest
  BY <1>13 DEF retained_manifest
<1>14. CASE forgetOffer
  BY <1>14 DEF forgetOffer
<1>15. CASE publishStage
  BY <1>15 DEF publishStage, Permitted, supersedes, Offers
<1>16. CASE gate
  BY <1>16 DEF gate, Ends, set_switch_offer
<1>17. ASSUME NEW b \in Build, select(b) PROVE NoWorkLost'
  BY <1>17 DEF select
<1>18. CASE decide
  BY <1>18 DEF decide, Recorded, Ends, set_switch_offer, supersedes
<1>19. CASE transfer
  BY <1>19 DEF transfer
<1>20. CASE promote
  BY <1>20 DEF promote
<1>21. CASE publish
  BY <1>21 DEF publish, Recorded, Ends, Offers
<1>22. CASE finish
  BY <1>22 DEF finish, finish_announcement, Idle
<1> QED BY <1>1, <1>2, <1>3, <1>4, <1>5, <1>6, <1>7, <1>8, <1>9, <1>10, <1>11, <1>12, <1>13,
           <1>14, <1>15, <1>16, <1>17, <1>18, <1>19, <1>20, <1>21, <1>22
           DEF Next

\* Only a worker of the current generation makes an offer.
LEMMA OfferStep == ASSUME IInv, Next PROVE OfferChosen'
<1> USE OfferConstants DEF IInv, TypeOK, Hint, running, accepts_worker, settings, wishes, worker, memory,
           MineInv, StepInv, OfferChosen, accepts_release
<1>1. CASE restartClient
  BY <1>1 DEF restartClient, NewProcess, Idle
<1>2. CASE request_switch
  BY <1>2 DEF request_switch
<1>3. ASSUME NEW c \in {"beta", "nightly"}, NEW k \in BOOLEAN, configure(c, k) PROVE OfferChosen'
  BY <1>3 DEF configure
<1>4. CASE forgetOffer
  BY <1>4 DEF forgetOffer
<1>5. CASE publishStage
  BY <1>5 DEF publishStage, Permitted, supersedes, Offers
<1>6. CASE publish
  BY <1>6 DEF publish, Recorded, Ends, Offers
<1>7. CASE UNCHANGED <<offer, channel, consented>>
  BY <1>7
<1>8. ASSUME tick \/ acknowledge_startup \/ request_check \/ request_restart \/
             wait_announcement \/ runFails \/ retry_missing \/ retained_manifest \/ gate \/
             decide \/ transfer \/ promote \/ finish
      PROVE  UNCHANGED <<offer, channel, consented>>
  BY <1>8 DEF tick, acknowledge_startup, request_check, request_restart, wait_announcement, runFails,
     Ends, retry_missing, retained_manifest, gate, set_switch_offer, decide, Recorded, supersedes,
     transfer, promote, finish, finish_announcement, Idle
<1>9. ASSUME NEW b \in Build \cup {Legacy},
             release_published(b)
      PROVE  UNCHANGED <<offer, channel, consented>>
  BY <1>9 DEF release_published
<1>10. ASSUME NEW force \in BOOLEAN,
             start(force)
      PROVE  UNCHANGED <<offer, channel, consented>>
  BY <1>10 DEF start, FetchMode, Idle
<1>11. ASSUME NEW b \in Build,
             select(b)
      PROVE  UNCHANGED <<offer, channel, consented>>
  BY <1>11 DEF select
<1> QED BY <1>1, <1>2, <1>3, <1>4, <1>5, <1>6, <1>7, <1>8, <1>9, <1>10, <1>11
           DEF Next

----------------------------------------------------------------------------
\* A process that has just begun satisfies the invariant.
LEMMA InvInit == Init => IInv
<1> SUFFICES ASSUME Init PROVE IInv
  OBVIOUS
<1> USE OfferConstants DEF Init
<1>1. TypeOK
  <2>1. /\ channel \in {"beta", "nightly"} /\ checks \in BOOLEAN
        /\ updater \in BOOLEAN /\ complete \in BOOLEAN /\ requested \in BOOLEAN /\ consented \in BOOLEAN
    OBVIOUS
  <2>2. /\ switchNow \in BOOLEAN /\ switchAvailable \in BOOLEAN /\ checkNow \in BOOLEAN
        /\ manualCheck \in BOOLEAN /\ mine \in BOOLEAN /\ calls \subseteq BOOLEAN
    OBVIOUS
  <2>3. /\ offer \in [build : Build, switch : BOOLEAN] \cup {None} /\ hint \in Hint \cup {None}
        /\ ready \in Build \cup {None} /\ step = "off" /\ w = Idle
    OBVIOUS
  <2> QED BY <2>1, <2>2, <2>3 DEF TypeOK, Idle
<1>2. MineInv /\ StepInv
  BY DEF MineInv, StepInv, Looked, Idle
<1>3. NoWorkLost /\ OfferChosen
  BY DEF NoWorkLost, OfferChosen
<1> QED BY <1>1, <1>2, <1>3 DEF IInv

\* Every step, and every stutter, keeps it.
LEMMA InvStep == IInv /\ [Next]_vars => IInv'
<1> SUFFICES ASSUME IInv, [Next]_vars PROVE IInv'
  OBVIOUS
<1>1. CASE Next
  BY <1>1, TypeStep, MineStep, StepStep, WorkStep, OfferStep DEF IInv
<1>2. CASE UNCHANGED vars
  <2> USE <1>2 DEF IInv, vars, settings, wishes, worker, running, accepts_release, supersedes
  <2>1. TypeOK'
    BY DEF TypeOK
  <2>2. MineInv' /\ StepInv'
    BY DEF MineInv, StepInv
  <2>3. NoWorkLost' /\ OfferChosen'
    BY DEF NoWorkLost, OfferChosen
  <2> QED BY <2>1, <2>2, <2>3
<1> QED BY <1>1, <1>2

\* The inductive invariant holds however decisions, notices and the worker interleave.
THEOREM Invariant == Spec => []IInv
<1>1. Init => IInv
  BY InvInit
<1>2. IInv /\ [Next]_vars => IInv'
  BY InvStep
<1> QED BY <1>1, <1>2, PTL DEF Spec

\* The updater's state keeps its types, for every set of builds and every number of retries.
THEOREM TypeCorrect == Spec => []TypeOK
<1>1. IInv => TypeOK
  BY DEF IInv
<1> QED BY <1>1, Invariant, PTL

\* No check, switch or notice is forgotten: an updater that idles with a wish open has a call of
\* worker::start to come.
THEOREM NoWorkIsLost == Spec => []NoWorkLost
<1>1. IInv => NoWorkLost
  BY DEF IInv
<1> QED BY <1>1, Invariant, PTL

\* A worker that began before a change of the channel or of the user's mind cannot offer what is
\* no longer wanted: an older release than the installed one is offered only by choice.
THEOREM OfferIsChosen == Spec => []OfferChosen
<1>1. IInv => OfferChosen
  BY DEF IInv
<1> QED BY <1>1, Invariant, PTL

\* A worker publishes a stage or a download that beats the offer it began with.
LEMMA OfferAdvance ==
  ASSUME IInv, Next, offer # None, offer' # offer, complete'
  PROVE  ~requested /\ (offer' # None /\ ~offer'.switch => offer'.build > offer.build)
<1> USE OfferConstants DEF IInv, settings, wishes, worker, memory, accepts_worker
<1>1. ASSUME NEW c \in {"beta", "nightly"}, NEW k \in BOOLEAN, configure(c, k)
      PROVE  ~requested /\ offer' = None
  BY <1>1 DEF configure
<1>2. CASE forgetOffer
  BY <1>2 DEF forgetOffer
<1>3. CASE publishStage
  <2>1. mine /\ ~requested /\ offer' = [build |-> ready, switch |-> w.switch]
    BY <1>3 DEF publishStage, Offers
  <2>2. ready \in Build /\ (w.staged # None => ready > w.staged)
    BY <1>3 DEF publishStage, supersedes, TypeOK
  <2>3. w.staged = offer.build /\ offer.build \in Nat
    BY <1>3, <2>1 DEF publishStage, StepInv, Looked, TypeOK
  <2> QED BY <2>1, <2>2, <2>3
<1>4. CASE publish
  <2>1. mine /\ ~requested /\ offer' = [build |-> w.selected, switch |-> w.switch]
    BY <1>4 DEF publish, Offers
  <2>2. ~w.switch /\ w.staged # None => w.selected > w.staged
    BY <1>4 DEF publish, StepInv, supersedes
  <2>3. w.staged = offer.build /\ offer.build \in Nat
    BY <1>4, <2>1 DEF publish, StepInv, Looked, TypeOK
  <2> QED BY <2>1, <2>2, <2>3
<1>5. ASSUME tick \/ acknowledge_startup \/ request_check \/ request_switch \/ request_restart \/
             wait_announcement \/ runFails \/ retry_missing \/ retained_manifest \/ gate \/ decide \/
             transfer \/ promote \/ finish
      PROVE  FALSE
  BY <1>5 DEF tick, acknowledge_startup, request_check, request_switch, request_restart,
     wait_announcement, runFails, retry_missing, retained_manifest, gate, decide, transfer, promote, finish
<1>6. ASSUME NEW b \in Build \cup {Legacy}, NEW force \in BOOLEAN,
             release_published(b) \/ start(force) \/ select(b)
      PROVE  FALSE
  BY <1>6 DEF release_published, start, select
<1>7. ASSUME restartClient PROVE FALSE
  BY <1>7 DEF restartClient, NewProcess
<1> QED BY <1>1, <1>2, <1>3, <1>4, <1>5, <1>6, <1>7 DEF Next

\* The offer gives way only to a newer release, a switch or a new look at its expiry, and not at
\* all once an exit has been accepted, whichever generation the worker is of.
THEOREM OfferOnlyAdvances == Spec => OfferAdvances
<1>1. IInv /\ [Next]_vars =>
        [offer # None /\ offer' # offer /\ complete' =>
          /\ ~requested
          /\ offer' # None /\ ~offer'.switch => offer'.build > offer.build]_vars
  BY OfferAdvance DEF vars
<1> QED BY <1>1, Invariant, PTL DEF Spec, OfferAdvances

\* A notice is dropped by a change of the preferences, or by its worker.
LEMMA NoticeDropped ==
  ASSUME IInv, Next, hint # None, hint' = None
  PROVE  \/ ~complete' \/ channel' # channel \/ ~checks'
         \/ w.selected # None \/ w.outcome = "failed" \/ ~mine
<1> USE OfferConstants DEF settings, wishes, worker, memory
<1>1. ASSUME NEW c \in {"beta", "nightly"}, NEW k \in BOOLEAN, configure(c, k)
      PROVE  channel' # channel \/ ~checks'
  BY <1>1 DEF configure
<1>2. CASE finish
  <2>1. w.hint # None \/ hint' = hint
    BY <1>2 DEF finish, finish_announcement
  <2> QED BY <1>2, <2>1 DEF finish, IInv, StepInv
<1>3. ASSUME NEW b \in Build \cup {Legacy}, release_published(b) PROVE FALSE
  <2>1. hint' \in Hint
    BY <1>3 DEF release_published, Hint
  <2> QED BY <2>1 DEF Hint
<1>4. ASSUME tick \/ acknowledge_startup \/ request_check \/ request_switch \/ request_restart \/
             wait_announcement \/ runFails \/ retry_missing \/ retained_manifest \/ forgetOffer \/
             publishStage \/ gate \/ decide \/ transfer \/ promote \/ publish
      PROVE  FALSE
  BY <1>4 DEF tick, acknowledge_startup, request_check, request_switch, request_restart,
     wait_announcement, runFails, retry_missing, retained_manifest, forgetOffer, publishStage, gate,
     decide, transfer, promote, publish
<1>5. ASSUME NEW b \in Build \cup {Legacy}, NEW force \in BOOLEAN, start(force) \/ select(b)
      PROVE  FALSE
  BY <1>5 DEF start, select
<1>6. ASSUME restartClient PROVE ~complete'
  BY <1>6 DEF restartClient, NewProcess
<1> QED BY <1>1, <1>2, <1>3, <1>4, <1>5, <1>6 DEF Next

\* A notice is given up only for the reasons the code has: its worker asked the server, failed or
\* was cancelled, or the user changed the channel or turned checks off.
THEOREM NoticeIsFollowed == Spec => NoticeFollowed
<1>1. IInv /\ [Next]_vars =>
        [hint # None /\ hint' = None =>
          \/ ~complete' \/ channel' # channel \/ ~checks'
          \/ w.selected # None \/ w.outcome = "failed" \/ ~mine]_vars
  BY NoticeDropped DEF vars
<1> QED BY <1>1, Invariant, PTL DEF Spec, NoticeFollowed
=============================================================================
