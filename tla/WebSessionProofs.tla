-------------------------- MODULE WebSessionProofs --------------------------
(***************************************************************************)
(* Proofs about WebSession, for every number of play handlers, controllers *)
(* and sign-ins: the play connection is not disturbed, a retired reader    *)
(* changes nothing, the account state is the current one, nothing built    *)
(* for a sign-in is left behind, and no pack join is delivered twice.      *)
(***************************************************************************)
EXTENDS WebSession, TLAPS

\* Every controller but the newest has been cancelled, and one that has detached too.
ControlInv ==
    /\ \A g \in control : g <= generation
    /\ \A g \in Gen : g < generation => g \in cancelled
    /\ \A g \in Gen : g <= generation /\ g \notin control => g \in cancelled
    /\ \A g \in Gen : reader[g].at # "idle" => g <= generation
    /\ \A g \in Gen : reader[g].at # "idle" /\ reader[g].op = "sign_in" /\ g = generation =>
        signInSeq < MaxSeq

\* What the session holds was built by a sign-in that is over.
WorkerInv ==
    /\ \A n \in Attempt : n > signInSeq => worker[n] = "none"
    /\ account # None => worker[account] = "done"
    /\ handler \in Attempt => worker[handler] = "done"

\* A sign-in is under way only while nobody is signed in and nobody plays.
SignInInv ==
    /\ cancelSignIn # None => account = None /\ play = NoPlay
    /\ closed => account = None
    /\ auth.state = "awaiting_code" => auth.seq # 0

Playing == {"claimed", "serving", "finished"}

\* The sole play connection is of the handler that has it, and holds the account open.
PlayInv ==
    /\ \A p \in Play : pc[p] \in Playing <=> play = p
    /\ play # NoPlay => through[play] = handler
    /\ \A p \in Play : pc[p] # "idle" => ctl[p] \in 1 .. generation
    /\ closed => ~registered
    /\ ~registered => control = {} /\ play = NoPlay

\* Joins are claimed in the order of their controllers.
PackInv ==
    /\ packControl <= generation
    /\ \A d \in delivered : d[1] <= packControl /\ (d[1] = packControl => d[2] <= packJoin)
    /\ \A p \in Play : pc[p] = "claimed" => packControl <= ctl[p]

IInv ==
    /\ TypeOK /\ ControlInv /\ CommandIsNewest /\ WorkerInv /\ SignInInv
    /\ AuthIsCurrent /\ NothingLeaks /\ PlayInv /\ PackInv

----------------------------------------------------------------------------
\* What a controller's reader is told to do, and how far it got.
Command == [op : {"none", "sign_in", "sign_out"}, at : {"idle", "waiting", "locked", "checked"}]

\* A claim publishes its join, or finds it used already.
LEMMA ClaimEffect ==
  ASSUME NEW p \in Play, claimPackJoin(p)
  PROVE  \/ Goto(p, "finished") /\ delivered' = delivered
         \/ Goto(p, "serving") /\ delivered' = delivered \cup {<<ctl[p], join[p]>>} /\ packJoin' = join[p]
<1> DEFINE last == IF packControl = ctl[p] THEN packJoin ELSE 0
<1>1. CASE join[p] <= last
  BY <1>1 DEF claimPackJoin
<1>2. CASE ~(join[p] <= last)
  BY <1>2 DEF claimPackJoin
<1> QED BY <1>1, <1>2

\* Every step keeps the types.
LEMMA TypeStep == ASSUME IInv, Next PROVE TypeOK'
<1> USE SessionConstants DEF IInv, TypeOK, Gen, Attempt, None, Handler, AuthState, PlayPlace,
           controlVars, signInVars, packVars, playVars, Goto
<1>1. CASE openControl
  BY <1>1 DEF openControl
<1>2. ASSUME NEW g \in Gen, retire(g) PROVE TypeOK'
  BY <1>2, SMTT(30) DEF retire
<1>3. ASSUME NEW g \in Gen, NEW op \in Op, readCommand(g, op) PROVE TypeOK'
  <2> DEFINE r == [op |-> op, at |-> "waiting"]
  <2>1. r \in Command /\ r.at = "waiting"
    BY SessionOps DEF Command
  <2>2. reader' = [reader EXCEPT ![g] = r]
    BY <1>3 DEF readCommand
  <2> HIDE DEF r
  <2>3. reader' \in [Gen -> Command]
    BY <2>1, <2>2 DEF Command
  <2>4. \A f \in Gen : reader'[f].at \in {"locked", "checked"} => commands = f
    BY <2>1, <2>2
  <2>5. UNCHANGED <<controlVars, signInVars, closing, playVars>>
    BY <1>3 DEF readCommand
  <2> QED BY <2>3, <2>4, <2>5 DEF Command
<1>4. ASSUME NEW g \in Gen, lockCommands(g) PROVE TypeOK'
  <2> DEFINE r == [reader[g] EXCEPT !.at = "locked"]
  <2>1. reader[g] \in Command
    BY DEF Command
  <2>2. r \in Command /\ r.at = "locked"
    BY <2>1 DEF Command
  <2>3. reader' = [reader EXCEPT ![g] = r] /\ commands' = g /\ (commands = None \/ commands = g)
    BY <1>4 DEF lockCommands
  <2> HIDE DEF r
  <2>4. reader' \in [Gen -> Command]
    BY <2>2, <2>3 DEF Command
  <2>5. \A f \in Gen : reader'[f].at \in {"locked", "checked"} => commands' = f
    BY <2>2, <2>3
  <2>6. UNCHANGED <<open, registered, generation, cancelled, control, signInVars, closing, playVars>>
    BY <1>4 DEF lockCommands
  <2> QED BY <2>3, <2>4, <2>5, <2>6, ZenonT(60) DEF Command
<1>5. ASSUME NEW g \in Gen, checkCurrent(g) PROVE TypeOK'
  <2> DEFINE r == [reader[g] EXCEPT !.at = "checked"]
  <2>1. reader[g] \in Command
    BY DEF Command
  <2>2. r \in Command /\ r.at = "checked"
    BY <2>1 DEF Command
  <2>3. reader' = [reader EXCEPT ![g] = r] /\ commands' = g /\ (commands = None \/ commands = g)
    BY <1>5 DEF checkCurrent
  <2> HIDE DEF r
  <2>4. reader' \in [Gen -> Command]
    BY <2>2, <2>3 DEF Command
  <2>5. \A f \in Gen : reader'[f].at \in {"locked", "checked"} => commands' = f
    BY <2>2, <2>3
  <2>6. UNCHANGED <<open, registered, generation, cancelled, control, signInVars, closing, playVars>>
    BY <1>5 DEF checkCurrent
  <2> QED BY <2>3, <2>4, <2>5, <2>6, ZenonT(60) DEF Command
<1>6. ASSUME NEW g \in Gen, applyRefused(g) PROVE TypeOK'
  BY <1>6 DEF applyRefused, Unlock
<1>7. ASSUME NEW g \in Gen, commandRefused(g) PROVE TypeOK'
  BY <1>7 DEF commandRefused, Unlock
<1>8. ASSUME NEW g \in Gen, SignIn(g) PROVE TypeOK'
  <2>1. signInSeq < MaxSeq /\ commands = g
    BY <1>8 DEF SignIn, ControlInv, CommandIsNewest
  <2>2. signInSeq' \in Attempt /\ cancelSignIn' = signInSeq'
    BY <1>8, <2>1 DEF SignIn
  <2>3. worker' \in [Attempt -> {"none", "asking", "prompted", "built", "failed", "done"}]
    BY <1>8 DEF SignIn
  <2>4. /\ reader' \in [Gen -> [op : {"none", "sign_in", "sign_out"},
                               at : {"idle", "waiting", "locked", "checked"}]]
        /\ \A f \in Gen : reader'[f].at \in {"locked", "checked"} => commands' = f
    BY <1>8, <2>1 DEF SignIn, Unlock
  <2> QED BY <1>8, <2>2, <2>3, <2>4 DEF SignIn, Unlock
<1>9. ASSUME NEW g \in Gen, SignOut(g) PROVE TypeOK'
  <2>1. commands = g
    BY <1>9 DEF SignOut
  <2>2. /\ reader' \in [Gen -> [op : {"none", "sign_in", "sign_out"},
                               at : {"idle", "waiting", "locked", "checked"}]]
        /\ \A f \in Gen : reader'[f].at \in {"locked", "checked"} => commands' = f
    BY <1>9, <2>1 DEF SignOut, Unlock
  <2>3. auth' \in [state : AuthState, seq : Attempt \cup {0}]
    BY <1>9 DEF SignOut
  <2>4. account' \in Attempt \cup {None} /\ accounts' \subseteq Attempt
    BY <1>9 DEF SignOut
  <2>5. stopped' \subseteq Attempt /\ cancelSignIn' = None
    BY <1>9 DEF SignOut
  <2>6. handler' \in Handler /\ handlers' \subseteq Handler
    <3>1. account # None => -account \in Handler
      OBVIOUS
    <3> QED BY <1>9, <3>1 DEF SignOut
  <2> QED BY <1>9, <2>2, <2>3, <2>4, <2>5, <2>6 DEF SignOut, Unlock
<1>10. ASSUME NEW n \in Attempt, prompt(n) PROVE TypeOK'
  <2>1. auth' \in [state : AuthState, seq : Attempt \cup {0}]
    BY <1>10 DEF prompt
  <2>2. worker' \in [Attempt -> {"none", "asking", "prompted", "built", "failed", "done"}]
    BY <1>10 DEF prompt
  <2> QED BY <1>10, <2>1, <2>2, ZenonT(60) DEF prompt
<1>11. ASSUME NEW n \in Attempt, answered(n) PROVE TypeOK'
  BY <1>11 DEF answered
<1>12. ASSUME NEW n \in Attempt, failed(n) PROVE TypeOK'
  BY <1>12 DEF failed
<1>13. ASSUME NEW n \in Attempt, releaseSignIn(n) PROVE TypeOK'
  BY <1>13 DEF releaseSignIn, Finish, Stale, currentSignInLocked
<1>14. ASSUME NEW n \in Attempt, failSignIn(n) PROVE TypeOK'
  BY <1>14 DEF failSignIn, Finish, Stale, currentSignInLocked
<1>15. ASSUME NEW n \in Attempt, publishSignIn(n) PROVE TypeOK'
  BY <1>15 DEF publishSignIn, Finish, Stale, currentSignInLocked
<1>16. ASSUME NEW p \in Play, NEW j \in 0 .. MaxJoin, playSession(p, j) PROVE TypeOK'
  BY <1>16, SMTT(30) DEF playSession, Current, Live
<1>17. ASSUME NEW p \in Play, playAttach(p) PROVE TypeOK'
  BY <1>17 DEF playAttach
<1>18. ASSUME NEW p \in Play, playRefused(p) PROVE TypeOK'
  BY <1>18 DEF playRefused, Return
<1>19. ASSUME NEW p \in Play, beginPlay(p) PROVE TypeOK'
  BY <1>19, SMTT(30) DEF beginPlay, Asking, Live, Busy
<1>20. ASSUME NEW p \in Play, awaitPlay(p) PROVE TypeOK'
  BY <1>20, SMTT(30) DEF awaitPlay, Asking, Live, Busy
<1>21. ASSUME NEW p \in Play, beginPlayFails(p) PROVE TypeOK'
  BY <1>21, SMTT(30) DEF beginPlayFails, Asking
<1>22. ASSUME NEW p \in Play, connectionLost(p) PROVE TypeOK'
  BY <1>22 DEF connectionLost
<1>23. ASSUME NEW p \in Play, claimPackJoin(p) PROVE TypeOK'
  <2>1. packJoin' \in 0 .. MaxJoin /\ packControl' \in Gen \cup {None}
    BY <1>23 DEF claimPackJoin
  <2>2. pc' \in [Play -> PlayPlace] /\ \A q \in Play : pc'[q] = "waiting" => waitsFor[q] # NoPlay
    BY <1>23 DEF claimPackJoin
  <2>3. delivered' \subseteq Gen \X (1 .. MaxJoin)
    <3>1. ctl[p] \in Gen /\ join[p] \in 1 .. MaxJoin
      BY <1>23 DEF claimPackJoin, PlayInv
    <3>2. <<ctl[p], join[p]>> \in Gen \X (1 .. MaxJoin)
      BY <3>1
    <3> QED BY <1>23, <3>2, ClaimEffect
  <2>4. UNCHANGED <<controlVars, reader, signInVars, closing, play, ctl, join, through, waitsFor>>
    BY <1>23 DEF claimPackJoin
  <2> QED BY <2>1, <2>2, <2>3, <2>4, SMTT(30)
<1>24. ASSUME NEW p \in Play, serveConn(p) PROVE TypeOK'
  BY <1>24 DEF serveConn
<1>25. ASSUME NEW p \in Play, serveEnds(p) PROVE TypeOK'
  BY <1>25 DEF serveEnds
<1>26. ASSUME NEW p \in Play, endPlay(p) PROVE TypeOK'
  BY <1>26 DEF endPlay
<1>27. ASSUME NEW p \in Play, detach(p) PROVE TypeOK'
  <2>1. /\ pc' \in [Play -> PlayPlace] /\ ctl' \in [Play -> Gen \cup {None}]
        /\ join' \in [Play -> 0 .. MaxJoin] /\ through' \in [Play -> Handler]
        /\ waitsFor' \in [Play -> Play \cup {NoPlay}]
    BY <1>27 DEF detach, Return
  <2>2. \A q \in Play : pc'[q] = "waiting" => waitsFor'[q] # NoPlay
    BY <1>27 DEF detach, Return
  <2>3. UNCHANGED <<controlVars, reader, signInVars, closing, play, packVars>>
    BY <1>27 DEF detach
  <2> QED BY <2>1, <2>2, <2>3, SMTT(30)
<1>28. CASE expire
  BY <1>28, ZenonT(60) DEF expire, Attached
<1>29. CASE cancel
  <2>1. open' \in BOOLEAN
    BY <1>29 DEF cancel
  <2>2. UNCHANGED <<registered, generation, cancelled, control, commands, reader, signInVars,
                    closing, playVars>>
    BY <1>29 DEF cancel
  <2> QED BY <2>1, <2>2, SMTT(30)
<1>30. CASE Close
  BY <1>30, ZenonT(60) DEF Close
<1>31. CASE close
  BY <1>31 DEF close
<1>32. CASE closeHandler
  BY <1>32 DEF closeHandler
<1> QED BY <1>1, <1>2, <1>3, <1>4, <1>5, <1>6, <1>7, <1>8, <1>9, <1>10, <1>11, <1>12, <1>13,
           <1>14, <1>15, <1>16, <1>17, <1>18, <1>19, <1>20, <1>21, <1>22, <1>23, <1>24, <1>25,
           <1>26, <1>27, <1>28, <1>29, <1>30, <1>31, <1>32
           DEF Next, ControlNext, SignInNext, PlayNext, CloseNext

\* A controller stays cancelled, and commands come from those that were handed out.
LEMMA ControlStep == ASSUME IInv, Next PROVE ControlInv'
<1> USE SessionConstants DEF IInv, TypeOK, Gen, Attempt, None, closed,
           controlVars, signInVars, packVars, playVars, Goto,
           ControlInv, CommandIsNewest
<1>1. CASE openControl
  BY <1>1 DEF openControl
<1>2. ASSUME NEW g \in Gen, retire(g) PROVE ControlInv'
  BY <1>2 DEF retire
<1>3. ASSUME NEW g \in Gen, NEW op \in Op, readCommand(g, op) PROVE ControlInv'
  BY <1>3 DEF readCommand, Live
<1>4. ASSUME NEW g \in Gen, lockCommands(g) PROVE ControlInv'
  BY <1>4 DEF lockCommands
<1>5. ASSUME NEW g \in Gen, checkCurrent(g) PROVE ControlInv'
  BY <1>5 DEF checkCurrent, Current, Live
<1>6. ASSUME NEW g \in Gen, applyRefused(g) PROVE ControlInv'
  BY <1>6 DEF applyRefused, Unlock
<1>7. ASSUME NEW g \in Gen, commandRefused(g) PROVE ControlInv'
  BY <1>7 DEF commandRefused, Unlock
<1>8. ASSUME NEW g \in Gen, SignIn(g) PROVE ControlInv'
  BY <1>8 DEF SignIn, Unlock, Unclaimed
<1>9. ASSUME NEW g \in Gen, SignOut(g) PROVE ControlInv'
  BY <1>9 DEF SignOut, Unlock, Unclaimed
<1>10. CASE UNCHANGED <<control, generation, cancelled, reader, signInSeq>>
  BY <1>10
<1>11. ASSUME NEW n \in Attempt,
             prompt(n) \/ answered(n) \/ failed(n) \/ releaseSignIn(n) \/ failSignIn(n) \/
             publishSignIn(n)
      PROVE  UNCHANGED <<control, generation, cancelled, reader, signInSeq>>
  BY <1>11 DEF prompt, answered, failed, releaseSignIn, Finish, failSignIn, publishSignIn
<1>12. ASSUME NEW p \in Play, NEW j \in 0 .. MaxJoin,
             playSession(p, j)
      PROVE  UNCHANGED <<control, generation, cancelled, reader, signInSeq>>
  BY <1>12 DEF playSession
<1>13. ASSUME NEW p \in Play,
             playAttach(p) \/ playRefused(p) \/ beginPlay(p) \/ awaitPlay(p) \/
             beginPlayFails(p) \/ connectionLost(p) \/ claimPackJoin(p) \/ serveConn(p) \/
             serveEnds(p) \/ endPlay(p) \/ detach(p)
      PROVE  UNCHANGED <<control, generation, cancelled, reader, signInSeq>>
  BY <1>13 DEF playAttach, playRefused, Return, beginPlay, awaitPlay, beginPlayFails, connectionLost,
     claimPackJoin, serveConn, serveEnds, endPlay, detach
<1>14. ASSUME expire \/ cancel \/ Close \/ close \/ closeHandler
      PROVE  UNCHANGED <<control, generation, cancelled, reader, signInSeq>>
  BY <1>14 DEF expire, cancel, Close, close, closeHandler
<1> QED BY <1>1, <1>2, <1>3, <1>4, <1>5, <1>6, <1>7, <1>8, <1>9, <1>10, <1>11, <1>12, <1>13,
           <1>14
           DEF Next, ControlNext, SignInNext, PlayNext, CloseNext

\* A takeover waits for the command in progress, so that the controller it checked stays the newest.
LEMMA CommandStep == ASSUME IInv, Next PROVE CommandIsNewest'
<1> USE SessionConstants DEF IInv, TypeOK, Gen, Attempt, None, closed,
           controlVars, signInVars, packVars, playVars, Goto,
           CommandIsNewest
<1>1. CASE openControl
  BY <1>1 DEF openControl
<1>2. ASSUME NEW g \in Gen, NEW op \in Op, readCommand(g, op) PROVE CommandIsNewest'
  BY <1>2 DEF readCommand, Live
<1>3. ASSUME NEW g \in Gen, lockCommands(g) PROVE CommandIsNewest'
  BY <1>3 DEF lockCommands
<1>4. ASSUME NEW g \in Gen, checkCurrent(g) PROVE CommandIsNewest'
  BY <1>4 DEF checkCurrent, Current, Live
<1>5. ASSUME NEW g \in Gen, applyRefused(g) PROVE CommandIsNewest'
  BY <1>5 DEF applyRefused, Unlock
<1>6. ASSUME NEW g \in Gen, commandRefused(g) PROVE CommandIsNewest'
  BY <1>6 DEF commandRefused, Unlock
<1>7. ASSUME NEW g \in Gen, SignIn(g) PROVE CommandIsNewest'
  BY <1>7 DEF SignIn, Unlock, Unclaimed
<1>8. ASSUME NEW g \in Gen, SignOut(g) PROVE CommandIsNewest'
  BY <1>8 DEF SignOut, Unlock, Unclaimed
<1>9. CASE UNCHANGED <<generation, reader>>
  BY <1>9
<1>10. ASSUME NEW g \in Gen,
             retire(g)
      PROVE  UNCHANGED <<generation, reader>>
  BY <1>10 DEF retire
<1>11. ASSUME NEW n \in Attempt,
             prompt(n) \/ answered(n) \/ failed(n) \/ releaseSignIn(n) \/ failSignIn(n) \/
             publishSignIn(n)
      PROVE  UNCHANGED <<generation, reader>>
  BY <1>11 DEF prompt, answered, failed, releaseSignIn, Finish, failSignIn, publishSignIn
<1>12. ASSUME NEW p \in Play, NEW j \in 0 .. MaxJoin,
             playSession(p, j)
      PROVE  UNCHANGED <<generation, reader>>
  BY <1>12 DEF playSession
<1>13. ASSUME NEW p \in Play,
             playAttach(p) \/ playRefused(p) \/ beginPlay(p) \/ awaitPlay(p) \/
             beginPlayFails(p) \/ connectionLost(p) \/ claimPackJoin(p) \/ serveConn(p) \/
             serveEnds(p) \/ endPlay(p) \/ detach(p)
      PROVE  UNCHANGED <<generation, reader>>
  BY <1>13 DEF playAttach, playRefused, Return, beginPlay, awaitPlay, beginPlayFails, connectionLost,
     claimPackJoin, serveConn, serveEnds, endPlay, detach
<1>14. ASSUME expire \/ cancel \/ Close \/ close \/ closeHandler
      PROVE  UNCHANGED <<generation, reader>>
  BY <1>14 DEF expire, cancel, Close, close, closeHandler
<1> QED BY <1>1, <1>2, <1>3, <1>4, <1>5, <1>6, <1>7, <1>8, <1>9, <1>10, <1>11, <1>12, <1>13,
           <1>14
           DEF Next, ControlNext, SignInNext, PlayNext, CloseNext

\* A sign-in begins with a number of its own, and what is published is of one that is over.
LEMMA WorkerStep == ASSUME IInv, Next PROVE WorkerInv'
<1> USE SessionConstants DEF IInv, TypeOK, Gen, Attempt, None, closed,
           controlVars, signInVars, packVars, playVars, Goto, WorkerInv, ControlInv
<1>1. ASSUME NEW g \in Gen, SignIn(g) PROVE WorkerInv'
  BY <1>1 DEF SignIn, Unlock, Unclaimed
<1>2. ASSUME NEW g \in Gen, SignOut(g) PROVE WorkerInv'
  BY <1>2 DEF SignOut, Unlock, Unclaimed
<1>3. ASSUME NEW n \in Attempt, prompt(n) PROVE WorkerInv'
  BY <1>3 DEF prompt, currentSignInLocked
<1>4. ASSUME NEW n \in Attempt, answered(n) PROVE WorkerInv'
  BY <1>4 DEF answered
<1>5. ASSUME NEW n \in Attempt, failed(n) PROVE WorkerInv'
  BY <1>5 DEF failed
<1>6. ASSUME NEW n \in Attempt, releaseSignIn(n) PROVE WorkerInv'
  BY <1>6 DEF releaseSignIn, Finish, Stale, currentSignInLocked
<1>7. ASSUME NEW n \in Attempt, failSignIn(n) PROVE WorkerInv'
  BY <1>7 DEF failSignIn, Finish, Stale, currentSignInLocked
<1>8. ASSUME NEW n \in Attempt, publishSignIn(n) PROVE WorkerInv'
  BY <1>8 DEF publishSignIn, Finish, Stale, currentSignInLocked
<1>9. CASE close
  BY <1>9 DEF close
<1>10. CASE UNCHANGED <<signInSeq, worker, account, handler>>
  BY <1>10
<1>11. ASSUME openControl \/ expire \/ cancel \/ Close \/ closeHandler
      PROVE  UNCHANGED <<signInSeq, worker, account, handler>>
  BY <1>11 DEF openControl, expire, cancel, Close, closeHandler
<1>12. ASSUME NEW g \in Gen,
             retire(g) \/ lockCommands(g) \/ checkCurrent(g) \/ applyRefused(g) \/
             commandRefused(g)
      PROVE  UNCHANGED <<signInSeq, worker, account, handler>>
  BY <1>12 DEF retire, lockCommands, checkCurrent, applyRefused, Unlock, commandRefused
<1>13. ASSUME NEW g \in Gen, NEW op \in Op,
             readCommand(g, op)
      PROVE  UNCHANGED <<signInSeq, worker, account, handler>>
  BY <1>13 DEF readCommand
<1>14. ASSUME NEW p \in Play, NEW j \in 0 .. MaxJoin,
             playSession(p, j)
      PROVE  UNCHANGED <<signInSeq, worker, account, handler>>
  BY <1>14 DEF playSession
<1>15. ASSUME NEW p \in Play,
             playAttach(p) \/ playRefused(p) \/ beginPlay(p) \/ awaitPlay(p) \/
             beginPlayFails(p) \/ connectionLost(p) \/ claimPackJoin(p) \/ serveConn(p) \/
             serveEnds(p) \/ endPlay(p) \/ detach(p)
      PROVE  UNCHANGED <<signInSeq, worker, account, handler>>
  BY <1>15 DEF playAttach, playRefused, Return, beginPlay, awaitPlay, beginPlayFails, connectionLost,
     claimPackJoin, serveConn, serveEnds, endPlay, detach
<1> QED BY <1>1, <1>2, <1>3, <1>4, <1>5, <1>6, <1>7, <1>8, <1>9, <1>10, <1>11, <1>12, <1>13,
           <1>14, <1>15
           DEF Next, ControlNext, SignInNext, PlayNext, CloseNext

\* A sign-in excludes an account and a play.
LEMMA SignInStep == ASSUME IInv, Next PROVE SignInInv'
<1> USE SessionConstants DEF IInv, TypeOK, Gen, Attempt, None, closed,
           controlVars, signInVars, packVars, playVars, Goto, SignInInv, PlayInv, AuthIsCurrent
<1>1. ASSUME NEW g \in Gen, SignIn(g) PROVE SignInInv'
  BY <1>1 DEF SignIn, Unlock, Unclaimed
<1>2. ASSUME NEW g \in Gen, SignOut(g) PROVE SignInInv'
  BY <1>2 DEF SignOut, Unlock, Unclaimed
<1>3. ASSUME NEW n \in Attempt, prompt(n) PROVE SignInInv'
  BY <1>3 DEF prompt, currentSignInLocked
<1>4. ASSUME NEW n \in Attempt, releaseSignIn(n) PROVE SignInInv'
  BY <1>4 DEF releaseSignIn, Finish, Stale, currentSignInLocked
<1>5. ASSUME NEW n \in Attempt, failSignIn(n) PROVE SignInInv'
  BY <1>5 DEF failSignIn, Finish, Stale, currentSignInLocked
<1>6. ASSUME NEW n \in Attempt, publishSignIn(n) PROVE SignInInv'
  BY <1>6 DEF publishSignIn, Finish, Stale, currentSignInLocked
<1>7. ASSUME NEW p \in Play, beginPlay(p) PROVE SignInInv'
  BY <1>7 DEF beginPlay, Asking, Live, Busy
<1>8. ASSUME NEW p \in Play, endPlay(p) PROVE SignInInv'
  BY <1>8 DEF endPlay
<1>9. CASE close
  BY <1>9 DEF close
<1>10. CASE closeHandler
  BY <1>10 DEF closeHandler
<1>11. CASE UNCHANGED <<cancelSignIn, account, play, closing, auth>>
  BY <1>11
<1>12. ASSUME openControl \/ expire \/ cancel \/ Close
      PROVE  UNCHANGED <<cancelSignIn, account, play, closing, auth>>
  BY <1>12 DEF openControl, expire, cancel, Close
<1>13. ASSUME NEW g \in Gen,
             retire(g) \/ lockCommands(g) \/ checkCurrent(g) \/ applyRefused(g) \/
             commandRefused(g)
      PROVE  UNCHANGED <<cancelSignIn, account, play, closing, auth>>
  BY <1>13 DEF retire, lockCommands, checkCurrent, applyRefused, Unlock, commandRefused
<1>14. ASSUME NEW g \in Gen, NEW op \in Op,
             readCommand(g, op)
      PROVE  UNCHANGED <<cancelSignIn, account, play, closing, auth>>
  BY <1>14 DEF readCommand
<1>15. ASSUME NEW n \in Attempt,
             answered(n) \/ failed(n)
      PROVE  UNCHANGED <<cancelSignIn, account, play, closing, auth>>
  BY <1>15 DEF answered, failed
<1>16. ASSUME NEW p \in Play, NEW j \in 0 .. MaxJoin,
             playSession(p, j)
      PROVE  UNCHANGED <<cancelSignIn, account, play, closing, auth>>
  BY <1>16 DEF playSession
<1>17. ASSUME NEW p \in Play,
             playAttach(p) \/ playRefused(p) \/ awaitPlay(p) \/ beginPlayFails(p) \/
             connectionLost(p) \/ claimPackJoin(p) \/ serveConn(p) \/ serveEnds(p) \/
             detach(p)
      PROVE  UNCHANGED <<cancelSignIn, account, play, closing, auth>>
  BY <1>17 DEF playAttach, playRefused, Return, awaitPlay, beginPlayFails, connectionLost, claimPackJoin,
     serveConn, serveEnds, detach
<1> QED BY <1>1, <1>2, <1>3, <1>4, <1>5, <1>6, <1>7, <1>8, <1>9, <1>10, <1>11, <1>12, <1>13,
           <1>14, <1>15, <1>16, <1>17
           DEF Next, ControlNext, SignInNext, PlayNext, CloseNext

\* Only the current sign-in changes the account state.
LEMMA AuthStep == ASSUME IInv, Next PROVE AuthIsCurrent'
<1> USE SessionConstants DEF IInv, TypeOK, Gen, Attempt, None, closed,
           controlVars, signInVars, packVars, playVars, Goto, AuthIsCurrent, SignInInv
<1>1. ASSUME NEW g \in Gen, SignIn(g) PROVE AuthIsCurrent'
  BY <1>1 DEF SignIn, Unlock, Unclaimed
<1>2. ASSUME NEW g \in Gen, SignOut(g) PROVE AuthIsCurrent'
  BY <1>2 DEF SignOut, Unlock, Unclaimed
<1>3. ASSUME NEW n \in Attempt, prompt(n) PROVE AuthIsCurrent'
  BY <1>3 DEF prompt, currentSignInLocked
<1>4. ASSUME NEW n \in Attempt, releaseSignIn(n) PROVE AuthIsCurrent'
  BY <1>4 DEF releaseSignIn, Finish, Stale, currentSignInLocked
<1>5. ASSUME NEW n \in Attempt, failSignIn(n) PROVE AuthIsCurrent'
  BY <1>5 DEF failSignIn, Finish, Stale, currentSignInLocked
<1>6. ASSUME NEW n \in Attempt, publishSignIn(n) PROVE AuthIsCurrent'
  BY <1>6 DEF publishSignIn, Finish, Stale, currentSignInLocked
<1>7. CASE close
  BY <1>7 DEF close
<1>8. CASE closeHandler
  BY <1>8 DEF closeHandler
<1>9. CASE UNCHANGED <<auth, account, cancelSignIn, closing>>
  BY <1>9
<1>10. ASSUME openControl \/ expire \/ cancel \/ Close
      PROVE  UNCHANGED <<auth, account, cancelSignIn, closing>>
  BY <1>10 DEF openControl, expire, cancel, Close
<1>11. ASSUME NEW g \in Gen,
             retire(g) \/ lockCommands(g) \/ checkCurrent(g) \/ applyRefused(g) \/
             commandRefused(g)
      PROVE  UNCHANGED <<auth, account, cancelSignIn, closing>>
  BY <1>11 DEF retire, lockCommands, checkCurrent, applyRefused, Unlock, commandRefused
<1>12. ASSUME NEW g \in Gen, NEW op \in Op,
             readCommand(g, op)
      PROVE  UNCHANGED <<auth, account, cancelSignIn, closing>>
  BY <1>12 DEF readCommand
<1>13. ASSUME NEW n \in Attempt,
             answered(n) \/ failed(n)
      PROVE  UNCHANGED <<auth, account, cancelSignIn, closing>>
  BY <1>13 DEF answered, failed
<1>14. ASSUME NEW p \in Play, NEW j \in 0 .. MaxJoin,
             playSession(p, j)
      PROVE  UNCHANGED <<auth, account, cancelSignIn, closing>>
  BY <1>14 DEF playSession
<1>15. ASSUME NEW p \in Play,
             playAttach(p) \/ playRefused(p) \/ beginPlay(p) \/ awaitPlay(p) \/
             beginPlayFails(p) \/ connectionLost(p) \/ claimPackJoin(p) \/ serveConn(p) \/
             serveEnds(p) \/ endPlay(p) \/ detach(p)
      PROVE  UNCHANGED <<auth, account, cancelSignIn, closing>>
  BY <1>15 DEF playAttach, playRefused, Return, beginPlay, awaitPlay, beginPlayFails, connectionLost,
     claimPackJoin, serveConn, serveEnds, endPlay, detach
<1> QED BY <1>1, <1>2, <1>3, <1>4, <1>5, <1>6, <1>7, <1>8, <1>9, <1>10, <1>11, <1>12, <1>13,
           <1>14, <1>15
           DEF Next, ControlNext, SignInNext, PlayNext, CloseNext

\* Every account and handler changes hands or is closed.
LEMMA LeakStep == ASSUME IInv, Next PROVE NothingLeaks'
<1> USE SessionConstants DEF IInv, TypeOK, Gen, Attempt, None, closed,
           controlVars, signInVars, packVars, playVars, Goto, NothingLeaks, WorkerInv, SignInInv
<1>1. ASSUME NEW g \in Gen, SignIn(g) PROVE NothingLeaks'
  BY <1>1 DEF SignIn, Unlock, Unclaimed
<1>2. ASSUME NEW g \in Gen, SignOut(g) PROVE NothingLeaks'
  BY <1>2 DEF SignOut, Unlock, Unclaimed
<1>3. ASSUME NEW n \in Attempt, prompt(n) PROVE NothingLeaks'
  BY <1>3 DEF prompt, currentSignInLocked
<1>4. ASSUME NEW n \in Attempt, answered(n) PROVE NothingLeaks'
  BY <1>4 DEF answered
<1>5. ASSUME NEW n \in Attempt, failed(n) PROVE NothingLeaks'
  BY <1>5 DEF failed
<1>6. ASSUME NEW n \in Attempt, releaseSignIn(n) PROVE NothingLeaks'
  BY <1>6 DEF releaseSignIn, Finish, Stale, currentSignInLocked
<1>7. ASSUME NEW n \in Attempt, failSignIn(n) PROVE NothingLeaks'
  BY <1>7 DEF failSignIn, Finish, Stale, currentSignInLocked
<1>8. ASSUME NEW n \in Attempt, publishSignIn(n) PROVE NothingLeaks'
  BY <1>8 DEF publishSignIn, Finish, Stale, currentSignInLocked
<1>9. CASE close
  BY <1>9 DEF close
<1>10. CASE closeHandler
  BY <1>10 DEF closeHandler
<1>11. CASE UNCHANGED <<account, handler, accounts, handlers, worker, closing>>
  BY <1>11
<1>12. ASSUME openControl \/ expire \/ cancel \/ Close
      PROVE  UNCHANGED <<account, handler, accounts, handlers, worker, closing>>
  BY <1>12 DEF openControl, expire, cancel, Close
<1>13. ASSUME NEW g \in Gen,
             retire(g) \/ lockCommands(g) \/ checkCurrent(g) \/ applyRefused(g) \/
             commandRefused(g)
      PROVE  UNCHANGED <<account, handler, accounts, handlers, worker, closing>>
  BY <1>13 DEF retire, lockCommands, checkCurrent, applyRefused, Unlock, commandRefused
<1>14. ASSUME NEW g \in Gen, NEW op \in Op,
             readCommand(g, op)
      PROVE  UNCHANGED <<account, handler, accounts, handlers, worker, closing>>
  BY <1>14 DEF readCommand
<1>15. ASSUME NEW p \in Play, NEW j \in 0 .. MaxJoin,
             playSession(p, j)
      PROVE  UNCHANGED <<account, handler, accounts, handlers, worker, closing>>
  BY <1>15 DEF playSession
<1>16. ASSUME NEW p \in Play,
             playAttach(p) \/ playRefused(p) \/ beginPlay(p) \/ awaitPlay(p) \/
             beginPlayFails(p) \/ connectionLost(p) \/ claimPackJoin(p) \/ serveConn(p) \/
             serveEnds(p) \/ endPlay(p) \/ detach(p)
      PROVE  UNCHANGED <<account, handler, accounts, handlers, worker, closing>>
  BY <1>16 DEF playAttach, playRefused, Return, beginPlay, awaitPlay, beginPlayFails, connectionLost,
     claimPackJoin, serveConn, serveEnds, endPlay, detach
<1> QED BY <1>1, <1>2, <1>3, <1>4, <1>5, <1>6, <1>7, <1>8, <1>9, <1>10, <1>11, <1>12, <1>13,
           <1>14, <1>15, <1>16
           DEF Next, ControlNext, SignInNext, PlayNext, CloseNext

\* Only the play handler that was granted the play gives it up.
LEMMA PlayStep == ASSUME IInv, Next PROVE PlayInv'
<1> USE SessionConstants DEF IInv, TypeOK, Gen, Attempt, None, closed,
           controlVars, signInVars, packVars, playVars, Goto, PlayInv, ControlInv,
           Playing, PlayPlace
<1>1. CASE openControl
  BY <1>1 DEF openControl
<1>2. ASSUME NEW g \in Gen, retire(g) PROVE PlayInv'
  BY <1>2 DEF retire
<1>3. ASSUME NEW g \in Gen, SignOut(g) PROVE PlayInv'
  BY <1>3 DEF SignOut, Unlock, Unclaimed
<1>4. ASSUME NEW n \in Attempt, publishSignIn(n) PROVE PlayInv'
  BY <1>4 DEF publishSignIn, Finish, Stale, currentSignInLocked
<1>5. ASSUME NEW p \in Play, NEW j \in 0 .. MaxJoin, playSession(p, j) PROVE PlayInv'
  BY <1>5 DEF playSession, Current, Live
<1>6. ASSUME NEW p \in Play, playAttach(p) PROVE PlayInv'
  BY <1>6 DEF playAttach
<1>7. ASSUME NEW p \in Play, playRefused(p) PROVE PlayInv'
  BY <1>7 DEF playRefused, Return
<1>8. ASSUME NEW p \in Play, beginPlay(p) PROVE PlayInv'
  BY <1>8 DEF beginPlay, Asking, Live, Busy
<1>9. ASSUME NEW p \in Play, awaitPlay(p) PROVE PlayInv'
  BY <1>9 DEF awaitPlay, Asking, Live, Busy
<1>10. ASSUME NEW p \in Play, beginPlayFails(p) PROVE PlayInv'
  BY <1>10 DEF beginPlayFails, Asking
<1>11. ASSUME NEW p \in Play, connectionLost(p) PROVE PlayInv'
  BY <1>11 DEF connectionLost
<1>12. ASSUME NEW p \in Play, claimPackJoin(p) PROVE PlayInv'
  BY <1>12 DEF claimPackJoin
<1>13. ASSUME NEW p \in Play, serveConn(p) PROVE PlayInv'
  BY <1>13 DEF serveConn
<1>14. ASSUME NEW p \in Play, serveEnds(p) PROVE PlayInv'
  BY <1>14 DEF serveEnds
<1>15. ASSUME NEW p \in Play, endPlay(p) PROVE PlayInv'
  BY <1>15 DEF endPlay
<1>16. ASSUME NEW p \in Play, detach(p) PROVE PlayInv'
  BY <1>16, ZenonT(60) DEF detach, Return
<1>17. CASE expire
  BY <1>17 DEF expire, Attached
<1>18. CASE Close
  BY <1>18 DEF Close
<1>19. CASE close
  BY <1>19 DEF close
<1>20. CASE closeHandler
  BY <1>20 DEF closeHandler
<1>21. CASE UNCHANGED <<play, pc, ctl, through, handler, generation, closing, registered, control>>
  BY <1>21
<1>22. ASSUME NEW g \in Gen, NEW op \in Op,
             readCommand(g, op)
      PROVE  UNCHANGED <<play, pc, ctl, through, handler, generation, closing, registered,
                      control>>
  BY <1>22 DEF readCommand
<1>23. ASSUME NEW g \in Gen,
             lockCommands(g) \/ checkCurrent(g) \/ applyRefused(g) \/ commandRefused(g) \/
             SignIn(g)
      PROVE  UNCHANGED <<play, pc, ctl, through, handler, generation, closing, registered,
                      control>>
  BY <1>23 DEF lockCommands, checkCurrent, applyRefused, Unlock, commandRefused, SignIn
<1>24. ASSUME NEW n \in Attempt,
             prompt(n) \/ answered(n) \/ failed(n) \/ releaseSignIn(n) \/ failSignIn(n)
      PROVE  UNCHANGED <<play, pc, ctl, through, handler, generation, closing, registered,
                      control>>
  BY <1>24 DEF prompt, answered, failed, releaseSignIn, Finish, failSignIn
<1>25. ASSUME cancel
      PROVE  UNCHANGED <<play, pc, ctl, through, handler, generation, closing, registered,
                      control>>
  BY <1>25 DEF cancel
<1> QED BY <1>1, <1>2, <1>3, <1>4, <1>5, <1>6, <1>7, <1>8, <1>9, <1>10, <1>11, <1>12, <1>13,
           <1>14, <1>15, <1>16, <1>17, <1>18, <1>19, <1>20, <1>21, <1>22, <1>23, <1>24, <1>25
           DEF Next, ControlNext, SignInNext, PlayNext, CloseNext

\* A play that is granted is of the newest controller, so that claims follow the controllers.
LEMMA PackStep == ASSUME IInv, Next PROVE PackInv'
<1> USE SessionConstants DEF IInv, TypeOK, Gen, Attempt, None, closed,
           controlVars, signInVars, packVars, playVars, Goto, PackInv, PlayInv,
           ControlInv, Playing, PlayPlace
<1>1. CASE openControl
  BY <1>1 DEF openControl
<1>2. ASSUME NEW p \in Play, NEW j \in 0 .. MaxJoin, playSession(p, j) PROVE PackInv'
  BY <1>2 DEF playSession, Current, Live
<1>3. ASSUME NEW p \in Play, playAttach(p) PROVE PackInv'
  BY <1>3 DEF playAttach
<1>4. ASSUME NEW p \in Play, playRefused(p) PROVE PackInv'
  BY <1>4 DEF playRefused, Return
<1>5. ASSUME NEW p \in Play, beginPlay(p) PROVE PackInv'
  BY <1>5 DEF beginPlay, Asking, Live, Busy
<1>6. ASSUME NEW p \in Play, awaitPlay(p) PROVE PackInv'
  BY <1>6 DEF awaitPlay, Asking, Live, Busy
<1>7. ASSUME NEW p \in Play, beginPlayFails(p) PROVE PackInv'
  BY <1>7 DEF beginPlayFails, Asking
<1>8. ASSUME NEW p \in Play, connectionLost(p) PROVE PackInv'
  BY <1>8 DEF connectionLost
<1>9. ASSUME NEW p \in Play, claimPackJoin(p) PROVE PackInv'
  <2>1. ctl[p] \in 1 .. generation /\ packControl <= ctl[p] /\ join[p] \in 1 .. MaxJoin
    BY <1>9 DEF claimPackJoin
  <2>2. \A q \in Play : pc'[q] # "claimed"
    BY <1>9 DEF claimPackJoin
  <2>3. packControl' = ctl[p]
    BY <1>9 DEF claimPackJoin
  <2>4. ASSUME NEW d \in delivered PROVE d[1] <= ctl[p] /\ (d[1] = ctl[p] => d[2] <= packJoin')
    <3>1. d[1] \in Gen /\ d[2] \in Int
      OBVIOUS
    <3>2. CASE packControl = ctl[p]
      BY <1>9, <2>1, <3>1, <3>2 DEF claimPackJoin
    <3>3. CASE packControl # ctl[p]
      BY <2>1, <3>1, <3>3
    <3> QED BY <3>2, <3>3
  <2>5. \/ delivered' = delivered
        \/ delivered' = delivered \cup {<<ctl[p], join[p]>>} /\ packJoin' = join[p]
    BY <1>9, ClaimEffect
  <2>6. ASSUME NEW d \in delivered' PROVE d[1] <= ctl[p] /\ (d[1] = ctl[p] => d[2] <= packJoin')
    <3>1. CASE d \in delivered
      BY <2>4, <3>1
    <3>2. CASE d = <<ctl[p], join[p]>> /\ packJoin' = join[p]
      BY <2>1, <3>2
    <3> QED BY <2>5, <3>1, <3>2
  <2>7. generation' = generation /\ generation \in Int
    BY <1>9 DEF claimPackJoin
  <2> HIDE DEF TypeOK
  <2> QED BY <2>1, <2>2, <2>3, <2>6, <2>7
<1>10. ASSUME NEW p \in Play, serveConn(p) PROVE PackInv'
  BY <1>10 DEF serveConn
<1>11. ASSUME NEW p \in Play, serveEnds(p) PROVE PackInv'
  BY <1>11 DEF serveEnds
<1>12. ASSUME NEW p \in Play, endPlay(p) PROVE PackInv'
  BY <1>12 DEF endPlay
<1>13. ASSUME NEW p \in Play, detach(p) PROVE PackInv'
  BY <1>13 DEF detach, Return
<1>14. CASE UNCHANGED <<packControl, packJoin, delivered, pc, ctl, generation>>
  BY <1>14
<1>15. ASSUME NEW g \in Gen,
             retire(g) \/ lockCommands(g) \/ checkCurrent(g) \/ applyRefused(g) \/
             commandRefused(g) \/ SignIn(g) \/ SignOut(g)
      PROVE  UNCHANGED <<packControl, packJoin, delivered, pc, ctl, generation>>
  BY <1>15 DEF retire, lockCommands, checkCurrent, applyRefused, Unlock, commandRefused, SignIn, SignOut
<1>16. ASSUME NEW g \in Gen, NEW op \in Op,
             readCommand(g, op)
      PROVE  UNCHANGED <<packControl, packJoin, delivered, pc, ctl, generation>>
  BY <1>16 DEF readCommand
<1>17. ASSUME NEW n \in Attempt,
             prompt(n) \/ answered(n) \/ failed(n) \/ releaseSignIn(n) \/ failSignIn(n) \/
             publishSignIn(n)
      PROVE  UNCHANGED <<packControl, packJoin, delivered, pc, ctl, generation>>
  BY <1>17 DEF prompt, answered, failed, releaseSignIn, Finish, failSignIn, publishSignIn
<1>18. ASSUME expire \/ cancel \/ Close \/ close \/ closeHandler
      PROVE  UNCHANGED <<packControl, packJoin, delivered, pc, ctl, generation>>
  BY <1>18 DEF expire, cancel, Close, close, closeHandler
<1> QED BY <1>1, <1>2, <1>3, <1>4, <1>5, <1>6, <1>7, <1>8, <1>9, <1>10, <1>11, <1>12, <1>13,
           <1>14, <1>15, <1>16, <1>17, <1>18
           DEF Next, ControlNext, SignInNext, PlayNext, CloseNext

----------------------------------------------------------------------------
\* A new account satisfies the invariant.
LEMMA InvInit == Init => IInv
<1> SUFFICES ASSUME Init PROVE IInv
  OBVIOUS
<1> USE SessionConstants DEF Init, Gen, Attempt, None, closed
<1>1. TypeOK
  <2>1. /\ open \in BOOLEAN /\ registered \in BOOLEAN
        /\ generation \in 0 .. MaxGen /\ cancelled \subseteq Gen /\ control \subseteq Gen
        /\ commands \in Gen \cup {None}
    OBVIOUS
  <2>2. /\ reader \in [Gen -> [op : {"none", "sign_in", "sign_out"},
                              at : {"idle", "waiting", "locked", "checked"}]]
        /\ \A g \in Gen : reader[g].at \in {"locked", "checked"} => commands = g
    OBVIOUS
  <2>3. /\ auth \in [state : AuthState, seq : Attempt \cup {0}]
        /\ account \in Attempt \cup {None} /\ handler \in Handler
        /\ accounts \subseteq Attempt /\ handlers \subseteq Handler
    BY DEF AuthState, Handler
  <2>4. /\ signInSeq \in 0 .. MaxSeq /\ cancelSignIn \in {None, signInSeq}
        /\ worker \in [Attempt -> {"none", "asking", "prompted", "built", "failed", "done"}]
        /\ stopped \subseteq Attempt /\ closing \in {"open", "closing", "closed"}
    OBVIOUS
  <2>5. /\ play \in Play \cup {NoPlay} /\ packControl \in Gen \cup {None} /\ packJoin \in 0 .. MaxJoin
        /\ delivered \subseteq Gen \X (1 .. MaxJoin)
    OBVIOUS
  <2>6. /\ pc \in [Play -> PlayPlace] /\ ctl \in [Play -> Gen \cup {None}]
        /\ join \in [Play -> 0 .. MaxJoin] /\ through \in [Play -> Handler]
        /\ waitsFor \in [Play -> Play \cup {NoPlay}]
        /\ \A p \in Play : pc[p] = "waiting" => waitsFor[p] # NoPlay
    BY DEF PlayPlace, Handler
  <2> QED BY <2>1, <2>2, <2>3, <2>4, <2>5, <2>6 DEF TypeOK
<1>2. ControlInv /\ CommandIsNewest
  BY DEF ControlInv, CommandIsNewest
<1>3. WorkerInv /\ SignInInv
  BY DEF WorkerInv, SignInInv
<1>4. AuthIsCurrent /\ NothingLeaks
  BY DEF AuthIsCurrent, NothingLeaks
<1>5. PlayInv /\ PackInv
  BY DEF PlayInv, PackInv, Playing
<1> QED BY <1>1, <1>2, <1>3, <1>4, <1>5 DEF IInv

\* Every step, and every stutter, keeps it.
LEMMA InvStep == IInv /\ [Next]_vars => IInv'
<1> SUFFICES ASSUME IInv, [Next]_vars PROVE IInv'
  OBVIOUS
<1>1. CASE Next
  BY <1>1, TypeStep, ControlStep, CommandStep, WorkerStep, SignInStep, AuthStep, LeakStep, PlayStep,
     PackStep DEF IInv
<1>2. CASE UNCHANGED vars
  <2> USE <1>2 DEF IInv, vars, controlVars, signInVars, packVars, playVars, closed
  <2>1. TypeOK'
    BY DEF TypeOK
  <2>2. ControlInv' /\ CommandIsNewest'
    BY DEF ControlInv, CommandIsNewest
  <2>3. WorkerInv' /\ SignInInv' /\ AuthIsCurrent' /\ NothingLeaks'
    BY DEF WorkerInv, SignInInv, AuthIsCurrent, NothingLeaks
  <2>4. PlayInv' /\ PackInv'
    BY DEF PlayInv, PackInv
  <2> QED BY <2>1, <2>2, <2>3, <2>4
<1> QED BY <1>1, <1>2

\* The inductive invariant holds throughout the life of an account, whatever its controllers,
\* sign-in workers and play handlers do.
THEOREM Invariant == Spec => []IInv
<1>1. Init => IInv
  BY InvInit
<1>2. IInv /\ [Next]_vars => IInv'
  BY InvStep
<1> QED BY <1>1, <1>2, PTL DEF Spec

\* The variables have their types: in particular a sign-in never outruns the numbers handed out,
\* a reader past the lock holds session.commands, and beginPlay waits only for a play there is.
THEOREM TypeCorrect == Spec => []TypeOK
<1>1. IInv => TypeOK
  BY DEF IInv
<1> QED BY <1>1, Invariant, PTL

\* However sign-outs, sign-in outcomes, takeovers, expiry and closing interleave with it, a play
\* connection keeps the play, the handler it joined through stays the session's and stays open.
THEOREM PlayIsUndisturbed == Spec => []PlayUndisturbed
<1>1. IInv => PlayUndisturbed
  <2> SUFFICES ASSUME IInv, NEW p \in Play, pc[p] \in {"claimed", "serving", "finished"}
               PROVE  play = p /\ through[p] = handler /\ handler \in handlers /\ ~closed
    BY DEF PlayUndisturbed
  <2>1. play = p /\ p # NoPlay /\ through[p] = handler
    BY SessionConstants DEF IInv, PlayInv, Playing
  <2>2. ~closed
    BY <2>1 DEF IInv, PlayInv
  <2>3. handler \in handlers
    BY <2>2 DEF IInv, NothingLeaks, closed
  <2> QED BY <2>1, <2>2, <2>3
<1> QED BY <1>1, Invariant, PTL

\* A command that applyAccount has checked is the newest controller's when it applies: a takeover
\* waits for session.commands.
THEOREM CommandsAreNewest == Spec => []CommandIsNewest
<1>1. IInv => CommandIsNewest
  BY DEF IInv
<1> QED BY <1>1, Invariant, PTL

\* The account state is that of the account held and of the sign-in in progress: the outcome of
\* an earlier sign-in, however late, does not show.
THEOREM AuthStaysCurrent == Spec => []AuthIsCurrent
<1>1. IInv => AuthIsCurrent
  BY DEF IInv
<1> QED BY <1>1, Invariant, PTL

\* Every account and handler that was ever built is held, is with its worker, or is closed.
THEOREM NothingIsLeaked == Spec => []NothingLeaks
<1>1. IInv => NothingLeaks
  BY DEF IInv
<1> QED BY <1>1, Invariant, PTL

\* Only a claim leads from a granted play with packs to its delivery.
LEMMA ServedByClaim ==
  ASSUME IInv, Next, NEW p \in Play, pc[p] = "claimed", pc'[p] = "serving", join[p] # 0
  PROVE  claimPackJoin(p) /\ ~(join[p] <= IF packControl = ctl[p] THEN packJoin ELSE 0)
<1> USE DEF IInv, TypeOK, Goto
<1>1. ASSUME ControlNext \/ SignInNext \/ CloseNext PROVE pc' = pc
  BY <1>1 DEF ControlNext, openControl, retire, readCommand, lockCommands, checkCurrent,
     applyRefused, commandRefused, SignIn, SignOut, SignInNext, prompt, answered, failed, releaseSignIn,
     failSignIn, publishSignIn, Finish, CloseNext, expire, cancel, Close, close, closeHandler, playVars
<1>2. ASSUME NEW q \in Play, NEW j \in 0 .. MaxJoin,
             playSession(q, j) \/ playAttach(q) \/ playRefused(q) \/ beginPlay(q) \/ awaitPlay(q) \/
             beginPlayFails(q) \/ connectionLost(q) \/ serveEnds(q) \/ endPlay(q) \/ detach(q)
      PROVE  pc'[p] # "serving"
  BY <1>2 DEF playSession, playAttach, playRefused, beginPlay, awaitPlay, beginPlayFails,
     connectionLost, serveEnds, endPlay, detach, Return
<1>3. ASSUME NEW q \in Play, serveConn(q) PROVE FALSE
  BY <1>3 DEF serveConn
<1>4. ASSUME NEW q \in Play, claimPackJoin(q)
      PROVE  q = p /\ ~(join[p] <= IF packControl = ctl[p] THEN packJoin ELSE 0)
  BY <1>4 DEF claimPackJoin
<1> QED BY <1>1, <1>2, <1>3, <1>4, SessionConstants DEF Next, PlayNext

\* Under one controller the joins whose archives are published increase, although claims of
\* cancelled controllers come late and other controllers claim in between.
THEOREM JoinsOnlyIncrease == Spec => JoinsIncrease
<1>1. IInv /\ [Next]_vars =>
        [\A p \in Play : pc[p] = "claimed" /\ pc'[p] = "serving" /\ join[p] # 0 =>
           \A d \in delivered : d[1] = ctl[p] => d[2] < join[p]]_vars
  <2> SUFFICES ASSUME IInv, Next, NEW p \in Play, pc[p] = "claimed", pc'[p] = "serving", join[p] # 0,
                      NEW d \in delivered, d[1] = ctl[p]
               PROVE  d[2] < join[p]
    OBVIOUS
  <2>1. ~(join[p] <= IF packControl = ctl[p] THEN packJoin ELSE 0)
    BY ServedByClaim
  <2>2. packControl <= ctl[p] /\ d[1] <= packControl /\ (d[1] = packControl => d[2] <= packJoin)
    BY DEF IInv, PackInv
  <2>3. /\ ctl[p] \in Int /\ packControl \in Int /\ packJoin \in Int /\ join[p] \in Int
        /\ d[1] \in Int /\ d[2] \in Int
    BY SessionConstants DEF IInv, TypeOK, Gen, None
  <2> QED BY <2>1, <2>2, <2>3
<1> QED BY <1>1, Invariant, PTL DEF Spec, JoinsIncrease
=============================================================================
