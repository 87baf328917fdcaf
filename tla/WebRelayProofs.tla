--------------------------- MODULE WebRelayProofs ---------------------------
(* Invariance proofs for WebRelay, for every number of accounts, addresses and handlers, and *)
(* for RelayLink, which joins it to a browser: RelayLink's own invariant, and that it        *)
(* implements WebRelay.                                                                      *)
EXTENDS RelayLink, FiniteSetTheorems, SequenceTheorems, TLAPS

\* resumeLocked returns an account of the map or none.
LEMMA ResumeType ==
    ASSUME TypeOK, NEW bearer, NEW at
    PROVE  resumeLocked(bearer, at) \in Session \cup {NoSession}
  BY DEF TypeOK, resumeLocked, BearerRecord

\* Moving an account between addresses keeps perIP a map to integers.
LEMMA CountType ==
    ASSUME NEW f \in [Addr -> Int], NEW x
    PROVE  [f EXCEPT ![x] = @ - 1] \in [Addr -> Int] /\ [f EXCEPT ![x] = @ + 1] \in [Addr -> Int]
<1>1. \A a \in Addr : [f EXCEPT ![x] = @ - 1][a] \in Int /\ [f EXCEPT ![x] = @ + 1][a] \in Int
  OBVIOUS
<1> QED BY <1>1

\* A play Hello is a Hello.
LEMMA HelloType ==
    /\ NoHello \in HelloRecord
    /\ \A b \in Nat, s \in Session : [NoHello EXCEPT !.token = b, !.session = s] \in HelloRecord
  BY DEF HelloRecord, NoHello, NoBearer

\* Every action keeps the types.
LEMMA TypeStep == ASSUME TypeOK, Next PROVE TypeOK'
<1> USE DEF TypeOK, capabilityVars, relayVars, controlVars, accountVars, handlerVars, expireVars
<1>1. ASSUME NEW c \in Conn, NEW a \in Addr, NEW t \in 1 .. issued, resumeSession(c, a, t)
      PROVE  TypeOK'
  BY <1>1, ResumeType, RelayConstants DEF resumeSession, Found, HelloRecord, NoHello, NoBearer,
     Goto, Place
<1>2. ASSUME NEW c \in Conn, NEW a \in Addr, NEW s \in Session, newWebSession(c, a, s) PROVE TypeOK'
  BY <1>2, RelayConstants DEF newWebSession, Found, HelloRecord, NoHello, NoBearer, Goto, Place
<1>3. ASSUME NEW c \in Conn, NEW a \in Addr, NEW t \in 0 .. issued, controlSessionRefused(c, a, t)
      PROVE  TypeOK'
  BY <1>3, RelayConstants DEF controlSessionRefused, Goto, Place
<1>4. ASSUME NEW c \in Conn, attach(c) PROVE TypeOK'
  BY <1>4, RelayConstants DEF attach, Goto, Place
<1>5. ASSUME NEW c \in Conn, attachRefused(c) PROVE TypeOK'
  BY <1>5, RelayConstants DEF attachRefused, Goto, Place
<1>6. ASSUME NEW c \in Conn, openControlRefused(c) PROVE TypeOK'
  <2>1. attached' \in [Session -> Int] /\ idleSince' \in [Session -> Nat]
    BY <1>6 DEF openControlRefused, detachAt, HelloRecord
  <2> QED BY <1>6, <2>1 DEF openControlRefused, Goto, Place
<1>7. ASSUME NEW c \in Conn, openControl(c) PROVE TypeOK'
  <2> DEFINE s == hello[c].session
  <2>1. s \in Session /\ hello[c].token \in Nat /\ hello[c].now \in Nat /\ hello[c].client \in Addr \cup {NoAddr}
    BY <1>7 DEF openControl, HelloRecord
  <2>2. perIP' \in [Addr -> Int]
    <3> DEFINE left == [perIP EXCEPT ![client[s]] = @ - 1]
    <3>1. perIP' = perIP \/ perIP' = [left EXCEPT ![hello[c].client] = @ + 1]
      BY <1>7 DEF openControl, moveAddress
    <3>2. left \in [Addr -> Int]
      BY CountType
    <3>3. [left EXCEPT ![hello[c].client] = @ + 1] \in [Addr -> Int]
      <4> HIDE DEF left
      <4> QED BY <3>2, CountType
    <3> QED BY <3>1, <3>3
  <2>3. /\ issued' \in Nat /\ DOMAIN tokens' \subseteq 1 .. issued'
        /\ \A t \in DOMAIN tokens' : tokens'[t] \in BearerRecord
    BY <1>7, <2>1, RelayConstants DEF openControl, rotateLocked, BearerRecord
  <2>4. /\ token' \in [Session -> Nat] /\ previousToken' \in [Session -> Nat]
        /\ tokenPending' \in [Session -> BOOLEAN] /\ generation' \in [Session -> Nat]
        /\ controller' \in [Session -> Nat] /\ client' \in [Session -> Addr \cup {NoAddr}]
        /\ commands' \in [Session -> Conn \cup {Free, Expirer}]
    BY <1>7, <2>1 DEF openControl, rotateLocked
  <2>5. /\ pc' \in [Conn -> Place] /\ gen' \in [Conn -> Nat] /\ live' \in [Conn -> BOOLEAN]
        /\ \A d \in Conn : pc'[d] \notin {"idle", "refused"} => hello'[d].session \in Session
    BY <1>7, <2>1 DEF openControl, Goto, Place
  <2> QED BY <1>7, <2>2, <2>3, <2>4, <2>5 DEF openControl
<1>8. ASSUME NEW c \in Conn, refusal(c) PROVE TypeOK'
  BY <1>8, RelayConstants DEF refusal, Return, HelloRecord, NoHello, NoBearer, Goto, Place
<1>9. ASSUME NEW c \in Conn, welcome(c) PROVE TypeOK'
  BY <1>9, RelayConstants DEF welcome, Goto, Place
<1>10. ASSUME NEW c \in Conn, pingRotate(c) PROVE TypeOK'
  BY <1>10, RelayConstants DEF pingRotate, rotateLocked, BearerRecord, Goto, Place
<1>11. ASSUME NEW c \in Conn, retire(c) PROVE TypeOK'
  <2>1. controller' \in [Session -> Nat] /\ live' \in [Conn -> BOOLEAN]
    BY <1>11 DEF retire, NoController
  <2>2. /\ pc' \in [Conn -> Place]
        /\ \A d \in Conn : pc'[d] \notin {"idle", "refused"} => hello'[d].session \in Session
    BY <1>11 DEF retire, Running, Goto, Place
  <2> QED BY <1>11, <2>1, <2>2 DEF retire
<1>12. ASSUME NEW c \in Conn, detach(c) PROVE TypeOK'
  BY <1>12, RelayConstants DEF detach, Return, detachAt, HelloRecord, NoHello, NoBearer, Goto, Place
<1>13. ASSUME NEW c \in Conn, NEW t \in 1 .. issued, acknowledge(c, t) PROVE TypeOK'
  BY <1>13, RelayConstants DEF acknowledge, Goto, Place
<1>14. ASSUME NEW c \in Conn, NEW t \in 0 .. issued, NEW d \in Conn, playSession(c, t, d)
       PROVE  TypeOK'
  <2>1. hello[d].session \in Session /\ NoHello \in HelloRecord
    BY <1>14 DEF playSession, Current, Running, HelloRecord, NoHello, NoBearer
  <2>2. hello' \in [Conn -> HelloRecord]
    <3>1. [NoHello EXCEPT !.token = t, !.session = hello[d].session] \in HelloRecord
      <4>1. t \in Nat
        OBVIOUS
      <4> QED BY <4>1, <2>1, HelloType
    <3> QED BY <1>14, <3>1 DEF playSession
  <2>3. /\ pc' \in [Conn -> Place]
        /\ \A e \in Conn : pc'[e] \notin {"idle", "refused"} => hello'[e].session \in Session
    BY <1>14, <2>1 DEF playSession, Goto, Place, NoHello
  <2> QED BY <1>14, <2>2, <2>3 DEF playSession
<1>15. ASSUME NEW c \in Conn, playAttach(c) PROVE TypeOK'
  <2>1. CASE closed[hello[c].session]
    <3>1. NoHello \in HelloRecord
      BY DEF HelloRecord, NoHello, NoBearer
    <3> QED BY <1>15, <2>1, <3>1 DEF playAttach, Return, Goto, Place
  <2>2. CASE ~closed[hello[c].session]
    BY <1>15, <2>2 DEF playAttach, Goto, Place
  <2> QED BY <2>1, <2>2
<1>16. ASSUME NEW s \in Session, expireCheck(s) PROVE TypeOK'
  <2>1. expVerdict' \in BOOLEAN
    BY <1>16 DEF expireCheck, expired
  <2> QED BY <1>16, <2>1 DEF expireCheck
<1>17. CASE expireStart
  BY <1>17, RelayConstants DEF expireStart, Goto, Place
<1>18. CASE expireForget
  <2>1. DOMAIN tokens' \subseteq DOMAIN tokens /\ \A t \in DOMAIN tokens' : tokens'[t] = tokens[t]
    BY <1>18 DEF expireForget
  <2>2. perIP' = [perIP EXCEPT ![client[expSession]] = @ - 1]
    BY <1>18 DEF expireForget
  <2>3. perIP' \in [Addr -> Int]
    BY <2>2, CountType
  <2>4. commands' \in [Session -> Conn \cup {Free, Expirer}]
    BY <1>18 DEF expireForget
  <2> QED BY <1>18, <2>1, <2>3, <2>4 DEF expireForget
<1>19. CASE expireKeep
  BY <1>19, RelayConstants DEF expireKeep, Goto, Place
<1>20. CASE expireClose
  BY <1>20, RelayConstants DEF expireClose, Goto, Place
<1>21. CASE expireDone
  BY <1>21, RelayConstants DEF expireDone, Goto, Place
<1>22. CASE cancel
  BY <1>22, RelayConstants DEF cancel, Goto, Place
<1>23. CASE Close
  BY <1>23, RelayConstants DEF Close, Goto, Place
<1>24. CASE Tick
  BY <1>24, RelayConstants DEF Tick, Goto, Place
<1>25. ASSUME NEW c \in Conn, playRefused(c) PROVE TypeOK'
  BY <1>25, HelloType DEF playRefused, Return, Goto, Place
<1> QED BY <1>1, <1>2, <1>3, <1>4, <1>5, <1>6, <1>7, <1>8, <1>9, <1>10, <1>11, <1>12, <1>13, <1>14,
           <1>15, <1>16, <1>17, <1>18, <1>19, <1>20, <1>21, <1>22, <1>23, <1>24, <1>25 DEF Next,
           ControlNext, PlayNext, ExpireNext

\* The initial state is well typed.
LEMMA TypeInit == ASSUME Init PROVE TypeOK
<1>1. hello \in [Conn -> HelloRecord]
  BY DEF Init, HelloRecord, NoHello, NoBearer
<1>2. DOMAIN tokens = {}
  BY DEF Init
<1>3. pc \in [Conn -> Place] /\ \A c \in Conn : pc[c] = "idle"
  BY DEF Init, Place
<1>4. expPC \notin {"checked", "closing"}
  BY DEF Init
<1>5. /\ token \in [Session -> Nat] /\ previousToken \in [Session -> Nat]
      /\ tokenPending \in [Session -> BOOLEAN]
      /\ generation \in [Session -> Nat] /\ controller \in [Session -> Nat]
      /\ client \in [Session -> Addr \cup {NoAddr}]
  BY DEF Init, NoBearer, NoController
<1>6. /\ attached \in [Session -> Int] /\ idleSince \in [Session -> Nat]
      /\ closed \in [Session -> BOOLEAN]
      /\ commands \in [Session -> Conn \cup {Free, Expirer}]
      /\ gen \in [Conn -> Nat] /\ live \in [Conn -> BOOLEAN] /\ perIP \in [Addr -> Int]
  BY DEF Init
<1>7. now \in Nat /\ open \in BOOLEAN /\ issued \in Nat /\ sessions = {} /\ made = {}
  BY DEF Init
<1>8. expPC = "idle" /\ expTodo = {} /\ expNow \in Nat /\ expVerdict \in BOOLEAN
  BY DEF Init
<1> QED BY <1>1, <1>2, <1>3, <1>4, <1>5, <1>6, <1>7, <1>8 DEF TypeOK

\* The fields of Relay, of every webSession and of every handler keep their types.
THEOREM TypeCorrect == Spec => []TypeOK
<1>1. Init => TypeOK
  BY TypeInit
<1>2. TypeOK /\ [Next]_vars => TypeOK'
  BY TypeStep DEF vars, TypeOK, capabilityVars, relayVars, controlVars, accountVars, handlerVars,
     expireVars
<1> QED BY <1>1, <1>2, PTL DEF Spec
----------------------------------------------------------------------------
\* The inductive invariant.  A bearer is never newer than the last one issued, and an account
\* that was not created has none.
BearersIssued ==
    /\ \A s \in Session : token[s] <= issued /\ previousToken[s] <= issued
    /\ \A s \in Session \ made : token[s] = NoBearer /\ previousToken[s] = NoBearer

\* A handler past its Hello works on a created account; session.commands is held by the one
\* handler inside openControl or by expire; a closed account is no longer registered.
LockInv ==
    /\ \A c \in Conn : pc[c] \notin {"idle", "refused"} => hello[c].session \in made
    /\ \A c \in Conn : pc[c] = "attached" => commands[hello[c].session] = c
    /\ expTodo \subseteq made
    /\ expPC \in {"checked", "closing"} => expSession \in made
    /\ expPC = "checked" => commands[expSession] = Expirer
    /\ expPC = "closing" => expSession \notin sessions
    /\ \A s \in Session : closed[s] => s \in made \ sessions

ControlPlace == {"attached", "greeting", "control", "retired"}

\* What expire's verdict rests on until it has forgotten the account: no controller holds it,
\* and none can attach while expire holds session.commands.
VerdictInv ==
    expPC = "checked" /\ expVerdict =>
        \A c \in Conn : hello[c].session = expSession => pc[c] \notin ControlPlace

\* Generations are handed out once.
GenerationInv ==
    /\ \A c \in Conn : Running(c) => gen[c] # NoController /\ gen[c] <= generation[hello[c].session]
    /\ \A c, d \in Conn : Running(c) /\ Running(d) /\ c # d /\ hello[c].session = hello[d].session
                          => gen[c] # gen[d]
    /\ \A c \in Conn : Running(c) /\ live[c] => /\ controller[hello[c].session] = gen[c]
                                                /\ generation[hello[c].session] = gen[c]

IInv == /\ TypeOK /\ BearersExact /\ BearersIssued /\ LockInv /\ VerdictInv
        /\ GenerationInv /\ ControlledAccountKept /\ AttachedCounted

\* rotateLocked on a registered account keeps the map exact when the bearer to retain is none
\* or one that resumes that account.
LEMMA RotateExact ==
    ASSUME TypeOK, BearersExact, BearersIssued, NEW s \in sessions, NEW at, NEW retain,
           retain = NoBearer \/ (retain \in DOMAIN tokens /\ tokens[retain].session = s),
           rotateLocked(s, retain, at), UNCHANGED <<sessions, made>>
    PROVE  BearersExact' /\ BearersIssued'
<1> DEFINE fresh == issued + 1
<1> DEFINE dropped == {token[s], previousToken[s]} \ {retain}
<1>0. s \in Session /\ issued \in Nat /\ fresh \notin DOMAIN tokens /\ fresh # NoBearer
  BY DEF TypeOK, NoBearer
<1>1. /\ issued' = fresh
      /\ token' = [token EXCEPT ![s] = fresh] /\ previousToken' = [previousToken EXCEPT ![s] = retain]
  BY DEF rotateLocked
<1>2. /\ DOMAIN tokens' = (DOMAIN tokens \ dropped) \cup {fresh}
      /\ tokens'[fresh].session = s
      /\ \A t \in DOMAIN tokens \ dropped : tokens'[t] = tokens[t]
  BY <1>0 DEF rotateLocked
<1>3. /\ token'[s] = fresh /\ previousToken'[s] = retain
      /\ \A u \in Session \ {s} : token'[u] = token[u] /\ previousToken'[u] = previousToken[u]
  BY <1>0, <1>1 DEF TypeOK
<1>4. BearersIssued'
  <2>1. retain \in Nat /\ retain <= issued
    BY <1>0 DEF TypeOK, NoBearer
  <2>2. \A u \in Session : token'[u] <= issued' /\ previousToken'[u] <= issued'
    <3>1. token'[s] <= fresh /\ previousToken'[s] <= fresh
      BY <1>0, <1>3, <2>1
    <3>2. \A u \in Session \ {s} : token'[u] <= fresh /\ previousToken'[u] <= fresh
      BY <1>0, <1>3 DEF BearersIssued, TypeOK
    <3> QED BY <3>1, <3>2, <1>1
  <2>3. \A u \in Session \ made' : token'[u] = NoBearer /\ previousToken'[u] = NoBearer
    BY <1>3 DEF BearersIssued, TypeOK
  <2> QED BY <2>2, <2>3 DEF BearersIssued
<1>5. \A t \in DOMAIN tokens' : /\ tokens'[t].session \in sessions'
                                /\ t \in {token'[tokens'[t].session], previousToken'[tokens'[t].session]}
  <2>1. ASSUME NEW t \in DOMAIN tokens \ dropped
        PROVE  /\ tokens'[t].session \in sessions'
               /\ t \in {token'[tokens'[t].session], previousToken'[tokens'[t].session]}
    <3>1. tokens[t].session \in sessions /\ t \in {token[tokens[t].session], previousToken[tokens[t].session]}
      BY DEF BearersExact
    <3>2. CASE tokens[t].session = s
      BY <3>1, <3>2, <2>1, <1>2, <1>3
    <3>3. CASE tokens[t].session # s
      BY <3>1, <3>3, <2>1, <1>2, <1>3 DEF TypeOK
    <3> QED BY <3>2, <3>3
  <2> QED BY <2>1, <1>2, <1>3
<1>6. ASSUME NEW u \in sessions', NEW t \in {token'[u], previousToken'[u]} \ {NoBearer}
      PROVE  t \in DOMAIN tokens' /\ tokens'[t].session = u
  <2>1. CASE u = s
    BY <1>2, <1>3, <1>6, <2>1
  <2>2. CASE u # s
    <3>1. u \in Session /\ t \in {token[u], previousToken[u]}
      BY <1>3, <1>6, <2>2 DEF TypeOK
    <3>2. t \in DOMAIN tokens /\ tokens[t].session = u
      BY <1>6, <3>1 DEF BearersExact
    <3>3. t \notin dropped
      BY <1>6, <2>2, <3>2 DEF BearersExact
    <3> QED BY <3>2, <3>3, <1>2
  <2> QED BY <2>1, <2>2
<1> QED BY <1>4, <1>5, <1>6 DEF BearersExact

\* Every action keeps relay.tokens exact.
LEMMA BearersStep == ASSUME IInv, Next PROVE BearersExact' /\ BearersIssued'
<1> USE DEF IInv, capabilityVars, relayVars, controlVars, accountVars, handlerVars, expireVars
<1>1. ASSUME NEW c \in Conn, NEW a \in Addr, NEW t \in 1 .. issued, resumeSession(c, a, t)
      PROVE  BearersExact' /\ BearersIssued'
  BY <1>1 DEF resumeSession, BearersExact, BearersIssued
<1>2. ASSUME NEW c \in Conn, NEW a \in Addr, NEW s \in Session, newWebSession(c, a, s)
      PROVE  BearersExact' /\ BearersIssued'
  <2>1. token[s] = NoBearer /\ previousToken[s] = NoBearer
    BY <1>2 DEF newWebSession, BearersIssued
  <2> QED BY <1>2, <2>1 DEF newWebSession, BearersExact, BearersIssued
<1>3. ASSUME NEW c \in Conn, NEW a \in Addr, NEW t \in 0 .. issued, controlSessionRefused(c, a, t)
      PROVE  BearersExact' /\ BearersIssued'
  BY <1>3 DEF controlSessionRefused, BearersExact, BearersIssued
<1>4. ASSUME NEW c \in Conn, attach(c) PROVE BearersExact' /\ BearersIssued'
  BY <1>4 DEF attach, BearersExact, BearersIssued
<1>5. ASSUME NEW c \in Conn, attachRefused(c) PROVE BearersExact' /\ BearersIssued'
  BY <1>5 DEF attachRefused, BearersExact, BearersIssued
<1>6. ASSUME NEW c \in Conn, openControlRefused(c) PROVE BearersExact' /\ BearersIssued'
  BY <1>6 DEF openControlRefused, BearersExact, BearersIssued
<1>7. ASSUME NEW c \in Conn, openControl(c) PROVE BearersExact' /\ BearersIssued'
  <2> DEFINE s == hello[c].session
  <2>1. /\ s \in sessions
        /\ hello[c].token = NoBearer \/ resumeLocked(hello[c].token, hello[c].now) = s
    BY <1>7 DEF openControl, TakeoverRefused
  <2>2. s # NoSession
    BY <2>1, RelayConstants DEF TypeOK
  <2>3. \/ hello[c].token = NoBearer
        \/ hello[c].token \in DOMAIN tokens /\ tokens[hello[c].token].session = s
    BY <2>1, <2>2 DEF resumeLocked
  <2>4. rotateLocked(s, hello[c].token, hello[c].now) /\ UNCHANGED <<sessions, made>>
    BY <1>7 DEF openControl
  <2> QED BY <2>1, <2>3, <2>4, RotateExact
<1>8. ASSUME NEW c \in Conn, refusal(c) PROVE BearersExact' /\ BearersIssued'
  BY <1>8 DEF refusal, BearersExact, BearersIssued
<1>9. ASSUME NEW c \in Conn, welcome(c) PROVE BearersExact' /\ BearersIssued'
  BY <1>9 DEF welcome, BearersExact, BearersIssued
<1>10. ASSUME NEW c \in Conn, pingRotate(c) PROVE BearersExact' /\ BearersIssued'
  <2> DEFINE s == hello[c].session
  <2>1. s \in sessions
    BY <1>10 DEF pingRotate, ControlledAccountKept
  <2>2. token[s] = NoBearer \/ (token[s] \in DOMAIN tokens /\ tokens[token[s]].session = s)
    BY <2>1 DEF BearersExact
  <2>3. rotateLocked(s, token[s], now) /\ UNCHANGED <<sessions, made>>
    BY <1>10 DEF pingRotate
  <2> QED BY <2>1, <2>2, <2>3, RotateExact
<1>11. ASSUME NEW c \in Conn, retire(c) PROVE BearersExact' /\ BearersIssued'
  BY <1>11 DEF retire, BearersExact, BearersIssued
<1>12. ASSUME NEW c \in Conn, detach(c) PROVE BearersExact' /\ BearersIssued'
  BY <1>12 DEF detach, BearersExact, BearersIssued
<1>13. ASSUME NEW c \in Conn, NEW t \in 1 .. issued, acknowledge(c, t)
       PROVE  BearersExact' /\ BearersIssued'
  BY <1>13 DEF acknowledge, BearersExact, BearersIssued
<1>14. ASSUME NEW c \in Conn, NEW t \in 0 .. issued, NEW d \in Conn, playSession(c, t, d)
       PROVE  BearersExact' /\ BearersIssued'
  BY <1>14 DEF playSession, BearersExact, BearersIssued
<1>15. ASSUME NEW c \in Conn, playAttach(c) PROVE BearersExact' /\ BearersIssued'
  BY <1>15 DEF playAttach, BearersExact, BearersIssued
<1>16. ASSUME NEW s \in Session, expireCheck(s) PROVE BearersExact' /\ BearersIssued'
  BY <1>16 DEF expireCheck, BearersExact, BearersIssued
<1>17. CASE expireStart
  BY <1>17 DEF expireStart, BearersExact, BearersIssued
<1>18. CASE expireForget
  <2> DEFINE s == expSession
  <2>1. /\ sessions' = sessions \ {s} /\ UNCHANGED <<made, issued, token, previousToken>>
        /\ DOMAIN tokens' = DOMAIN tokens \ {token[s], previousToken[s]}
        /\ \A t \in DOMAIN tokens' : tokens'[t] = tokens[t]
    BY <1>18 DEF expireForget
  <2>2. \A t \in DOMAIN tokens' : /\ tokens'[t].session \in sessions'
                                  /\ t \in {token'[tokens'[t].session], previousToken'[tokens'[t].session]}
    BY <2>1 DEF BearersExact
  <2>3. ASSUME NEW u \in sessions', NEW t \in {token[u], previousToken[u]} \ {NoBearer}
        PROVE  t \in DOMAIN tokens' /\ tokens'[t].session = u
    <3>1. t \in DOMAIN tokens /\ tokens[t].session = u /\ u # s
      BY <2>1, <2>3 DEF BearersExact
    <3>2. s \in sessions
      BY <1>18 DEF expireForget
    <3>3. t \notin {token[s], previousToken[s]}
      BY <2>3, <3>1, <3>2 DEF BearersExact
    <3> QED BY <2>1, <3>1, <3>3
  <2> QED BY <2>1, <2>2, <2>3 DEF BearersExact, BearersIssued
<1>19. CASE expireKeep
  BY <1>19 DEF expireKeep, BearersExact, BearersIssued
<1>20. CASE expireClose
  BY <1>20 DEF expireClose, BearersExact, BearersIssued
<1>21. CASE expireDone
  BY <1>21 DEF expireDone, BearersExact, BearersIssued
<1>22. CASE cancel
  BY <1>22 DEF cancel, BearersExact, BearersIssued
<1>23. CASE Close
  <2>1. DOMAIN tokens' = {} /\ sessions' = {} /\ UNCHANGED <<made, issued, token, previousToken>>
    BY <1>23 DEF Close
  <2> QED BY <2>1 DEF BearersExact, BearersIssued
<1>24. CASE Tick
  BY <1>24 DEF Tick, BearersExact, BearersIssued
<1>25. ASSUME NEW c \in Conn, playRefused(c) PROVE BearersExact' /\ BearersIssued'
  BY <1>25 DEF playRefused, BearersExact, BearersIssued
<1> QED BY <1>1, <1>2, <1>3, <1>4, <1>5, <1>6, <1>7, <1>8, <1>9, <1>10, <1>11, <1>12, <1>13, <1>14,
           <1>15, <1>16, <1>17, <1>18, <1>19, <1>20, <1>21, <1>22, <1>23, <1>24, <1>25 DEF Next,
           ControlNext, PlayNext, ExpireNext

\* A bearer that resumes an account resumes a registered one.
LEMMA ResumeRegistered ==
    ASSUME TypeOK, BearersExact, NEW bearer, NEW at, resumeLocked(bearer, at) # NoSession
    PROVE  resumeLocked(bearer, at) \in sessions
  BY DEF resumeLocked, BearersExact

\* Every action keeps the order of session.commands against expire.
LEMMA LockStep == ASSUME IInv, Next PROVE LockInv'
<1> USE DEF IInv, capabilityVars, relayVars, controlVars, accountVars, handlerVars, expireVars
<1>1. ASSUME NEW c \in Conn, NEW a \in Addr, NEW t \in 1 .. issued, resumeSession(c, a, t)
      PROVE  LockInv'
  <2>1. resumeLocked(t, now) \in sessions
    BY <1>1, ResumeRegistered DEF resumeSession
  <2> QED BY <1>1, <2>1 DEF resumeSession, TypeOK, LockInv, Goto, Found
<1>2. ASSUME NEW c \in Conn, NEW a \in Addr, NEW s \in Session, newWebSession(c, a, s)
      PROVE  LockInv'
  BY <1>2, RelayConstants DEF newWebSession, TypeOK, LockInv, Goto, Return, Found, NoHello, Running,
     Current, TakeoverRefused
<1>3. ASSUME NEW c \in Conn, NEW a \in Addr, NEW t \in 0 .. issued, controlSessionRefused(c, a, t)
      PROVE  LockInv'
  BY <1>3, RelayConstants DEF controlSessionRefused, TypeOK, LockInv, Goto, Return, Found, NoHello,
     Running, Current, TakeoverRefused
<1>4. ASSUME NEW c \in Conn, attach(c) PROVE LockInv'
  BY <1>4, RelayConstants DEF attach, TypeOK, LockInv, Goto, Return, Found, NoHello, Running,
     Current, TakeoverRefused
<1>5. ASSUME NEW c \in Conn, attachRefused(c) PROVE LockInv'
  BY <1>5, RelayConstants DEF attachRefused, TypeOK, LockInv, Goto, Return, Found, NoHello, Running,
     Current, TakeoverRefused
<1>6. ASSUME NEW c \in Conn, openControlRefused(c) PROVE LockInv'
  BY <1>6, RelayConstants DEF openControlRefused, TypeOK, LockInv, Goto, Return, Found, NoHello,
     Running, Current, TakeoverRefused
<1>7. ASSUME NEW c \in Conn, openControl(c) PROVE LockInv'
  BY <1>7, RelayConstants DEF openControl, TypeOK, LockInv, Goto, Return, Found, NoHello, Running,
     Current, TakeoverRefused
<1>8. ASSUME NEW c \in Conn, refusal(c) PROVE LockInv'
  BY <1>8, RelayConstants DEF refusal, TypeOK, LockInv, Goto, Return, Found, NoHello, Running,
     Current, TakeoverRefused
<1>9. ASSUME NEW c \in Conn, welcome(c) PROVE LockInv'
  BY <1>9, RelayConstants DEF welcome, TypeOK, LockInv, Goto, Return, Found, NoHello, Running,
     Current, TakeoverRefused
<1>10. ASSUME NEW c \in Conn, pingRotate(c) PROVE LockInv'
  BY <1>10, RelayConstants DEF pingRotate, TypeOK, LockInv, Goto, Return, Found, NoHello, Running,
     Current, TakeoverRefused
<1>11. ASSUME NEW c \in Conn, retire(c) PROVE LockInv'
  BY <1>11, RelayConstants DEF retire, TypeOK, LockInv, Goto, Return, Found, NoHello, Running,
     Current, TakeoverRefused
<1>12. ASSUME NEW c \in Conn, detach(c) PROVE LockInv'
  BY <1>12, RelayConstants DEF detach, TypeOK, LockInv, Goto, Return, Found, NoHello, Running,
     Current, TakeoverRefused
<1>13. ASSUME NEW c \in Conn, NEW t \in 1 .. issued, acknowledge(c, t) PROVE LockInv'
  BY <1>13, RelayConstants DEF acknowledge, TypeOK, LockInv, Goto, Return, Found, NoHello, Running,
     Current, TakeoverRefused
<1>14. ASSUME NEW c \in Conn, NEW t \in 0 .. issued, NEW d \in Conn, playSession(c, t, d)
       PROVE  LockInv'
  BY <1>14, RelayConstants DEF playSession, TypeOK, LockInv, Goto, Return, Found, NoHello, Running,
     Current, TakeoverRefused
<1>15. ASSUME NEW c \in Conn, playAttach(c) PROVE LockInv'
  BY <1>15, RelayConstants DEF playAttach, TypeOK, LockInv, Goto, Return, Found, NoHello, Running,
     Current, TakeoverRefused
<1>16. ASSUME NEW s \in Session, expireCheck(s) PROVE LockInv'
  BY <1>16, RelayConstants DEF expireCheck, TypeOK, LockInv, Goto, Return, Found, NoHello, Running,
     Current, TakeoverRefused
<1>17. CASE expireStart
  BY <1>17, RelayConstants DEF expireStart, TypeOK, LockInv, Goto, Return, Found, NoHello, Running,
     Current, TakeoverRefused
<1>18. CASE expireForget
  BY <1>18, RelayConstants DEF expireForget, TypeOK, LockInv, Goto, Return, Found, NoHello, Running,
     Current, TakeoverRefused
<1>19. CASE expireKeep
  BY <1>19, RelayConstants DEF expireKeep, TypeOK, LockInv, Goto, Return, Found, NoHello, Running,
     Current, TakeoverRefused
<1>20. CASE expireClose
  BY <1>20, RelayConstants DEF expireClose, TypeOK, LockInv, Goto, Return, Found, NoHello, Running,
     Current, TakeoverRefused
<1>21. CASE expireDone
  BY <1>21, RelayConstants DEF expireDone, TypeOK, LockInv, Goto, Return, Found, NoHello, Running,
     Current, TakeoverRefused
<1>22. CASE cancel
  BY <1>22, RelayConstants DEF cancel, TypeOK, LockInv, Goto, Return, Found, NoHello, Running,
     Current, TakeoverRefused
<1>23. CASE Close
  BY <1>23, RelayConstants DEF Close, TypeOK, LockInv, Goto, Return, Found, NoHello, Running,
     Current, TakeoverRefused
<1>24. CASE Tick
  BY <1>24, RelayConstants DEF Tick, TypeOK, LockInv, Goto, Return, Found, NoHello, Running,
     Current, TakeoverRefused
<1>25. ASSUME NEW c \in Conn, playRefused(c) PROVE LockInv'
  BY <1>25, RelayConstants DEF playRefused, TypeOK, LockInv, Goto, Return, Found, NoHello, Running,
     Current, TakeoverRefused
<1> QED BY <1>1, <1>2, <1>3, <1>4, <1>5, <1>6, <1>7, <1>8, <1>9, <1>10, <1>11, <1>12, <1>13, <1>14,
           <1>15, <1>16, <1>17, <1>18, <1>19, <1>20, <1>21, <1>22, <1>23, <1>24, <1>25 DEF Next,
           ControlNext, PlayNext, ExpireNext

\* The handlers that hold an account are finitely many.
LEMMA HoldersFinite == ASSUME NEW s PROVE IsFiniteSet(Holders(s))
<1>1. Holders(s) \subseteq Conn
  BY DEF Holders
<1> QED BY <1>1, FiniteConstants, FS_Subset

\* expire acts only on an account that nothing controls.
LEMMA VerdictStep == ASSUME IInv, Next PROVE VerdictInv' /\ ControlledAccountKept'
<1> USE DEF IInv, capabilityVars, relayVars, controlVars, accountVars, handlerVars, expireVars
<1>1. ASSUME NEW c \in Conn, NEW a \in Addr, NEW t \in 1 .. issued, resumeSession(c, a, t)
      PROVE  VerdictInv' /\ ControlledAccountKept'
  BY <1>1, RelayConstants DEF resumeSession, TypeOK, LockInv, VerdictInv, ControlledAccountKept,
     ControlPlace, Goto, Return, Found, NoHello, Running, Current, TakeoverRefused
<1>2. ASSUME NEW c \in Conn, NEW a \in Addr, NEW s \in Session, newWebSession(c, a, s)
      PROVE  VerdictInv' /\ ControlledAccountKept'
  BY <1>2, RelayConstants DEF newWebSession, TypeOK, LockInv, VerdictInv, ControlledAccountKept,
     ControlPlace, Goto, Return, Found, NoHello, Running, Current, TakeoverRefused
<1>3. ASSUME NEW c \in Conn, NEW a \in Addr, NEW t \in 0 .. issued, controlSessionRefused(c, a, t)
      PROVE  VerdictInv' /\ ControlledAccountKept'
  BY <1>3, RelayConstants DEF controlSessionRefused, TypeOK, LockInv, VerdictInv,
     ControlledAccountKept, ControlPlace, Goto, Return, Found, NoHello, Running, Current,
     TakeoverRefused
<1>4. ASSUME NEW c \in Conn, attach(c) PROVE VerdictInv' /\ ControlledAccountKept'
  BY <1>4, RelayConstants DEF attach, TypeOK, LockInv, VerdictInv, ControlledAccountKept,
     ControlPlace, Goto, Return, Found, NoHello, Running, Current, TakeoverRefused
<1>5. ASSUME NEW c \in Conn, attachRefused(c) PROVE VerdictInv' /\ ControlledAccountKept'
  BY <1>5, RelayConstants DEF attachRefused, TypeOK, LockInv, VerdictInv, ControlledAccountKept,
     ControlPlace, Goto, Return, Found, NoHello, Running, Current, TakeoverRefused
<1>6. ASSUME NEW c \in Conn, openControlRefused(c) PROVE VerdictInv' /\ ControlledAccountKept'
  BY <1>6, RelayConstants DEF openControlRefused, TypeOK, LockInv, VerdictInv,
     ControlledAccountKept, ControlPlace, Goto, Return, Found, NoHello, Running, Current,
     TakeoverRefused
<1>7. ASSUME NEW c \in Conn, openControl(c) PROVE VerdictInv' /\ ControlledAccountKept'
  BY <1>7, RelayConstants DEF openControl, TypeOK, LockInv, VerdictInv, ControlledAccountKept,
     ControlPlace, Goto, Return, Found, NoHello, Running, Current, TakeoverRefused
<1>8. ASSUME NEW c \in Conn, refusal(c) PROVE VerdictInv' /\ ControlledAccountKept'
  BY <1>8, RelayConstants DEF refusal, TypeOK, LockInv, VerdictInv, ControlledAccountKept,
     ControlPlace, Goto, Return, Found, NoHello, Running, Current, TakeoverRefused
<1>9. ASSUME NEW c \in Conn, welcome(c) PROVE VerdictInv' /\ ControlledAccountKept'
  BY <1>9, RelayConstants DEF welcome, TypeOK, LockInv, VerdictInv, ControlledAccountKept,
     ControlPlace, Goto, Return, Found, NoHello, Running, Current, TakeoverRefused
<1>10. ASSUME NEW c \in Conn, pingRotate(c) PROVE VerdictInv' /\ ControlledAccountKept'
  BY <1>10, RelayConstants DEF pingRotate, TypeOK, LockInv, VerdictInv, ControlledAccountKept,
     ControlPlace, Goto, Return, Found, NoHello, Running, Current, TakeoverRefused
<1>11. ASSUME NEW c \in Conn, retire(c) PROVE VerdictInv' /\ ControlledAccountKept'
  BY <1>11, RelayConstants DEF retire, TypeOK, LockInv, VerdictInv, ControlledAccountKept,
     ControlPlace, Goto, Return, Found, NoHello, Running, Current, TakeoverRefused
<1>12. ASSUME NEW c \in Conn, detach(c) PROVE VerdictInv' /\ ControlledAccountKept'
  BY <1>12, RelayConstants DEF detach, TypeOK, LockInv, VerdictInv, ControlledAccountKept,
     ControlPlace, Goto, Return, Found, NoHello, Running, Current, TakeoverRefused
<1>13. ASSUME NEW c \in Conn, NEW t \in 1 .. issued, acknowledge(c, t)
       PROVE  VerdictInv' /\ ControlledAccountKept'
  BY <1>13, RelayConstants DEF acknowledge, TypeOK, LockInv, VerdictInv, ControlledAccountKept,
     ControlPlace, Goto, Return, Found, NoHello, Running, Current, TakeoverRefused
<1>14. ASSUME NEW c \in Conn, NEW t \in 0 .. issued, NEW d \in Conn, playSession(c, t, d)
       PROVE  VerdictInv' /\ ControlledAccountKept'
  BY <1>14, RelayConstants DEF playSession, TypeOK, LockInv, VerdictInv, ControlledAccountKept,
     ControlPlace, Goto, Return, Found, NoHello, Running, Current, TakeoverRefused
<1>15. ASSUME NEW c \in Conn, playAttach(c) PROVE VerdictInv' /\ ControlledAccountKept'
  BY <1>15, RelayConstants DEF playAttach, TypeOK, LockInv, VerdictInv, ControlledAccountKept,
     ControlPlace, Goto, Return, Found, NoHello, Running, Current, TakeoverRefused
<1>16. ASSUME NEW s \in Session, expireCheck(s) PROVE VerdictInv' /\ ControlledAccountKept'
  <2>1. ASSUME expVerdict', NEW c \in Conn, hello[c].session = s PROVE pc[c] \notin ControlPlace
    <3>1. attached[s] = 0
      BY <1>16, <2>1 DEF expireCheck, expired
    <3>2. Holders(s) = {}
      BY <3>1, HoldersFinite, FS_EmptySet DEF AttachedCounted
    <3> QED BY <2>1, <3>2 DEF Holders, ControlPlace, AttachedPlace
  <2>2. VerdictInv'
    BY <1>16, <2>1 DEF expireCheck, VerdictInv
  <2> QED BY <1>16, <2>2 DEF expireCheck, ControlledAccountKept
<1>17. CASE expireStart
  BY <1>17, RelayConstants DEF expireStart, TypeOK, LockInv, VerdictInv, ControlledAccountKept,
     ControlPlace, Goto, Return, Found, NoHello, Running, Current, TakeoverRefused
<1>18. CASE expireForget
  BY <1>18, RelayConstants DEF expireForget, TypeOK, LockInv, VerdictInv, ControlledAccountKept,
     ControlPlace, Goto, Return, Found, NoHello, Running, Current, TakeoverRefused
<1>19. CASE expireKeep
  BY <1>19, RelayConstants DEF expireKeep, TypeOK, LockInv, VerdictInv, ControlledAccountKept,
     ControlPlace, Goto, Return, Found, NoHello, Running, Current, TakeoverRefused
<1>20. CASE expireClose
  BY <1>20, RelayConstants DEF expireClose, TypeOK, LockInv, VerdictInv, ControlledAccountKept,
     ControlPlace, Goto, Return, Found, NoHello, Running, Current, TakeoverRefused
<1>21. CASE expireDone
  BY <1>21, RelayConstants DEF expireDone, TypeOK, LockInv, VerdictInv, ControlledAccountKept,
     ControlPlace, Goto, Return, Found, NoHello, Running, Current, TakeoverRefused
<1>22. CASE cancel
  BY <1>22, RelayConstants DEF cancel, TypeOK, LockInv, VerdictInv, ControlledAccountKept,
     ControlPlace, Goto, Return, Found, NoHello, Running, Current, TakeoverRefused
<1>23. CASE Close
  BY <1>23, RelayConstants DEF Close, TypeOK, LockInv, VerdictInv, ControlledAccountKept,
     ControlPlace, Goto, Return, Found, NoHello, Running, Current, TakeoverRefused
<1>24. CASE Tick
  BY <1>24, RelayConstants DEF Tick, TypeOK, LockInv, VerdictInv, ControlledAccountKept,
     ControlPlace, Goto, Return, Found, NoHello, Running, Current, TakeoverRefused
<1>25. ASSUME NEW c \in Conn, playRefused(c) PROVE VerdictInv' /\ ControlledAccountKept'
  BY <1>25, RelayConstants DEF playRefused, TypeOK, LockInv, VerdictInv, ControlledAccountKept,
     ControlPlace, Goto, Return, Found, NoHello, Running, Current, TakeoverRefused
<1> QED BY <1>1, <1>2, <1>3, <1>4, <1>5, <1>6, <1>7, <1>8, <1>9, <1>10, <1>11, <1>12, <1>13, <1>14,
           <1>15, <1>16, <1>17, <1>18, <1>19, <1>20, <1>21, <1>22, <1>23, <1>24, <1>25 DEF Next,
           ControlNext, PlayNext, ExpireNext

\* An element more or less in a finite set.
LEMMA OneMore ==
  ASSUME NEW S, NEW T, NEW x, IsFiniteSet(S), x \notin S, T = S \cup {x}
  PROVE  Cardinality(T) = Cardinality(S) + 1
BY FS_AddElement

LEMMA OneLess ==
  ASSUME NEW S, NEW T, NEW x, IsFiniteSet(S), x \in S, T = S \ {x}
  PROVE  Cardinality(T) = Cardinality(S) - 1
BY FS_RemoveElement

\* A step that moves no handler in or out of an account keeps the counts.
LEMMA AttachedKept ==
    ASSUME AttachedCounted, attached' = attached,
           \A c \in Conn : pc[c] \in AttachedPlace \/ pc'[c] \in AttachedPlace =>
               /\ pc[c] \in AttachedPlace /\ pc'[c] \in AttachedPlace
               /\ hello'[c].session = hello[c].session
    PROVE  AttachedCounted'
<1>1. \A s \in Session : Holders(s)' = Holders(s)
  BY DEF Holders
<1> QED BY <1>1 DEF AttachedCounted

\* attach counts the handler that joins ...
LEMMA AttachedJoins ==
    ASSUME TypeOK, AttachedCounted, NEW c \in Conn, NEW s \in Session, hello[c].session = s,
           pc[c] \notin AttachedPlace, pc'[c] \in AttachedPlace, hello' = hello,
           \A d \in Conn \ {c} : pc'[d] = pc[d], attached' = [attached EXCEPT ![s] = @ + 1]
    PROVE  AttachedCounted'
<1>1. Holders(s)' = Holders(s) \cup {c} /\ c \notin Holders(s)
  BY DEF Holders
<1>2. \A u \in Session \ {s} : Holders(u)' = Holders(u)
  BY DEF Holders
<1>3. Cardinality(Holders(s)') = Cardinality(Holders(s)) + 1
  <2>1. IsFiniteSet(Holders(s))
    BY HoldersFinite
  <2> QED BY ONLY <1>1, <2>1, OneMore
<1> QED BY <1>2, <1>3 DEF AttachedCounted, TypeOK

\* ... and detach takes off the one that leaves.
LEMMA AttachedLeaves ==
    ASSUME TypeOK, AttachedCounted, NEW c \in Conn, NEW s \in Session, hello[c].session = s,
           pc[c] \in AttachedPlace, pc'[c] \notin AttachedPlace,
           \A d \in Conn \ {c} : pc'[d] = pc[d] /\ hello'[d] = hello[d],
           attached' = [attached EXCEPT ![s] = @ - 1]
    PROVE  AttachedCounted'
<1>1. Holders(s)' = Holders(s) \ {c} /\ c \in Holders(s)
  BY DEF Holders
<1>2. \A u \in Session \ {s} : Holders(u)' = Holders(u)
  BY DEF Holders
<1>3. Cardinality(Holders(s)') = Cardinality(Holders(s)) - 1
  <2>1. IsFiniteSet(Holders(s))
    BY HoldersFinite
  <2> QED BY ONLY <1>1, <2>1, OneLess
<1> QED BY <1>2, <1>3 DEF AttachedCounted, TypeOK

\* Every action keeps session.attached the number of handlers that hold the account.
LEMMA AttachedStep == ASSUME IInv, Next PROVE AttachedCounted'
<1> USE DEF IInv, capabilityVars, relayVars, controlVars, accountVars, handlerVars, expireVars
<1>1. ASSUME NEW c \in Conn, NEW a \in Addr, NEW t \in 1 .. issued, resumeSession(c, a, t)
      PROVE  AttachedCounted'
  BY <1>1, AttachedKept DEF resumeSession, TypeOK, AttachedPlace, Goto, Return, Found, NoHello,
     Running
<1>2. ASSUME NEW c \in Conn, NEW a \in Addr, NEW s \in Session, newWebSession(c, a, s)
      PROVE  AttachedCounted'
  BY <1>2, AttachedKept DEF newWebSession, TypeOK, AttachedPlace, Goto, Return, Found, NoHello,
     Running
<1>3. ASSUME NEW c \in Conn, NEW a \in Addr, NEW t \in 0 .. issued, controlSessionRefused(c, a, t)
      PROVE  AttachedCounted'
  BY <1>3, AttachedKept DEF controlSessionRefused, TypeOK, AttachedPlace, Goto, Return, Found,
     NoHello, Running
<1>4. ASSUME NEW c \in Conn, attach(c) PROVE AttachedCounted'
  BY <1>4, AttachedJoins DEF attach, TypeOK, Goto, AttachedPlace
<1>5. ASSUME NEW c \in Conn, attachRefused(c) PROVE AttachedCounted'
  BY <1>5, AttachedKept DEF attachRefused, TypeOK, AttachedPlace, Goto, Return, Found, NoHello,
     Running
<1>6. ASSUME NEW c \in Conn, openControlRefused(c) PROVE AttachedCounted'
  BY <1>6, AttachedLeaves DEF openControlRefused, detachAt, TypeOK, Goto, AttachedPlace
<1>7. ASSUME NEW c \in Conn, openControl(c) PROVE AttachedCounted'
  BY <1>7, AttachedKept DEF openControl, TypeOK, AttachedPlace, Goto, Return, Found, NoHello,
     Running
<1>8. ASSUME NEW c \in Conn, refusal(c) PROVE AttachedCounted'
  BY <1>8, AttachedKept DEF refusal, TypeOK, AttachedPlace, Goto, Return, Found, NoHello, Running
<1>9. ASSUME NEW c \in Conn, welcome(c) PROVE AttachedCounted'
  BY <1>9, AttachedKept DEF welcome, TypeOK, AttachedPlace, Goto, Return, Found, NoHello, Running
<1>10. ASSUME NEW c \in Conn, pingRotate(c) PROVE AttachedCounted'
  BY <1>10, AttachedKept DEF pingRotate, TypeOK, AttachedPlace, Goto, Return, Found, NoHello,
     Running
<1>11. ASSUME NEW c \in Conn, retire(c) PROVE AttachedCounted'
  BY <1>11, AttachedKept DEF retire, TypeOK, AttachedPlace, Goto, Return, Found, NoHello, Running
<1>12. ASSUME NEW c \in Conn, detach(c) PROVE AttachedCounted'
  BY <1>12, AttachedLeaves DEF detach, Return, detachAt, TypeOK, Goto, AttachedPlace
<1>13. ASSUME NEW c \in Conn, NEW t \in 1 .. issued, acknowledge(c, t) PROVE AttachedCounted'
  BY <1>13, AttachedKept DEF acknowledge, TypeOK, AttachedPlace, Goto, Return, Found, NoHello,
     Running
<1>14. ASSUME NEW c \in Conn, NEW t \in 0 .. issued, NEW d \in Conn, playSession(c, t, d)
       PROVE  AttachedCounted'
  BY <1>14, AttachedKept DEF playSession, TypeOK, AttachedPlace, Goto, Return, Found, NoHello,
     Running
<1>15. ASSUME NEW c \in Conn, playAttach(c) PROVE AttachedCounted'
  <2>1. CASE closed[hello[c].session]
    BY <1>15, <2>1, AttachedKept DEF playAttach, Return, TypeOK, AttachedPlace, Goto, NoHello
  <2>2. CASE ~closed[hello[c].session]
    BY <1>15, <2>2, AttachedJoins DEF playAttach, TypeOK, AttachedPlace, Goto
  <2> QED BY <2>1, <2>2
<1>16. ASSUME NEW s \in Session, expireCheck(s) PROVE AttachedCounted'
  BY <1>16, AttachedKept DEF expireCheck, TypeOK, AttachedPlace, Goto, Return, Found, NoHello,
     Running
<1>17. CASE expireStart
  BY <1>17, AttachedKept DEF expireStart, TypeOK, AttachedPlace, Goto, Return, Found, NoHello,
     Running
<1>18. CASE expireForget
  BY <1>18, AttachedKept DEF expireForget, TypeOK, AttachedPlace, Goto, Return, Found, NoHello,
     Running
<1>19. CASE expireKeep
  BY <1>19, AttachedKept DEF expireKeep, TypeOK, AttachedPlace, Goto, Return, Found, NoHello,
     Running
<1>20. CASE expireClose
  BY <1>20, AttachedKept DEF expireClose, TypeOK, AttachedPlace, Goto, Return, Found, NoHello,
     Running
<1>21. CASE expireDone
  BY <1>21, AttachedKept DEF expireDone, TypeOK, AttachedPlace, Goto, Return, Found, NoHello,
     Running
<1>22. CASE cancel
  BY <1>22, AttachedKept DEF cancel, TypeOK, AttachedPlace, Goto, Return, Found, NoHello, Running
<1>23. CASE Close
  BY <1>23, AttachedKept DEF Close, TypeOK, AttachedPlace, Goto, Return, Found, NoHello, Running
<1>24. CASE Tick
  BY <1>24, AttachedKept DEF Tick, TypeOK, AttachedPlace, Goto, Return, Found, NoHello, Running
<1>25. ASSUME NEW c \in Conn, playRefused(c) PROVE AttachedCounted'
  BY <1>25, AttachedKept DEF playRefused, TypeOK, AttachedPlace, Goto, Return, Found, NoHello,
     Running
<1> QED BY <1>1, <1>2, <1>3, <1>4, <1>5, <1>6, <1>7, <1>8, <1>9, <1>10, <1>11, <1>12, <1>13, <1>14,
           <1>15, <1>16, <1>17, <1>18, <1>19, <1>20, <1>21, <1>22, <1>23, <1>24, <1>25 DEF Next,
           ControlNext, PlayNext, ExpireNext

\* A step that starts no controller and changes none that runs keeps their generations.
LEMMA GenerationKept ==
    ASSUME GenerationInv, controller' = controller, generation' = generation, live' = live,
           \A c \in Conn : Running(c)' =>
               Running(c) /\ gen'[c] = gen[c] /\ hello'[c].session = hello[c].session
    PROVE  GenerationInv'
BY DEF GenerationInv

\* Every action keeps generations unique and the live controller the current one.
LEMMA GenerationStep == ASSUME IInv, Next PROVE GenerationInv'
<1> USE DEF IInv, capabilityVars, relayVars, controlVars, accountVars, handlerVars, expireVars
<1>1. ASSUME NEW c \in Conn, NEW a \in Addr, NEW t \in 1 .. issued, resumeSession(c, a, t)
      PROVE  GenerationInv'
  BY <1>1, GenerationKept DEF resumeSession, TypeOK, Goto, Return, Found, NoHello, Running
<1>2. ASSUME NEW c \in Conn, NEW a \in Addr, NEW s \in Session, newWebSession(c, a, s)
      PROVE  GenerationInv'
  BY <1>2, GenerationKept DEF newWebSession, TypeOK, Goto, Return, Found, NoHello, Running
<1>3. ASSUME NEW c \in Conn, NEW a \in Addr, NEW t \in 0 .. issued, controlSessionRefused(c, a, t)
      PROVE  GenerationInv'
  BY <1>3, GenerationKept DEF controlSessionRefused, TypeOK, Goto, Return, Found, NoHello, Running
<1>4. ASSUME NEW c \in Conn, attach(c) PROVE GenerationInv'
  BY <1>4, GenerationKept DEF attach, TypeOK, Goto, Return, Found, NoHello, Running
<1>5. ASSUME NEW c \in Conn, attachRefused(c) PROVE GenerationInv'
  BY <1>5, GenerationKept DEF attachRefused, TypeOK, Goto, Return, Found, NoHello, Running
<1>6. ASSUME NEW c \in Conn, openControlRefused(c) PROVE GenerationInv'
  BY <1>6, GenerationKept DEF openControlRefused, TypeOK, Goto, Return, Found, NoHello, Running
<1>7. ASSUME NEW c \in Conn, openControl(c) PROVE GenerationInv'
  <2> DEFINE s == hello[c].session
  <2>1. /\ s \in Session /\ generation[s] \in Nat /\ ~Running(c) /\ hello' = hello
        /\ \A d \in Conn : Running(d) => hello[d].session \in Session /\ gen[d] \in Nat
    BY <1>7 DEF openControl, TypeOK, Running
  <2>2. /\ generation'[s] = generation[s] + 1 /\ controller'[s] = generation[s] + 1
        /\ \A u \in Session \ {s} : generation'[u] = generation[u] /\ controller'[u] = controller[u]
    BY <1>7, <2>1 DEF openControl, TypeOK
  <2>3. /\ gen'[c] = generation[s] + 1 /\ Running(c)'
        /\ \A d \in Conn \ {c} : gen'[d] = gen[d] /\ Running(d)' = Running(d)
    BY <1>7, <2>1 DEF openControl, TypeOK, Running, Goto
  <2>4. ASSUME NEW d \in Conn \ {c}, Running(d)', live'[d]
        PROVE  hello[d].session # s /\ live[d] = TRUE
    <3>1. live[d] /\ ~Superseded(d, s) /\ Running(d)
      BY <1>7, <2>3, <2>4 DEF openControl
    <3> QED BY <3>1 DEF Superseded, GenerationInv, TypeOK
  <2>5. ASSUME NEW d \in Conn, Running(d)'
        PROVE  gen'[d] # NoController /\ gen'[d] <= generation'[hello'[d].session]
    <3>1. CASE d = c
      BY <2>1, <2>2, <2>3, <3>1 DEF NoController
    <3>2. CASE d # c
      BY <2>1, <2>2, <2>3, <2>5, <3>2 DEF GenerationInv, TypeOK
    <3> QED BY <3>1, <3>2
  <2>6. ASSUME NEW d \in Conn, NEW e \in Conn, Running(d)', Running(e)', d # e,
               hello'[d].session = hello'[e].session
        PROVE  gen'[d] # gen'[e]
    <3>1. \A f \in Conn \ {c} : Running(f) /\ hello[f].session = s => gen[f] # generation[s] + 1
      BY <2>1 DEF GenerationInv
    <3> QED BY <2>1, <2>3, <2>6, <3>1 DEF GenerationInv
  <2>7. ASSUME NEW d \in Conn, Running(d)', live'[d]
        PROVE  controller'[hello'[d].session] = gen'[d] /\ generation'[hello'[d].session] = gen'[d]
    <3>1. CASE d = c
      BY <2>1, <2>2, <2>3, <3>1
    <3>2. CASE d # c
      BY <2>1, <2>2, <2>3, <2>4, <2>7, <3>2 DEF GenerationInv
    <3> QED BY <3>1, <3>2
  <2> QED BY <2>5, <2>6, <2>7 DEF GenerationInv
<1>8. ASSUME NEW c \in Conn, refusal(c) PROVE GenerationInv'
  BY <1>8, GenerationKept DEF refusal, TypeOK, Goto, Return, Found, NoHello, Running
<1>9. ASSUME NEW c \in Conn, welcome(c) PROVE GenerationInv'
  BY <1>9, GenerationKept DEF welcome, TypeOK, Goto, Return, Found, NoHello, Running
<1>10. ASSUME NEW c \in Conn, pingRotate(c) PROVE GenerationInv'
  BY <1>10, GenerationKept DEF pingRotate, TypeOK, Goto, Return, Found, NoHello, Running
<1>11. ASSUME NEW c \in Conn, retire(c) PROVE GenerationInv'
  BY <1>11 DEF retire, TypeOK, GenerationInv, Goto, Return, Found, NoHello, Running
<1>12. ASSUME NEW c \in Conn, detach(c) PROVE GenerationInv'
  BY <1>12, GenerationKept DEF detach, TypeOK, Goto, Return, Found, NoHello, Running
<1>13. ASSUME NEW c \in Conn, NEW t \in 1 .. issued, acknowledge(c, t) PROVE GenerationInv'
  BY <1>13, GenerationKept DEF acknowledge, TypeOK, Goto, Return, Found, NoHello, Running
<1>14. ASSUME NEW c \in Conn, NEW t \in 0 .. issued, NEW d \in Conn, playSession(c, t, d)
       PROVE  GenerationInv'
  BY <1>14, GenerationKept DEF playSession, TypeOK, Goto, Return, Found, NoHello, Running
<1>15. ASSUME NEW c \in Conn, playAttach(c) PROVE GenerationInv'
  BY <1>15, GenerationKept DEF playAttach, TypeOK, Goto, Return, Found, NoHello, Running
<1>16. ASSUME NEW s \in Session, expireCheck(s) PROVE GenerationInv'
  BY <1>16, GenerationKept DEF expireCheck, TypeOK, Goto, Return, Found, NoHello, Running
<1>17. CASE expireStart
  BY <1>17, GenerationKept DEF expireStart, TypeOK, Goto, Return, Found, NoHello, Running
<1>18. CASE expireForget
  BY <1>18, GenerationKept DEF expireForget, TypeOK, Goto, Return, Found, NoHello, Running
<1>19. CASE expireKeep
  BY <1>19, GenerationKept DEF expireKeep, TypeOK, Goto, Return, Found, NoHello, Running
<1>20. CASE expireClose
  BY <1>20, GenerationKept DEF expireClose, TypeOK, Goto, Return, Found, NoHello, Running
<1>21. CASE expireDone
  BY <1>21, GenerationKept DEF expireDone, TypeOK, Goto, Return, Found, NoHello, Running
<1>22. CASE cancel
  BY <1>22, GenerationKept DEF cancel, TypeOK, Goto, Return, Found, NoHello, Running
<1>23. CASE Close
  BY <1>23, GenerationKept DEF Close, TypeOK, Goto, Return, Found, NoHello, Running
<1>24. CASE Tick
  BY <1>24, GenerationKept DEF Tick, TypeOK, Goto, Return, Found, NoHello, Running
<1>25. ASSUME NEW c \in Conn, playRefused(c) PROVE GenerationInv'
  BY <1>25, GenerationKept DEF playRefused, TypeOK, Goto, Return, Found, NoHello, Running
<1> QED BY <1>1, <1>2, <1>3, <1>4, <1>5, <1>6, <1>7, <1>8, <1>9, <1>10, <1>11, <1>12, <1>13, <1>14,
           <1>15, <1>16, <1>17, <1>18, <1>19, <1>20, <1>21, <1>22, <1>23, <1>24, <1>25 DEF Next,
           ControlNext, PlayNext, ExpireNext

\* The invariant holds initially ...
LEMMA InvInit == ASSUME Init PROVE IInv
<1>1. TypeOK
  BY TypeInit
<1>2. /\ DOMAIN tokens = {} /\ sessions = {} /\ made = {} /\ expPC = "idle" /\ expTodo = {} /\ issued = 0
      /\ \A s \in Session : token[s] = 0 /\ previousToken[s] = 0 /\ closed[s] = FALSE /\ attached[s] = 0
      /\ \A c \in Conn : pc[c] = "idle"
  BY DEF Init, NoBearer
<1>3. BearersExact /\ BearersIssued
  BY <1>2 DEF BearersExact, BearersIssued, NoBearer
<1>4. LockInv /\ VerdictInv /\ ControlledAccountKept /\ GenerationInv
  BY <1>2 DEF LockInv, VerdictInv, ControlledAccountKept, GenerationInv, Running
<1>5. \A s \in Session : Holders(s) = {}
  BY <1>2 DEF Holders, AttachedPlace
<1>6. AttachedCounted
  BY <1>2, <1>5, FS_EmptySet DEF AttachedCounted
<1> QED BY <1>1, <1>3, <1>4, <1>6 DEF IInv

\* ... and every step of the relay keeps it.
LEMMA InvStep == ASSUME IInv, [Next]_vars PROVE IInv'
<1>1. CASE Next
  <2>1. TypeOK'
    BY <1>1, TypeStep DEF IInv
  <2> QED BY <1>1, <2>1, BearersStep, LockStep, VerdictStep, AttachedStep, GenerationStep DEF IInv
<1>2. CASE UNCHANGED vars
  <2> USE <1>2 DEF vars, capabilityVars, relayVars, controlVars, accountVars, handlerVars, expireVars
  <2>1. TypeOK'
    BY DEF IInv, TypeOK
  <2>2. BearersExact' /\ BearersIssued'
    BY DEF IInv, BearersExact, BearersIssued
  <2>3. LockInv' /\ VerdictInv' /\ ControlledAccountKept'
    BY DEF IInv, LockInv, VerdictInv, ControlledAccountKept
  <2>4. GenerationInv'
    BY DEF IInv, GenerationInv, Running
  <2>5. AttachedCounted'
    BY AttachedKept DEF IInv
  <2> QED BY <2>1, <2>2, <2>3, <2>4, <2>5 DEF IInv
<1> QED BY <1>1, <1>2

\* The inductive invariant holds in every reachable state of the relay.
THEOREM Invariant == Spec => []IInv
<1>1. Init => IInv
  BY InvInit
<1>2. IInv /\ [Next]_vars => IInv'
  BY InvStep
<1> QED BY <1>1, <1>2, PTL DEF Spec

\* For any number of accounts, addresses and handlers: relay.tokens holds exactly the current
\* and the previous bearer of each registered account, whatever order rotations, takeovers,
\* keepalives and expiry come in.
THEOREM BearersAreExact == Spec => []BearersExact
<1>1. IInv => BearersExact
  BY DEF IInv
<1> QED BY <1>1, Invariant, PTL

\* For any number of handlers: a takeover leaves exactly one live controller on an account,
\* and it carries the newest generation.
THEOREM ControllerIsSole == Spec => []SoleController
<1>1. IInv => SoleController
  BY DEF IInv, GenerationInv, SoleController, Running
<1> QED BY <1>1, Invariant, PTL

\* expire never forgets or closes an account a controller still holds, whatever openControl was
\* waiting for when expire looked.
THEOREM ControlKeepsAccount == Spec => []ControlledAccountKept
<1>1. IInv => ControlledAccountKept
  BY DEF IInv
<1> QED BY <1>1, Invariant, PTL

\* session.attached counts the handlers that hold the account.
THEOREM AttachedIsCounted == Spec => []AttachedCounted
<1>1. IInv => AttachedCounted
  BY DEF IInv
<1> QED BY <1>1, Invariant, PTL

----------------------------------------------------------------------------
\* The accounts of an address.
AccountsOf(a) == {s \in sessions : client[s] = a}

\* What AddressesCounted rests on: every account has an address, and so has every handler that may
\* still move one to it.
AddressInv ==
    /\ AddressesCounted
    /\ \A s \in sessions : client[s] \in Addr
    /\ \A c \in Conn : pc[c] \in {"found", "attached"} => hello[c].client \in Addr

\* Accounts are finitely many.
LEMMA AccountsFinite == ASSUME TypeOK PROVE IsFiniteSet(sessions) /\ \A a : IsFiniteSet(AccountsOf(a))
<1>1. sessions \subseteq Session
  BY DEF TypeOK
<1>2. \A a : AccountsOf(a) \subseteq Session
  BY <1>1 DEF AccountsOf
<1> QED BY <1>1, <1>2, FiniteConstants, FS_Subset

\* A step that neither registers, forgets nor moves an account keeps the counts.
LEMMA AddressesKept ==
  ASSUME AddressInv, UNCHANGED <<sessions, client, perIP>>, open' => open,
         \A c \in Conn : pc'[c] \in {"found", "attached"} =>
            \/ hello'[c].client \in Addr
            \/ pc[c] \in {"found", "attached"} /\ hello'[c] = hello[c]
  PROVE  AddressInv'
BY DEF AddressInv, AddressesCounted

\* A new account is counted at its address.
LEMMA AddressJoins ==
  ASSUME TypeOK, AddressInv, NEW c \in Conn, NEW a \in Addr, NEW s \in Session, newWebSession(c, a, s)
  PROVE  AddressInv'
<1> USE RelayConstants
<1>1. /\ open /\ perIP[a] < maxPerIP /\ Cardinality(sessions) < maxSessions /\ s \notin sessions
      /\ sessions' = sessions \cup {s} /\ perIP' = [perIP EXCEPT ![a] = @ + 1]
      /\ client' = [client EXCEPT ![s] = a]
  BY DEF newWebSession, TypeOK
<1>2. Cardinality(sessions') = Cardinality(sessions) + 1 /\ Cardinality(sessions) \in Nat
  <2>1. IsFiniteSet(sessions)
    BY AccountsFinite
  <2> QED BY ONLY <1>1, <2>1, OneMore, FS_CardinalityType
<1>3. AccountsOf(a)' = AccountsOf(a) \cup {s} /\ s \notin AccountsOf(a)
  BY <1>1 DEF AccountsOf, TypeOK
<1>4. Cardinality(AccountsOf(a)') = Cardinality(AccountsOf(a)) + 1
  <2>1. IsFiniteSet(AccountsOf(a))
    BY AccountsFinite
  <2> QED BY ONLY <1>3, <2>1, OneMore
<1>5. \A b \in Addr \ {a} : AccountsOf(b)' = AccountsOf(b)
  BY <1>1 DEF AccountsOf, TypeOK
<1>6. \A b \in Addr : perIP[b] = Cardinality(AccountsOf(b)) /\ perIP[b] <= maxPerIP /\ perIP[b] \in Int
  BY <1>1 DEF AddressInv, AddressesCounted, AccountsOf, TypeOK
<1>7. \A b \in Addr : perIP'[b] = Cardinality(AccountsOf(b)') /\ perIP'[b] <= maxPerIP
  <2>1. perIP'[a] = perIP[a] + 1 /\ \A b \in Addr \ {a} : perIP'[b] = perIP[b]
    BY <1>1 DEF TypeOK
  <2>2. perIP'[a] = Cardinality(AccountsOf(a)') /\ perIP'[a] <= maxPerIP
    BY <1>1, <1>4, <1>6, <2>1
  <2> QED BY <1>5, <1>6, <2>1, <2>2
<1>8. Cardinality(sessions') <= maxSessions
  BY <1>1, <1>2
<1>9. AddressesCounted'
  BY <1>7, <1>8 DEF AddressesCounted, AccountsOf
<1>10. \A d \in Conn : pc'[d] \in {"found", "attached"} => hello'[d].client \in Addr
  BY DEF newWebSession, Found, Goto, AddressInv, TypeOK
<1>11. \A u \in sessions' : client'[u] \in Addr
  BY <1>1 DEF AddressInv, TypeOK
<1> QED BY <1>9, <1>10, <1>11 DEF AddressInv

\* A takeover from another address moves the account between the counts.
LEMMA AddressMoves ==
  ASSUME TypeOK, AddressInv, NEW c \in Conn, openControl(c)
  PROVE  AddressInv'
<1> USE RelayConstants
<1>1. PICK s \in Session, a \in Addr, b \in Addr :
      /\ open /\ s \in sessions /\ sessions' = sessions
      /\ client[s] = b /\ (b # a => perIP[a] < maxPerIP)
      /\ client' = [client EXCEPT ![s] = a] /\ moveAddress(s, a) /\ UNCHANGED <<hello, open>>
  <2>1. open /\ hello[c].session \in sessions /\ hello[c].session \in Session
    BY DEF openControl, TakeoverRefused, TypeOK
  <2>2. hello[c].client \in Addr /\ client[hello[c].session] \in Addr
    BY <2>1 DEF openControl, AddressInv
  <2>3. client[hello[c].session] # hello[c].client => perIP[hello[c].client] < maxPerIP
    BY <2>2 DEF openControl, TakeoverRefused, TypeOK
  <2>4. /\ sessions' = sessions /\ UNCHANGED <<hello, open>>
        /\ client' = [client EXCEPT ![hello[c].session] = hello[c].client]
        /\ moveAddress(hello[c].session, hello[c].client)
    BY DEF openControl
  <2> QED BY <2>1, <2>2, <2>3, <2>4
<1>2. \A d \in Conn : pc'[d] \in {"found", "attached"} => hello'[d].client \in Addr
  BY <1>1 DEF openControl, Goto, AddressInv, TypeOK
<1>3. client[s] = b
  BY <1>1
<1>4. \A u \in sessions' : client'[u] \in Addr
  BY <1>1 DEF AddressInv, TypeOK
<1>5. CASE b = a
  <2>1. client' = client
    BY <1>1, <1>3, <1>5 DEF TypeOK
  <2>2. perIP' = perIP
    BY <1>1, <1>3, <1>5 DEF moveAddress
  <2> QED BY <1>1, <1>2, <1>4, <2>1, <2>2 DEF AddressInv, AddressesCounted
<1>6. CASE b # a
  <2>1. perIP'[a] = perIP[a] + 1 /\ perIP'[b] = perIP[b] - 1 /\ \A x \in Addr \ {a, b} : perIP'[x] = perIP[x]
    BY <1>1, <1>3, <1>6 DEF moveAddress, TypeOK
  <2>2. \A x \in Addr : perIP[x] = Cardinality(AccountsOf(x)) /\ perIP[x] <= maxPerIP /\ perIP[x] \in Int
    BY <1>1 DEF AddressInv, AddressesCounted, AccountsOf, TypeOK
  <2>3. /\ AccountsOf(a)' = AccountsOf(a) \cup {s} /\ s \notin AccountsOf(a)
        /\ AccountsOf(b)' = AccountsOf(b) \ {s} /\ s \in AccountsOf(b)
        /\ \A x \in Addr \ {a, b} : AccountsOf(x)' = AccountsOf(x)
    <3>1. client'[s] = a /\ \A u \in sessions \ {s} : client'[u] = client[u]
      BY <1>1 DEF TypeOK
    <3>2. AccountsOf(a)' = AccountsOf(a) \cup {s} /\ s \notin AccountsOf(a)
      BY <1>1, <1>3, <1>6, <3>1 DEF AccountsOf
    <3>3. AccountsOf(b)' = AccountsOf(b) \ {s} /\ s \in AccountsOf(b)
      BY <1>1, <1>3, <1>6, <3>1 DEF AccountsOf
    <3>4. ASSUME NEW x \in Addr \ {a, b} PROVE AccountsOf(x)' = AccountsOf(x)
      BY <1>1, <1>3, <3>1 DEF AccountsOf
    <3> QED BY <3>2, <3>3, <3>4
  <2>4. Cardinality(AccountsOf(a)') = Cardinality(AccountsOf(a)) + 1
    <3>1. IsFiniteSet(AccountsOf(a))
      BY AccountsFinite
    <3> QED BY ONLY <2>3, <3>1, OneMore
  <2>5. Cardinality(AccountsOf(b)') = Cardinality(AccountsOf(b)) - 1
    <3>1. IsFiniteSet(AccountsOf(b))
      BY AccountsFinite
    <3> QED BY ONLY <2>3, <3>1, OneLess
  <2>6. perIP'[a] = Cardinality(AccountsOf(a)') /\ perIP'[a] <= maxPerIP
    BY <1>1, <1>6, <2>1, <2>2, <2>4
  <2>7. perIP'[b] = Cardinality(AccountsOf(b)') /\ perIP'[b] <= maxPerIP
    BY <1>1, <2>1, <2>2, <2>5
  <2>8. ASSUME NEW x \in Addr PROVE perIP'[x] = Cardinality(AccountsOf(x)') /\ perIP'[x] <= maxPerIP
    <3>1. CASE x \notin {a, b}
      <4>1. AccountsOf(x)' = AccountsOf(x) /\ perIP'[x] = perIP[x]
        BY <2>1, <2>3, <3>1
      <4> QED BY <2>2, <4>1
    <3> QED BY <2>6, <2>7, <3>1
  <2>9. AddressesCounted'
    BY <1>1, <2>8 DEF AddressInv, AddressesCounted, AccountsOf
  <2> QED BY <1>2, <1>4, <2>9 DEF AddressInv
<1> QED BY <1>5, <1>6

\* An account that is forgotten is taken off its address.
LEMMA AddressLeaves == ASSUME TypeOK, AddressInv, expireForget PROVE AddressInv'
<1> USE RelayConstants
<1>1. PICK s \in Session, b \in Addr :
      /\ s \in sessions /\ client[s] = b /\ sessions' = sessions \ {s}
      /\ perIP' = [perIP EXCEPT ![b] = @ - 1]
      /\ UNCHANGED <<client, pc, hello, open>>
  BY DEF expireForget, AddressInv, TypeOK, controlVars, handlerVars
<1>2. client[s] = b
  BY <1>1
<1>3. CASE ~open
  BY <1>1, <1>3 DEF AddressInv, AddressesCounted
<1>4. CASE open
  <2>1. perIP'[b] = perIP[b] - 1 /\ \A x \in Addr \ {b} : perIP'[x] = perIP[x]
    BY <1>1 DEF TypeOK
  <2>2. \A x \in Addr : perIP[x] = Cardinality(AccountsOf(x)) /\ perIP[x] <= maxPerIP /\ perIP[x] \in Int
    BY <1>4 DEF AddressInv, AddressesCounted, AccountsOf, TypeOK
  <2>3. /\ AccountsOf(b)' = AccountsOf(b) \ {s} /\ s \in AccountsOf(b)
        /\ \A x \in Addr \ {b} : AccountsOf(x)' = AccountsOf(x)
    <3>1. AccountsOf(b)' = AccountsOf(b) \ {s} /\ s \in AccountsOf(b)
      BY <1>1, <1>2 DEF AccountsOf
    <3>2. ASSUME NEW x \in Addr \ {b} PROVE AccountsOf(x)' = AccountsOf(x)
      BY <1>1, <1>2 DEF AccountsOf
    <3> QED BY <3>1, <3>2
  <2>4. Cardinality(AccountsOf(b)') = Cardinality(AccountsOf(b)) - 1
    <3>1. IsFiniteSet(AccountsOf(b))
      BY AccountsFinite
    <3> QED BY ONLY <2>3, <3>1, OneLess
  <2>5. perIP'[b] = Cardinality(AccountsOf(b)') /\ perIP'[b] <= maxPerIP
    BY <1>1, <2>1, <2>2, <2>4
  <2>6. ASSUME NEW x \in Addr PROVE perIP'[x] = Cardinality(AccountsOf(x)') /\ perIP'[x] <= maxPerIP
    <3>1. CASE x # b
      <4>1. AccountsOf(x)' = AccountsOf(x) /\ perIP'[x] = perIP[x]
        BY <2>1, <2>3, <3>1
      <4> QED BY <2>2, <4>1
    <3> QED BY <2>5, <3>1
  <2>7. Cardinality(sessions') <= maxSessions
    <3>1. Cardinality(sessions') = Cardinality(sessions) - 1 /\ Cardinality(sessions) \in Nat
      <4>1. IsFiniteSet(sessions)
        BY AccountsFinite
      <4> QED BY ONLY <1>1, <4>1, OneLess, FS_CardinalityType
    <3> QED BY <1>4, <3>1 DEF AddressInv, AddressesCounted
  <2>8. AddressesCounted'
    BY <2>6, <2>7 DEF AddressesCounted, AccountsOf
  <2> QED BY <1>1, <2>8 DEF AddressInv
<1> QED BY <1>3, <1>4

\* Every step of the relay keeps the counts of the addresses.
LEMMA AddressStep == ASSUME TypeOK, AddressInv, [Next]_vars PROVE AddressInv'
<1> USE DEF capabilityVars, relayVars, controlVars, accountVars, handlerVars, expireVars
<1>1. ASSUME NEW c \in Conn, NEW a \in Addr, NEW s \in Session, newWebSession(c, a, s) PROVE AddressInv'
  BY <1>1, AddressJoins
<1>2. ASSUME NEW c \in Conn, openControl(c) PROVE AddressInv'
  BY <1>2, AddressMoves
<1>3. CASE expireForget
  BY <1>3, AddressLeaves
<1>4. CASE Close
  BY <1>4 DEF Close, AddressInv, AddressesCounted
<1>5. ASSUME NEW c \in Conn, NEW a \in Addr, NEW t \in 0 .. issued,
             resumeSession(c, a, t) \/ controlSessionRefused(c, a, t)
      PROVE  AddressInv'
  BY <1>5, AddressesKept DEF resumeSession, controlSessionRefused, Found, Goto, TypeOK
<1>6. ASSUME NEW c \in Conn, attach(c) \/ attachRefused(c) \/ openControlRefused(c) \/ refusal(c) PROVE AddressInv'
  BY <1>6, AddressesKept DEF attach, attachRefused, openControlRefused, refusal, Return, Goto, TypeOK
<1>7. ASSUME NEW c \in Conn, welcome(c) \/ pingRotate(c) \/ retire(c) \/ detach(c) PROVE AddressInv'
  BY <1>7, AddressesKept DEF welcome, pingRotate, retire, detach, Return, Goto, TypeOK
<1>8. ASSUME NEW c \in Conn, NEW t \in 0 .. issued, acknowledge(c, t) PROVE AddressInv'
  BY <1>8, AddressesKept DEF acknowledge
<1>9. ASSUME NEW c \in Conn, NEW t \in 0 .. issued, NEW d \in Conn, playSession(c, t, d) PROVE AddressInv'
  BY <1>9, AddressesKept DEF playSession, Goto, TypeOK
<1>10. ASSUME NEW c \in Conn, playRefused(c) \/ playAttach(c) PROVE AddressInv'
  BY <1>10, AddressesKept DEF playRefused, playAttach, Return, Goto, TypeOK
<1>11. ASSUME NEW s \in Session, expireCheck(s) PROVE AddressInv'
  BY <1>11, AddressesKept DEF expireCheck
<1>12. CASE expireStart \/ expireKeep \/ expireClose \/ expireDone \/ cancel \/ Tick
  BY <1>12, AddressesKept DEF expireStart, expireKeep, expireClose, expireDone, cancel, Tick
<1>13. CASE UNCHANGED vars
  BY <1>13, AddressesKept DEF vars
<1> QED BY <1>1, <1>2, <1>3, <1>4, <1>5, <1>6, <1>7, <1>8, <1>9, <1>10, <1>11, <1>12, <1>13
           DEF Next, ControlNext, PlayNext, ExpireNext

\* As long as the relay is open, relay.perIP counts the accounts of every address, also across a
\* resume that moves one, and neither an address nor the relay holds more than its share.
THEOREM AddressesAreCounted == Spec => []AddressesCounted
<1>1. Init => AddressInv
  <2> SUFFICES ASSUME Init PROVE AddressInv
    OBVIOUS
  <2>1. sessions = {} /\ \A a \in Addr : AccountsOf(a) = {} /\ perIP[a] = 0
    BY DEF Init, AccountsOf
  <2>2. Cardinality({}) = 0
    BY FS_EmptySet
  <2>3. AddressesCounted
    BY <2>1, <2>2, RelayConstants DEF AddressesCounted, AccountsOf
  <2> QED BY <2>1, <2>3 DEF Init, AddressInv
<1>2. TypeOK /\ AddressInv /\ [Next]_vars => AddressInv'
  BY AddressStep
<1>3. AddressInv => AddressesCounted
  BY DEF AddressInv
<1> QED BY <1>1, <1>2, <1>3, TypeCorrect, PTL DEF Spec

----------------------------------------------------------------------------
(* RelayLink: the relay and a browser joined by connections. *)

\* The bearers on their way to the browser on the connection it is using, other than its newest,
\* and all the bearers it has or is about to get.
Coming == {down[i].bearer : i \in DOMAIN down} \ {NoBearer, bearers[1].token}
Mine == Held \cup Coming

Envelope == [kind : {"hello", "pong", "welcome", "ping", "resume", "admission"}, bearer : Nat, gen : Nat]
Grants(m) == m.kind \in {"welcome", "ping"}

\* The browser's two bearers are ordered and were received; those on their way come in the order
\* they were issued, all with the generation of one controller.
LinkTypes ==
    /\ now = 0
    /\ up \in [Conn -> Seq(Envelope)] /\ down \in Seq(Envelope)
    /\ dialed \subseteq Conn /\ wire \in dialed \cup {NoConn}
    /\ received \subseteq 1 .. issued /\ Held \subseteq received
    /\ bearers \in Client!Bearer \X Client!Bearer
    /\ \A i \in {1, 2} : bearers[i].token # NoBearer => bearers[i].expires = 1
    /\ bearers[2].token # NoBearer => bearers[2].token < bearers[1].token

DownInv ==
    /\ \A i \in DOMAIN down :
        /\ Grants(down[i]) => down[i].bearer \in 1 .. issued /\ bearers[1].token <= down[i].bearer
        /\ ~Grants(down[i]) => down[i].bearer = NoBearer
    /\ \A i, j \in DOMAIN down : Grants(down[i]) /\ Grants(down[j]) =>
        /\ i <= j => down[i].bearer <= down[j].bearer
        /\ down[i].gen = down[j].gen
    /\ Client!Ready => \A i \in DOMAIN down : Grants(down[i]) => down[i].gen = active

\* What the relay has read or will read, the browser had received before it sent it.
UpInv ==
    /\ \A c \in Conn : \A i \in DOMAIN up[c] :
        /\ up[c][i].kind = "hello" =>
              Len(up[c]) = 1 /\ pc[c] = "idle" /\ up[c][i].bearer \in received \cup {NoBearer}
        /\ up[c][i].kind # "hello" => up[c][i].bearer \in received
    /\ \A c \in Conn \ dialed : pc[c] = "idle" /\ up[c] = <<>>
    /\ \A c \in Conn : pc[c] \in {"found", "attached"} => hello[c].token \in received \cup {NoBearer}

\* A Hello without a bearer has an account of its own, and a rotation makes a newer bearer.
AccountInv ==
    /\ \A c \in Conn : pc[c] \in {"found", "attached"} /\ hello[c].token = NoBearer =>
        /\ token[hello[c].session] = NoBearer
        /\ \A d \in Conn \ {c} : pc[d] \notin {"idle", "refused"} => hello[d].session # hello[c].session
    /\ \A c \in Conn : Running(c) => token[hello[c].session] # NoBearer
    /\ \A s \in Session : \/ previousToken[s] < token[s]
                          \/ token[s] = NoBearer /\ previousToken[s] = NoBearer

\* The relay's side of the connection the browser is using: until it is welcomed it presents the
\* browser's newest bearer, and then its controller's bearer is the newest one on its way.
Waiting(c) == up[c] # <<>> /\ up[c][1].kind = "hello"
WireFor(c) ==
    /\ Waiting(c) => up[c][1].bearer = bearers[1].token
    /\ pc[c] \in {"found", "attached"} => hello[c].token = bearers[1].token
    /\ Waiting(c) \/ pc[c] \in {"found", "attached", "greeting"} => down = <<>> /\ ~Client!Ready
    /\ pc[c] = "greeting" /\ Current(c) =>
          /\ previousToken[hello[c].session] = bearers[1].token
          /\ \A t \in received : t < token[hello[c].session]
    /\ pc[c] = "control" => \A i \in DOMAIN down : Grants(down[i]) => down[i].gen = gen[c]
    /\ pc[c] = "control" /\ Client!Ready => active = gen[c]
    /\ pc[c] = "control" /\ Current(c) =>
          token[hello[c].session] \in Mine /\ \A t \in Mine : t <= token[hello[c].session]
    /\ pc[c] \in {"found", "attached", "greeting", "control"} =>
          \A t \in Mine \cap DOMAIN tokens : tokens[t].session = hello[c].session
WireInv == \A c \in Conn : c = wire => WireFor(c)

\* The oldest of the bearers C.
Oldest(t, C) == t \in C /\ \A u \in C : t <= u

\* What the relay knows (tk) of a browser's account, when the browser has received R, holds H, of
\* which b is the newest, and C is on its way: whatever the relay still knows of what the browser
\* has received, the browser still holds; and if more is on its way, that is b.
Kept(H, C, b, R, tk) ==
    /\ \A t, u \in (H \cup C) \cap DOMAIN tk : tk[t].session = tk[u].session
    /\ \A t \in R \cap DOMAIN tk, u \in (H \cup C) \cap DOMAIN tk :
         tk[t].session = tk[u].session => t \in H /\ (C # {} => t = b)
    /\ H # {} => \E t \in H : t \in DOMAIN tk
    /\ H # {} /\ C # {} => b \in DOMAIN tk
    /\ H = {} => \A t \in C : Oldest(t, C) => t \in DOMAIN tk
    /\ \A t, u \in C : t # u => H = {} /\ (Oldest(t, C) \/ Oldest(u, C))

KeptInv == Kept(Held, Coming, bearers[1].token, received, tokens)

LinkInv == /\ LinkTypes /\ DownInv /\ UpInv /\ AccountInv /\ WireInv /\ KeptInv
           /\ ConfirmedWasReceived

\* A rotation that retains a bearer the browser has received, or drops none, keeps Kept.
LEMMA KeptRotates ==
  ASSUME NEW H, NEW C, NEW b, NEW R, NEW tk, NEW tl, NEW n,
         Kept(H, C, b, R, tk), H # {} => b \in H,
         n \notin H \cup C \cup R, DOMAIN tl \subseteq DOMAIN tk \cup {n},
         \A t \in DOMAIN tl \ {n} : tl[t] = tk[t],
         \A t \in DOMAIN tk \ DOMAIN tl :
            \E x \in R \cap DOMAIN tl : x \in DOMAIN tk /\ tk[x].session = tk[t].session
  PROVE  Kept(H, C, b, R, tl)
<1>1. \A t \in (H \cup C \cup R) \cap DOMAIN tl : t \in DOMAIN tk /\ tl[t] = tk[t]
  OBVIOUS
<1>2. \A t, u \in (H \cup C) \cap DOMAIN tl : tl[t].session = tl[u].session
  BY <1>1 DEF Kept
<1>3. \A t \in R \cap DOMAIN tl, u \in (H \cup C) \cap DOMAIN tl :
         tl[t].session = tl[u].session => t \in H /\ (C # {} => t = b)
  BY <1>1 DEF Kept
<1>4. ASSUME NEW t \in (H \cup C) \cap DOMAIN tk, t \notin DOMAIN tl
      PROVE  \E x \in H \cap DOMAIN tl : C # {} => x = b
  <2>1. PICK x \in R \cap DOMAIN tl : x \in DOMAIN tk /\ tk[x].session = tk[t].session
    BY <1>4
  <2>2. x \in H /\ (C # {} => x = b)
    BY <2>1 DEF Kept
  <2> QED BY <2>1, <2>2
<1>5. H # {} => \E t \in H : t \in DOMAIN tl
  BY <1>4 DEF Kept
<1>6. H # {} /\ C # {} => b \in DOMAIN tl
  BY <1>4 DEF Kept
<1>7. H = {} => \A t \in C : Oldest(t, C) => t \in DOMAIN tl
  BY <1>4 DEF Kept
<1> QED BY <1>2, <1>3, <1>5, <1>6, <1>7 DEF Kept

\* A new bearer is sent after everything before it was received, or is a new account's second.
LEMMA KeptGrows ==
  ASSUME NEW H \in SUBSET Nat, NEW C \in SUBSET Nat, NEW b, NEW R, NEW tk, NEW n \in Nat,
         Kept(H, C, b, R, tk), n \in DOMAIN tk \ R, \A t \in H \cup C : t < n,
         \A t \in (H \cup C) \cap DOMAIN tk : tk[t].session = tk[n].session,
         \A t \in R \cap DOMAIN tk : tk[t].session = tk[n].session => t \in H /\ t = b,
         H # {} => C = {} /\ b \in DOMAIN tk,
         H = {} => C \subseteq DOMAIN tk /\ \A t, u \in C : t = u
  PROVE  Kept(H, C \cup {n}, b, R, tk)
<1>1. \A t, u \in (H \cup C \cup {n}) \cap DOMAIN tk : tk[t].session = tk[u].session
  OBVIOUS
<1>2. \A t \in R \cap DOMAIN tk, u \in (H \cup C \cup {n}) \cap DOMAIN tk :
         tk[t].session = tk[u].session => t \in H /\ t = b
  OBVIOUS
<1>3. H = {} => \A t \in C \cup {n} : t \in DOMAIN tk
  OBVIOUS
<1>4. \A t \in C : H = {} => Oldest(t, C \cup {n})
  BY DEF Oldest
<1>5. \A t, u \in C \cup {n} : t # u => H = {} /\ (Oldest(t, C \cup {n}) \/ Oldest(u, C \cup {n}))
  BY <1>4
<1> QED BY <1>1, <1>2, <1>3, <1>5 DEF Kept

\* The browser receives the oldest bearer on its way and forgets all but its newest for it.
LEMMA KeptReceives ==
  ASSUME NEW H, NEW C \in SUBSET Nat, NEW b, NEW R, NEW tk, NEW n, NEW G,
         Kept(H, C, b, R, tk), Oldest(n, C),
         H # {} => b \in H /\ G = {n, b}, H = {} => G = {n}
  PROVE  Kept(G, C \ {n}, n, R \cup {n}, tk)
<1>1. G \cup (C \ {n}) \subseteq H \cup C /\ n \in C
  BY DEF Oldest
<1>2. H # {} => C \ {n} = {} /\ b \in DOMAIN tk
  BY DEF Kept, Oldest
<1>3. H = {} => n \in DOMAIN tk /\ \A t, u \in C \ {n} : t = u
  BY DEF Kept, Oldest
<1>4. \A t \in (R \cup {n}) \cap DOMAIN tk, u \in (G \cup (C \ {n})) \cap DOMAIN tk :
         tk[t].session = tk[u].session => t \in G /\ (C \ {n} # {} => t = n)
  BY <1>1, <1>2 DEF Kept
<1>5. \A t, u \in (G \cup (C \ {n})) \cap DOMAIN tk : tk[t].session = tk[u].session
  BY <1>1 DEF Kept
<1>6. n \in G /\ \E t \in G : t \in DOMAIN tk
  BY <1>2, <1>3
<1>7. C \ {n} # {} => n \in DOMAIN tk
  BY <1>2, <1>3
<1>8. \A t, u \in C \ {n} : t = u
  BY <1>2, <1>3
<1> QED BY <1>4, <1>5, <1>6, <1>7, <1>8 DEF Kept

\* A message is written at the end of a queue.
LEMMA Appended ==
  ASSUME NEW q \in Seq(Envelope), NEW m \in Envelope
  PROVE  /\ Append(q, m) \in Seq(Envelope) /\ Len(Append(q, m)) = Len(q) + 1
         /\ DOMAIN Append(q, m) = DOMAIN q \cup {Len(q) + 1} /\ Len(q) + 1 \notin DOMAIN q
         /\ \A i \in DOMAIN q : Append(q, m)[i] = q[i] /\ i < Len(q) + 1
         /\ Append(q, m)[Len(q) + 1] = m
  OBVIOUS

\* A message is read at its front.
LEMMA Taken ==
  ASSUME NEW q \in Seq(Envelope), q # <<>>
  PROVE  /\ Tail(q) \in Seq(Envelope) /\ Len(Tail(q)) = Len(q) - 1
         /\ 1 \in DOMAIN q /\ Head(q) = q[1] /\ Head(q) \in Envelope
         /\ \A i \in DOMAIN Tail(q) : i + 1 \in DOMAIN q /\ Tail(q)[i] = q[i + 1]
         /\ \A i \in DOMAIN q \ {1} : i - 1 \in DOMAIN Tail(q) /\ Tail(q)[i - 1] = q[i]
  OBVIOUS

\* The newest of the browser's bearers is one of them, if it has any.
LEMMA Newest ==
  ASSUME LinkTypes
  PROVE  /\ bearers[1].token \in Nat /\ bearers[2].token \in Nat
         /\ Held # {} <=> bearers[1].token # NoBearer
         /\ Held # {} => bearers[1].token \in Held
         /\ \A t \in Held : t \in Nat /\ t <= bearers[1].token /\ t # NoBearer
<1>1. bearers[1].token \in Nat /\ bearers[2].token \in Nat
  BY DEF LinkTypes, Client!Bearer
<1>2. bearers[2].token # NoBearer => bearers[2].token < bearers[1].token
  BY DEF LinkTypes
<1> HIDE DEF LinkTypes
<1> QED BY <1>1, <1>2 DEF Held, NoBearer

\* What is on its way was issued and is newer than what the browser has.
LEMMA ComingNewer ==
  ASSUME LinkTypes, DownInv, IInv
  PROVE  /\ \A t \in Coming : t \in 1 .. issued /\ bearers[1].token < t
         /\ \A t \in Coming : \E i \in DOMAIN down : Grants(down[i]) /\ down[i].bearer = t
         /\ \A t \in Coming, u \in Held : u < t
<1>1. issued \in Nat
  BY DEF IInv, TypeOK
<1>2. ASSUME NEW t \in Coming PROVE t \in 1 .. issued /\ bearers[1].token < t
      /\ \E i \in DOMAIN down : Grants(down[i]) /\ down[i].bearer = t
  <2>1. PICK i \in DOMAIN down : down[i].bearer = t /\ t # NoBearer /\ t # bearers[1].token
    BY DEF Coming
  <2> QED BY <1>1, <2>1, Newest DEF DownInv
<1> QED BY <1>1, <1>2, Newest

\* The browser's Hello on a new connection.
LEMMA LinkDials ==
  ASSUME IInv, LinkInv, NEW c \in Conn, dialFirst(c) \/ dialFallback(c)
  PROVE  LinkInv'
<1> DEFINE m == Message("hello", bearers[1].token, 0)
<1> USE LinkConstants
<1>0. LinkTypes
  BY DEF LinkInv
<1>1. now = 0 /\ (bearers[1].token # NoBearer => bearers[1].expires = 1)
      /\ (bearers[1].token = NoBearer => bearers[2].token = NoBearer)
  BY <1>0, Newest DEF LinkTypes, NoBearer
<1>2. Client!resume(now) = bearers[1].token
  <2>1. CASE bearers[1].token = NoBearer
    BY <1>1, <2>1 DEF Client!resume, Client!NoToken, NoBearer
  <2>2. CASE bearers[1].token # NoBearer
    BY <1>1, <2>2 DEF Client!resume, Client!NoToken, NoBearer
  <2> QED BY <2>1, <2>2
<1>3. ~(Client!resume(now) = Client!NoToken /\ Client!Known # {})
  BY <1>1, <1>2 DEF Client!Known, Client!NoToken, NoBearer
<1>4. \A w \in {"quic", "socket"} : Client!handshake(w) =>
        state' = "connecting" /\ presented' = bearers[1].token /\ bearers' = bearers /\ active' = active
  BY <1>2, <1>3 DEF Client!handshake
<1>5. /\ state' = "connecting" /\ presented' = bearers[1].token /\ bearers' = bearers /\ active' = active
      /\ now' = now /\ Dial(c)
  BY <1>4 DEF dialFirst, dialFallback, Client!select, Client!fallback
<1>6. /\ c \notin dialed /\ dialed' = dialed \cup {c} /\ wire' = c /\ down' = <<>>
      /\ up' = [up EXCEPT ![c] = Append(@, m)] /\ received' = received
      /\ UNCHANGED <<open, sessions, made, issued, tokens, token, previousToken, tokenPending,
                     controller, pc, hello, gen, live>>
  BY <1>5 DEF Dial, Send, serverVars, relayVars, capabilityVars, controlVars, handlerVars
<1>7. m \in Envelope /\ m.kind = "hello" /\ m.bearer = bearers[1].token
  BY <1>0, Newest DEF Message, Envelope
<1>8. up[c] = <<>> /\ pc[c] = "idle" /\ up \in [Conn -> Seq(Envelope)]
  BY <1>6 DEF LinkInv, UpInv, LinkTypes
<1>9. up' \in [Conn -> Seq(Envelope)] /\ up'[c] = <<m>> /\ \A d \in Conn \ {c} : up'[d] = up[d]
  BY <1>6, <1>7, <1>8
<1>10. Held' = Held /\ Coming' = {} /\ ~Client!Ready'
  BY <1>5, <1>6 DEF Held, Coming, Client!Ready
<1>11. LinkTypes'
  BY <1>5, <1>6, <1>9, <1>10 DEF LinkInv, LinkTypes
<1>12. DownInv'
  BY <1>6, <1>10 DEF DownInv
<1>13. UpInv'
  <2>1. bearers[1].token \in received \cup {NoBearer}
    BY <1>0, Newest DEF LinkTypes
  <2> QED BY <1>6, <1>7, <1>8, <1>9, <2>1 DEF LinkInv, UpInv
<1>14. AccountInv'
  BY <1>6 DEF LinkInv, AccountInv, Running
<1>15. WireInv'
  BY <1>5, <1>6, <1>7, <1>8, <1>9, <1>10 DEF WireInv, WireFor, Waiting
<1>16. KeptInv'
  BY <1>5, <1>6, <1>10 DEF LinkInv, KeptInv, Kept
<1>17. ConfirmedWasReceived'
  BY <1>6 DEF LinkInv, ConfirmedWasReceived
<1> QED BY <1>11, <1>12, <1>13, <1>14, <1>15, <1>16, <1>17 DEF LinkInv

\* The browser gives its connection up, and perhaps its bearers.
LEMMA LinkHangsUp ==
  ASSUME IInv, LinkInv, HangUp, now' = now, bearers' \in {bearers, Client!NoBearers}
  PROVE  LinkInv'
<1> USE LinkConstants
<1>1. /\ wire' = NoConn /\ down' = <<>>
      /\ UNCHANGED <<up, dialed, received, open, sessions, made, issued, tokens, token, previousToken,
                     tokenPending, controller, pc, hello, gen, live>>
  BY DEF HangUp, serverVars, relayVars, capabilityVars, controlVars, handlerVars
<1>2. Coming' = {} /\ (Held' = Held \/ Held' = {})
  BY <1>1 DEF Held, Coming, Client!NoBearers, Client!NoToken, NoBearer
<1>3. bearers' \in Client!Bearer \X Client!Bearer
      /\ (\A i \in {1, 2} : bearers'[i].token # NoBearer => bearers'[i].expires = 1)
      /\ (bearers'[2].token # NoBearer => bearers'[2].token < bearers'[1].token)
  BY DEF LinkInv, LinkTypes, Client!NoBearers, Client!NoToken, NoBearer, Client!Bearer
<1>4. LinkTypes'
  <2>1. Held' \subseteq received'
    BY <1>1, <1>2 DEF LinkInv, LinkTypes
  <2>2. up' \in [Conn -> Seq(Envelope)] /\ down' \in Seq(Envelope) /\ received' \subseteq 1 .. issued'
    BY <1>1 DEF LinkInv, LinkTypes
  <2>3. now' = 0 /\ dialed' \subseteq Conn /\ wire' \in dialed' \cup {NoConn}
    BY <1>1 DEF LinkInv, LinkTypes
  <2> QED BY <1>3, <2>1, <2>2, <2>3 DEF LinkTypes
<1>5. DownInv'
  BY <1>1 DEF DownInv
<1>6. UpInv'
  BY <1>1 DEF LinkInv, UpInv
<1>7. AccountInv'
  BY <1>1 DEF LinkInv, AccountInv, Running
<1>8. WireInv'
  BY <1>1 DEF WireInv
<1>9. KeptInv'
  <2>1. CASE Held' = {}
    BY <1>1, <1>2, <2>1 DEF KeptInv, Kept
  <2>2. CASE Held' = Held
    BY <1>1, <1>2, <2>2 DEF LinkInv, KeptInv, Kept
  <2> QED BY <1>2, <2>1, <2>2
<1>10. ConfirmedWasReceived'
  BY <1>1 DEF LinkInv, ConfirmedWasReceived
<1> QED BY <1>4, <1>5, <1>6, <1>7, <1>8, <1>9, <1>10 DEF LinkInv

\* The browser takes the next bearer: it is its newest already, or becomes it.
LEMMA Applied ==
  ASSUME LinkTypes, NEW t \in Nat, t # NoBearer, bearers[1].token <= t, Client!apply_capability(t, 1)
  PROVE  /\ bearers' \in Client!Bearer \X Client!Bearer
         /\ \A i \in {1, 2} : bearers'[i].token # NoBearer => bearers'[i].expires = 1
         /\ bearers'[2].token # NoBearer => bearers'[2].token < bearers'[1].token
         /\ bearers'[1].token = t
         /\ t = bearers[1].token => bearers' = bearers /\ Held' = Held
         /\ t # bearers[1].token =>
              Held' = {t} \cup (IF Held = {} THEN {} ELSE {bearers[1].token})
<1>1. /\ bearers \in Client!Bearer \X Client!Bearer /\ now = 0
      /\ \A i \in {1, 2} : bearers[i].token # NoBearer => bearers[i].expires = 1
      /\ bearers[2].token # NoBearer => bearers[2].token < bearers[1].token
  BY DEF LinkTypes
<1>2. bearers[1].token \in Nat /\ bearers[2].token \in Nat /\ bearers[1] \in Client!Bearer
  BY <1>1 DEF Client!Bearer
<1>3. (\E b \in Client!Known : b.token = t) <=> t = bearers[1].token
  BY <1>1, <1>2 DEF Client!Known, Client!NoToken, NoBearer
<1>4. CASE t = bearers[1].token
  <2>1. bearers' = bearers
    BY <1>3, <1>4 DEF Client!apply_capability
  <2> QED BY <1>1, <1>4, <2>1 DEF Held
<1>5. CASE t # bearers[1].token
  <2>1. bearers' = << [token |-> t, expires |-> 1], bearers[1] >>
    BY <1>1, <1>3, <1>5 DEF Client!apply_capability
  <2>2. [token |-> t, expires |-> 1] \in Client!Bearer
    BY DEF Client!Bearer
  <2>3. bearers'[1].token = t /\ bearers'[1].expires = 1 /\ bearers'[2] = bearers[1]
    BY <2>1
  <2>4. Held' = {t} \cup (IF Held = {} THEN {} ELSE {bearers[1].token})
    BY <1>1, <1>2, <2>3, Newest DEF Held, NoBearer
  <2> QED BY <1>1, <1>2, <1>5, <2>1, <2>2, <2>3, <2>4
<1> QED BY <1>4, <1>5

\* A bearer reaches the browser.
LEMMA LinkReceives ==
  ASSUME IInv, LinkInv, down # <<>>, Grants(Head(down)),
         Client!apply_capability(Head(down).bearer, 1), received' = received \cup {Head(down).bearer},
         down' = Tail(down), Client!Ready', active' = Head(down).gen, now' = now,
         \/ up' = up
         \/ up' = [up EXCEPT ![wire] = Append(@, Message("pong", Head(down).bearer, 0))],
         UNCHANGED <<serverVars, wire, dialed>>
  PROVE  LinkInv'
<1> DEFINE m == Head(down)
           t == m.bearer
           b == bearers[1].token
           p == Message("pong", t, 0)
<1> USE LinkConstants
<1>1. LinkTypes /\ DownInv /\ UpInv /\ WireInv /\ KeptInv /\ issued \in Nat
  BY DEF LinkInv, IInv, TypeOK
<1>2. UNCHANGED <<open, sessions, made, issued, tokens, token, previousToken, tokenPending,
                  controller, pc, hello, gen, live, wire, dialed>>
  BY DEF serverVars, relayVars, capabilityVars, controlVars, handlerVars
<1>3. down \in Seq(Envelope) /\ up \in [Conn -> Seq(Envelope)] /\ received \subseteq 1 .. issued
  BY <1>1 DEF LinkTypes
<1>4. /\ down' \in Seq(Envelope) /\ 1 \in DOMAIN down /\ m = down[1] /\ m \in Envelope
      /\ \A i \in DOMAIN down' : i + 1 \in DOMAIN down /\ down'[i] = down[i + 1]
      /\ \A i \in DOMAIN down \ {1} : i - 1 \in DOMAIN down' /\ down'[i - 1] = down[i]
  BY <1>3, Taken
<1>5. t \in 1 .. issued /\ b <= t /\ t \in Nat /\ t # NoBearer
  BY <1>1, <1>4 DEF DownInv, NoBearer
<1>6. /\ bearers' \in Client!Bearer \X Client!Bearer
      /\ \A i \in {1, 2} : bearers'[i].token # NoBearer => bearers'[i].expires = 1
      /\ bearers'[2].token # NoBearer => bearers'[2].token < bearers'[1].token
      /\ bearers'[1].token = t /\ b \in Nat
      /\ t = b => bearers' = bearers /\ Held' = Held
      /\ t # b => Held' = {t} \cup (IF Held = {} THEN {} ELSE {b})
  BY <1>1, <1>5, Applied, Newest
<1>7. \A i \in DOMAIN down : Grants(down[i]) => t <= down[i].bearer /\ down[i].gen = m.gen
  <2> SUFFICES ASSUME NEW i \in DOMAIN down, Grants(down[i])
               PROVE  t <= down[i].bearer /\ down[i].gen = m.gen
    OBVIOUS
  <2>1. 1 <= i
    BY <1>3
  <2> QED BY <1>1, <1>4, <2>1 DEF DownInv
<1>8. Coming' = Coming \ {t}
  <2>1. ASSUME NEW x \in Coming', x \notin Coming \ {t} PROVE FALSE
    <3>1. PICK i \in DOMAIN down' : down'[i].bearer = x /\ x # NoBearer /\ x # t
      BY <1>6, <2>1 DEF Coming
    <3>2. i + 1 \in DOMAIN down /\ down[i + 1].bearer = x
      BY <1>4, <3>1
    <3>3. x = b
      BY <2>1, <3>1, <3>2 DEF Coming
    <3>4. Grants(down[i + 1])
      BY <1>1, <3>1, <3>2 DEF DownInv
    <3> QED BY <1>5, <1>6, <1>7, <3>1, <3>2, <3>3, <3>4
  <2>2. ASSUME NEW x \in Coming \ {t} PROVE x \in Coming'
    <3>1. PICK i \in DOMAIN down : down[i].bearer = x /\ x # NoBearer
      BY DEF Coming
    <3>2. i # 1
      BY <1>4, <2>2, <3>1
    <3>3. i - 1 \in DOMAIN down' /\ down'[i - 1].bearer = x
      BY <1>4, <3>1, <3>2
    <3> QED BY <1>6, <2>2, <3>1, <3>3 DEF Coming
  <2> QED BY <2>1, <2>2
<1>9. t # b => Oldest(t, Coming)
  <2> SUFFICES ASSUME t # b PROVE Oldest(t, Coming)
    OBVIOUS
  <2>1. t \in Coming
    BY <1>4, <1>5 DEF Coming
  <2>2. \A x \in Coming : t <= x
    BY <1>1, <1>7, ComingNewer
  <2> QED BY <2>1, <2>2 DEF Oldest
<1>10. t = b => t \notin Coming /\ Held # {}
  BY <1>1, <1>5, Newest DEF Coming
<1>11. KeptInv'
  <2>1. CASE t = b
    <3>1. Coming' = Coming /\ Held' = Held /\ bearers'[1].token = b /\ received' = received /\ tokens' = tokens
      BY <1>1, <1>2, <1>6, <1>8, <1>10, <2>1, Newest DEF LinkTypes
    <3> QED BY <1>1, <3>1 DEF KeptInv
  <2>2. CASE t # b
    <3>1. Kept(Held, Coming, b, received, tokens) /\ Oldest(t, Coming)
      BY <1>1, <1>9, <2>2 DEF KeptInv
    <3>2. (Held # {} => b \in Held /\ Held' = {t, b}) /\ (Held = {} => Held' = {t})
      BY <1>1, <1>6, <2>2, Newest
    <3>3. Coming \subseteq Nat
      BY <1>1, ComingNewer
    <3>4. Kept(Held', Coming \ {t}, t, received \cup {t}, tokens)
      BY <3>1, <3>2, <3>3, KeptReceives, ZenonT(60)
    <3> QED BY <1>2, <1>6, <1>8, <3>4 DEF KeptInv
  <2> QED BY <2>1, <2>2
<1>12. p \in Envelope /\ p.kind = "pong" /\ p.bearer = t
  BY <1>5 DEF Message, Envelope
<1>13. \A c \in Conn : up[c] \in Seq(Envelope) /\ (up'[c] = up[c] \/ (c = wire /\ up'[c] = Append(up[c], p)))
  BY <1>3
<1>14. up' \in [Conn -> Seq(Envelope)]
  <2>1. \A c \in Conn : Append(up[c], p) \in Seq(Envelope)
    BY <1>12, <1>13, Appended
  <2> QED BY <1>3, <1>12, <2>1
<1>15. LinkTypes'
  <2>1. Held' \subseteq received'
    BY <1>1, <1>6, Newest DEF LinkTypes
  <2>2. received' \subseteq 1 .. issued'
    BY <1>2, <1>3, <1>5
  <2> QED BY <1>1, <1>2, <1>4, <1>6, <1>14, <2>1, <2>2 DEF LinkTypes
<1>16. DownInv'
  <2>1. \A i \in DOMAIN down' :
          /\ Grants(down'[i]) => /\ down'[i].bearer \in 1 .. issued /\ t <= down'[i].bearer
                                 /\ down'[i].gen = m.gen
          /\ ~Grants(down'[i]) => down'[i].bearer = NoBearer
    BY <1>1, <1>4, <1>7 DEF DownInv
  <2>2. \A i, j \in DOMAIN down' : Grants(down'[i]) /\ Grants(down'[j]) /\ i <= j =>
            down'[i].bearer <= down'[j].bearer
    <3> SUFFICES ASSUME NEW i \in DOMAIN down', NEW j \in DOMAIN down', Grants(down'[i]), Grants(down'[j]),
                        i <= j
                 PROVE  down'[i].bearer <= down'[j].bearer
      OBVIOUS
    <3>1. i \in Int /\ j \in Int /\ i + 1 <= j + 1
      BY <1>4
    <3> QED BY <1>1, <1>4, <3>1 DEF DownInv
  <2> QED BY <1>2, <1>6, <2>1, <2>2 DEF DownInv, Grants
<1>17. UpInv'
  <2>1. ASSUME NEW c \in Conn, NEW i \in DOMAIN up'[c]
        PROVE  /\ up'[c][i].kind = "hello" =>
                    /\ Len(up'[c]) = 1 /\ pc'[c] = "idle"
                    /\ up'[c][i].bearer \in received' \cup {NoBearer}
               /\ up'[c][i].kind # "hello" => up'[c][i].bearer \in received'
    <3>1. CASE up'[c] = up[c]
      BY <1>1, <1>2, <2>1, <3>1 DEF UpInv
    <3>2. CASE c = wire /\ up'[c] = Append(up[c], p)
      <4>1. ~Waiting(c)
        BY <1>1, <3>2 DEF WireInv, WireFor
      <4>2. \A j \in DOMAIN up[c] : up[c][j].kind # "hello"
        <5> SUFFICES ASSUME NEW j \in DOMAIN up[c], up[c][j].kind = "hello" PROVE FALSE
          OBVIOUS
        <5>1. Len(up[c]) = 1 /\ up[c] \in Seq(Envelope)
          BY <1>1, <1>13 DEF UpInv
        <5>2. j = 1 /\ up[c] # <<>>
          BY <5>1
        <5> QED BY <4>1, <5>2 DEF Waiting
      <4>3. i \in DOMAIN up[c] \/ up'[c][i] = p
        BY <1>12, <1>13, <3>2, Appended
      <4>4. i \in DOMAIN up[c] => up'[c][i] = up[c][i]
        BY <1>12, <1>13, <3>2, Appended
      <4> QED BY <1>1, <1>12, <4>2, <4>3, <4>4 DEF UpInv
    <3> QED BY <1>13, <3>1, <3>2
  <2>2. \A c \in Conn \ dialed' : pc'[c] = "idle" /\ up'[c] = <<>>
    BY <1>1, <1>2, <1>13 DEF UpInv, LinkTypes
  <2>3. \A c \in Conn : pc'[c] \in {"found", "attached"} => hello'[c].token \in received' \cup {NoBearer}
    BY <1>1, <1>2 DEF UpInv
  <2> QED BY <2>1, <2>2, <2>3 DEF UpInv
<1>18. AccountInv' /\ ConfirmedWasReceived'
  BY <1>2 DEF LinkInv, AccountInv, Running, ConfirmedWasReceived
<1>19. Mine' \subseteq Mine /\ \A x \in Mine : (\A y \in Mine : y <= x) => x \in Mine'
  <2>1. CASE t = b
    BY <1>6, <1>8, <1>10, <2>1 DEF Mine
  <2>2. CASE t # b
    <3>1. t \in Coming
      BY <1>9, <2>2 DEF Oldest
    <3>2. Mine' \subseteq Mine
      BY <1>1, <1>6, <1>8, <2>2, <3>1, Newest DEF Mine
    <3>3. ASSUME NEW x \in Mine, \A y \in Mine : y <= x PROVE x \in Mine'
      <4>1. t <= x
        BY <3>1, <3>3 DEF Mine
      <4>2. x \notin Held
        BY <1>1, <1>5, <1>6, <2>2, <4>1, Newest
      <4> QED BY <1>6, <1>8, <2>2, <4>2 DEF Mine
    <3> QED BY <3>2, <3>3
  <2> QED BY <2>1, <2>2
<1>20. WireInv'
  <2> SUFFICES ASSUME NEW c \in Conn, c = wire' PROVE WireFor(c)'
    BY DEF WireInv
  <2>1. c = wire /\ WireFor(c) /\ ~Waiting(c) /\ pc[c] \notin {"found", "attached", "greeting"}
    BY <1>1, <1>2 DEF WireInv, WireFor
  <2>2. ~Waiting(c)'
    <3>1. CASE up'[c] = up[c]
      BY <2>1, <3>1 DEF Waiting
    <3>2. CASE up'[c] = Append(up[c], p)
      <4>1. CASE up[c] = <<>>
        BY <1>12, <3>2, <4>1 DEF Waiting
      <4>2. CASE up[c] # <<>>
        BY <1>12, <1>13, <2>1, <3>2, <4>2 DEF Waiting
      <4> QED BY <4>1, <4>2
    <3> QED BY <1>13, <3>1, <3>2
  <2>3. pc[c] = "control" => m.gen = gen[c] /\ \A i \in DOMAIN down' : Grants(down'[i]) => down'[i].gen = gen[c]
    BY <1>4, <2>1 DEF WireFor
  <2>4. Current(c)' <=> Current(c)
    BY <1>2 DEF Current, Running
  <2>5. pc[c] = "control" /\ Current(c) =>
          token[hello[c].session] \in Mine' /\ \A x \in Mine' : x <= token[hello[c].session]
    BY <1>19, <2>1 DEF WireFor
  <2>6. pc[c] = "control" => \A x \in Mine' \cap DOMAIN tokens : tokens[x].session = hello[c].session
    BY <1>19, <2>1 DEF WireFor
  <2> QED BY <1>2, <2>1, <2>2, <2>3, <2>4, <2>5, <2>6 DEF WireFor, Grants
<1> QED BY <1>11, <1>15, <1>16, <1>17, <1>18, <1>20 DEF LinkInv

\* A refusal on its way brings no bearer.
LEMMA RefusalComes ==
  ASSUME IInv, LinkInv, NEW m \in Envelope, ~Grants(m), m.bearer = NoBearer,
         down' \in {down, Append(down, m)}, UNCHANGED <<bearers, issued, state, active>>
  PROVE  /\ down' \in Seq(Envelope) /\ DownInv' /\ Coming' = Coming /\ Held' = Held
         /\ \A i \in DOMAIN down' : Grants(down'[i]) => i \in DOMAIN down /\ down'[i] = down[i]
<1>1. down \in Seq(Envelope) /\ DownInv
  BY DEF LinkInv, LinkTypes
<1>2. /\ down' \in Seq(Envelope)
      /\ \A i \in DOMAIN down' : (i \in DOMAIN down /\ down'[i] = down[i]) \/ down'[i] = m
  BY <1>1, Appended
<1>3. \A i \in DOMAIN down : i \in DOMAIN down' /\ down'[i] = down[i]
  BY <1>1, Appended
<1>4. Coming' = Coming
  BY <1>2, <1>3 DEF Coming
<1>5. Client!Ready' = Client!Ready
  BY DEF Client!Ready
<1>6. DownInv'
  BY <1>1, <1>2, <1>5, SMTT(30) DEF DownInv, Grants
<1> QED BY <1>2, <1>4, <1>6 DEF Held, Grants

\* A step that is not about the browser's connection, nor about its controller's bearer.
LEMMA WireKept ==
  ASSUME LinkInv, NEW d \in Conn, d = wire, UNCHANGED <<bearers, state, active, received, down>>,
         up'[d] = up[d], pc'[d] = pc[d], hello'[d] = hello[d], gen'[d] = gen[d],
         Current(d)' => /\ Current(d) /\ token'[hello[d].session] = token[hello[d].session]
                        /\ previousToken'[hello[d].session] = previousToken[hello[d].session],
         \A t \in Mine \cap DOMAIN tokens' : t \in DOMAIN tokens /\ tokens'[t] = tokens[t]
  PROVE  WireFor(d)'
<1>1. WireFor(d)
  BY DEF LinkInv, WireInv
<1>2. Mine' = Mine
  BY DEF Mine, Held, Coming
<1>3. Client!Ready' = Client!Ready
  BY DEF Client!Ready
<1>4. Waiting(d)' = Waiting(d)
  BY DEF Waiting
<1> HIDE DEF Mine, Waiting, Current, Client!Ready
<1> QED BY <1>1, <1>2, <1>3, <1>4 DEF WireFor, Grants

\* A handler that is being served has read its Hello.
LEMMA NotWaiting ==
  ASSUME LinkInv, NEW c \in Conn, pc[c] # "idle"
  PROVE  ~Waiting(c)
<1>1. up[c] \in Seq(Envelope) /\ UpInv
  BY DEF LinkInv, LinkTypes
<1> QED BY <1>1 DEF UpInv, Waiting

\* A handler moves on without a new bearer, and may refuse.
LEMMA LinkMoves ==
  ASSUME IInv, LinkInv, NEW c \in Conn, NEW place \in {"attached", "refused", "retired", "idle"},
         pc[c] # "idle", pc' = [pc EXCEPT ![c] = place],
         place = "attached" => pc[c] = "found", place = "retired" => Running(c),
         \A d \in Conn \ {c} : hello'[d] = hello[d] /\ gen'[d] = gen[d] /\ live'[d] = live[d],
         open' = open, \A s \in Session : controller'[s] \in {controller[s], NoController},
         place \in {"attached", "refused", "retired"} => hello' = hello,
         NEW m \in Envelope, ~Grants(m), m.bearer = NoBearer,
         down' = down \/ (c = wire /\ place = "refused" /\ down' = Append(down, m)),
         UNCHANGED <<now, sessions, issued, tokens, token, previousToken, tokenPending, bearers, state,
                     active, received, up, wire, dialed>>
  PROVE  LinkInv'
<1> USE LinkConstants
<1>1. LinkTypes /\ DownInv /\ UpInv /\ AccountInv /\ WireInv /\ KeptInv /\ ConfirmedWasReceived
  BY DEF LinkInv
<1>2. /\ down' \in Seq(Envelope) /\ DownInv' /\ Coming' = Coming /\ Held' = Held
      /\ \A i \in DOMAIN down' : Grants(down'[i]) => i \in DOMAIN down /\ down'[i] = down[i]
  BY RefusalComes
<1>3. pc \in [Conn -> Place] /\ pc'[c] = place /\ \A d \in Conn \ {c} : pc'[d] = pc[d]
  BY DEF IInv, TypeOK
<1>4. LinkTypes'
  BY <1>1, <1>2 DEF LinkTypes
<1>5. UpInv'
  <2>1. \A i \in DOMAIN up[c] : up[c][i].kind # "hello"
    BY <1>1 DEF UpInv
  <2>2. c \in dialed
    BY <1>1 DEF UpInv
  <2>3. \A d \in Conn : pc'[d] \in {"found", "attached"} =>
           hello'[d] = hello[d] /\ pc[d] \in {"found", "attached"}
    BY <1>3
  <2> QED BY <1>1, <1>3, <2>1, <2>2, <2>3 DEF UpInv
<1>6. AccountInv'
  <2>1. \A d \in Conn : pc'[d] \notin {"idle", "refused"} =>
           hello'[d] = hello[d] /\ pc[d] \notin {"idle", "refused"}
    BY <1>3 DEF Running
  <2>2. \A d \in Conn : /\ Running(d)' => Running(d)
                        /\ pc'[d] \in {"found", "attached"} => pc[d] \in {"found", "attached"}
    BY <1>3 DEF Running
  <2>3. \A d \in Conn : Running(d)' => hello'[d] = hello[d]
    BY <1>3 DEF Running
  <2> QED BY <1>1, <2>1, <2>2, <2>3 DEF AccountInv
<1>7. WireInv'
  <2> SUFFICES ASSUME NEW d \in Conn, d = wire PROVE WireFor(d)'
    BY DEF WireInv
  <2>1. CASE d = c
    <3>1. ~Waiting(c)'
      BY NotWaiting DEF Waiting
    <3>2. CASE place = "attached"
      <4>1. WireFor(c) /\ pc[c] = "found" /\ pc'[c] = "attached" /\ down' = down /\ hello' = hello
        BY <1>1, <1>3, <2>1, <3>2 DEF WireInv
      <4>2. Mine' = Mine /\ Client!Ready' = Client!Ready
        BY <1>2 DEF Mine, Client!Ready
      <4> QED BY <2>1, <3>1, <4>1, <4>2 DEF WireFor
    <3>3. CASE place # "attached"
      BY <1>3, <2>1, <3>1, <3>3 DEF WireFor
    <3> QED BY <3>2, <3>3
  <2>2. CASE d # c
    <3>1. Running(d) => hello[d].session \in Session /\ gen[d] # NoController
      BY DEF IInv, TypeOK, GenerationInv, Running
    <3>2. Current(d)' => Current(d)
      BY <1>3, <2>2, <3>1 DEF Current, Running
    <3> QED BY <1>3, <2>2, <3>2, WireKept
  <2> QED BY <2>1, <2>2
<1>8. KeptInv'
  BY <1>1, <1>2 DEF KeptInv
<1>9. ConfirmedWasReceived'
  BY <1>1 DEF ConfirmedWasReceived
<1> QED BY <1>2, <1>4, <1>5, <1>6, <1>7, <1>8, <1>9 DEF LinkInv

\* The relay reads the browser's Hello.
LEMMA LinkHello ==
  ASSUME IInv, LinkInv, NEW c \in Conn, serverHello(c)
  PROVE  LinkInv'
<1> DEFINE t == Head(up[c]).bearer
           m == Message(IF t = NoBearer THEN "admission" ELSE "resume", NoBearer, 0)
<1> USE LinkConstants
<1>1. LinkTypes /\ DownInv /\ UpInv /\ AccountInv /\ WireInv /\ KeptInv /\ ConfirmedWasReceived
  BY DEF LinkInv
<1>2. up[c] \in Seq(Envelope) /\ up[c] # <<>> /\ Head(up[c]).kind = "hello"
  BY <1>1 DEF serverHello, Kind, LinkTypes
<1>3. 1 \in DOMAIN up[c] /\ Head(up[c]) = up[c][1] /\ Waiting(c)
  BY <1>2, Taken DEF Waiting
<1>4. Len(up[c]) = 1 /\ pc[c] = "idle" /\ t \in received \cup {NoBearer} /\ c \in dialed
  BY <1>1, <1>2, <1>3 DEF UpInv
<1>5. up' = [up EXCEPT ![c] = <<>>] /\ up' \in [Conn -> Seq(Envelope)]
  <2>1. Tail(up[c]) = <<>>
    <3>1. Tail(up[c]) \in Seq(Envelope) /\ Len(Tail(up[c])) = 0
      BY <1>2, <1>4, Taken
    <3> QED BY <3>1, EmptySeq
  <2>2. up' = [up EXCEPT ![c] = <<>>]
    BY <1>1, <2>1 DEF serverHello, Take, LinkTypes
  <2> QED BY <1>1, <2>2 DEF LinkTypes
<1>6. UNCHANGED <<now, issued, tokens, token, previousToken, tokenPending, wire, dialed, received,
                  bearers, state, active, controller, live, open, gen>>
  BY DEF serverHello, resumeSession, newWebSession, controlSessionRefused, clientVars, relayVars,
     capabilityVars, controlVars
<1>7. \/ /\ pc' = [pc EXCEPT ![c] = "found"] /\ down' = down /\ sessions' = sessions
         /\ t # NoBearer /\ t \in DOMAIN tokens
         /\ \E a : hello' = [hello EXCEPT ![c] =
                               [client |-> a, token |-> t, session |-> tokens[t].session, now |-> now]]
      \/ /\ pc' = [pc EXCEPT ![c] = "found"] /\ down' = down
         /\ t = NoBearer
         /\ \E a : \E s \in Session \ made :
               /\ hello' = [hello EXCEPT ![c] = [client |-> a, token |-> t, session |-> s, now |-> now]]
               /\ sessions' = sessions \cup {s}
      \/ /\ pc' = [pc EXCEPT ![c] = "refused"] /\ hello' = hello /\ sessions' = sessions
         /\ Answer(c, m)
  BY SMTT(30) DEF serverHello, resumeSession, newWebSession, controlSessionRefused, resumeLocked,
     Found, Goto, relayVars
<1>8. m \in Envelope /\ ~Grants(m) /\ m.bearer = NoBearer
  BY DEF Message, Envelope, Grants, NoBearer
<1>9. down' \in {down, Append(down, m)} /\ (c # wire => down' = down)
  BY <1>7 DEF Answer
<1>10. /\ down' \in Seq(Envelope) /\ DownInv' /\ Coming' = Coming /\ Held' = Held
       /\ \A i \in DOMAIN down' : Grants(down'[i]) => i \in DOMAIN down /\ down'[i] = down[i]
  BY <1>6, <1>8, <1>9, RefusalComes
<1>11. /\ pc \in [Conn -> Place] /\ hello \in [Conn -> HelloRecord]
       /\ \A d \in Conn \ {c} : pc'[d] = pc[d] /\ hello'[d] = hello[d] /\ up'[d] = up[d]
       /\ pc'[c] \in {"found", "refused"} /\ up'[c] = <<>>
       /\ pc'[c] = "found" => hello'[c].token = t
  BY <1>1, <1>5, <1>7 DEF IInv, TypeOK, LinkTypes
<1>12. LinkTypes'
  BY <1>1, <1>5, <1>6, <1>10 DEF LinkTypes
<1>13. UpInv'
  BY <1>1, <1>4, <1>6, <1>11 DEF UpInv
<1>14. \A d \in Conn : Running(d)' => Running(d) /\ hello'[d] = hello[d]
  BY <1>11 DEF Running
<1>15. ASSUME pc'[c] = "found"
       PROVE  /\ hello'[c].session \in Session
              /\ t = NoBearer => token[hello'[c].session] = NoBearer
              /\ t # NoBearer => token[hello'[c].session] # NoBearer
              /\ t # NoBearer => t \in DOMAIN tokens /\ hello'[c].session = tokens[t].session
              /\ t = NoBearer => \A d \in Conn \ {c} : pc[d] \notin {"idle", "refused"} =>
                                     hello[d].session # hello'[c].session
  <2>1. CASE t # NoBearer
    <3>1. t \in DOMAIN tokens /\ hello'[c].session = tokens[t].session
      BY <1>7, <1>11, <1>15, <2>1 DEF HelloRecord
    <3>2. tokens[t].session \in Session /\ t \in {token[tokens[t].session], previousToken[tokens[t].session]}
      BY <3>1 DEF IInv, TypeOK, BearersExact, BearerRecord
    <3>3. token[tokens[t].session] # NoBearer
      BY <1>1, <2>1, <3>2 DEF AccountInv, NoBearer, IInv, TypeOK
    <3> QED BY <2>1, <3>1, <3>2, <3>3
  <2>2. CASE t = NoBearer
    <3>1. PICK s \in Session \ made : hello'[c].session = s
      BY <1>7, <1>11, <1>15, <2>2
    <3> QED BY <2>2, <3>1 DEF IInv, BearersIssued, LockInv
  <2> QED BY <2>1, <2>2
<1>16. AccountInv'
  <2>1. \A d \in Conn : Running(d)' => token'[hello'[d].session] # NoBearer
    BY <1>1, <1>6, <1>14 DEF AccountInv
  <2>2. ASSUME NEW d \in Conn, pc'[d] \in {"found", "attached"}, hello'[d].token = NoBearer
        PROVE  /\ token'[hello'[d].session] = NoBearer
               /\ \A e \in Conn \ {d} : pc'[e] \notin {"idle", "refused"} => hello'[e].session # hello'[d].session
    <3>1. CASE d = c
      BY <1>6, <1>11, <1>15, <2>2, <3>1
    <3>2. CASE d # c
      <4>1. token[hello[d].session] = NoBearer /\ hello'[d] = hello[d] /\ pc'[d] = pc[d]
        BY <1>1, <1>11, <2>2, <3>2 DEF AccountInv
      <4>2. pc'[c] = "found" => hello'[c].session # hello[d].session
        BY <1>15, <2>2, <3>2, <4>1
      <4>3. \A e \in Conn \ {d, c} : pc'[e] \notin {"idle", "refused"} => hello'[e].session # hello[d].session
        BY <1>1, <1>11, <2>2, <4>1 DEF AccountInv
      <4> QED BY <1>6, <1>11, <4>1, <4>2, <4>3
    <3> QED BY <3>1, <3>2
  <2> QED BY <1>1, <1>6, <2>1, <2>2 DEF AccountInv
<1>17. WireInv'
  <2> SUFFICES ASSUME NEW d \in Conn, d = wire PROVE WireFor(d)'
    BY <1>6 DEF WireInv
  <2>1. CASE d = c
    <3>1. WireFor(c) /\ t = bearers[1].token /\ down = <<>> /\ ~Client!Ready /\ ~Waiting(c)'
      BY <1>1, <1>3, <1>11, <2>1 DEF WireInv, WireFor, Waiting
    <3>2. CASE pc'[c] = "refused"
      BY <2>1, <3>1, <3>2 DEF WireFor
    <3>3. CASE pc'[c] = "found"
      <4>1. down' = down /\ Mine' = Mine /\ ~Client!Ready'
        BY <1>6, <1>7, <1>10, <1>11, <3>1, <3>3 DEF Mine, Client!Ready
      <4>2. \A x \in Mine \cap DOMAIN tokens : tokens[x].session = hello'[c].session
        <5>1. CASE t = NoBearer
          <6>1. Mine = {}
            BY <1>1, <3>1, <5>1, Newest DEF Mine, Coming
          <6> QED BY <6>1
        <5>2. CASE t # NoBearer
          <6>1. t \in Mine
            BY <1>1, <3>1, <5>2, Newest DEF Mine
          <6> QED BY <1>1, <1>15, <3>3, <5>2, <6>1 DEF KeptInv, Kept, Mine
        <5> QED BY <5>1, <5>2
      <4> QED BY <1>6, <1>11, <2>1, <3>1, <3>3, <4>1, <4>2 DEF WireFor
    <3> QED BY <1>11, <3>2, <3>3
  <2>2. CASE d # c
    <3>1. down' = down /\ hello'[d] = hello[d] /\ pc'[d] = pc[d] /\ up'[d] = up[d] /\ gen'[d] = gen[d]
      BY <1>6, <1>9, <1>11, <2>2
    <3>2. Current(d)' => Current(d)
      BY <1>6, <3>1 DEF Current, Running
    <3> QED BY <1>6, <3>1, <3>2, WireKept
  <2> QED BY <2>1, <2>2
<1>18. KeptInv'
  BY <1>1, <1>6, <1>10 DEF KeptInv
<1>19. ConfirmedWasReceived'
  <2>1. \A s \in sessions' : s \in sessions \/ (s \in Session \ made)
    BY <1>7
  <2> QED BY <1>1, <1>6, <2>1 DEF ConfirmedWasReceived, IInv, BearersIssued
<1> QED BY <1>10, <1>12, <1>13, <1>16, <1>17, <1>18, <1>19 DEF LinkInv

\* The relay reads a pong, which confirms the current bearer or is ignored.
LEMMA LinkPong ==
  ASSUME IInv, LinkInv, NEW c \in Conn, serverPong(c)
  PROVE  LinkInv'
<1> DEFINE t == Head(up[c]).bearer
<1> USE LinkConstants
<1>1. LinkTypes /\ DownInv /\ UpInv /\ AccountInv /\ WireInv /\ KeptInv /\ ConfirmedWasReceived
  BY DEF LinkInv
<1>2. up[c] \in Seq(Envelope) /\ up[c] # <<>> /\ Head(up[c]).kind = "pong" /\ pc[c] # "idle"
  BY <1>1 DEF serverPong, Kind, LinkTypes, Running
<1>3. t \in received
  BY <1>1, <1>2, Taken DEF UpInv
<1>4. up' = [up EXCEPT ![c] = Tail(up[c])] /\ up' \in [Conn -> Seq(Envelope)]
  BY <1>1, <1>2, Taken DEF serverPong, Take, LinkTypes
<1>5. UNCHANGED <<now, sessions, issued, tokens, token, previousToken, wire, dialed, received, down,
                  bearers, state, active, controller, live, open, gen, pc, hello>>
  BY DEF serverPong, acknowledge, serverVars, clientVars, relayVars, capabilityVars, controlVars, handlerVars
<1>6. \A d \in Conn \ {c} : up'[d] = up[d]
  BY <1>1, <1>4 DEF LinkTypes
<1>7. up'[c] = Tail(up[c]) /\ \A i \in DOMAIN up'[c] : i + 1 \in DOMAIN up[c] /\ up'[c][i] = up[c][i + 1]
  BY <1>1, <1>2, <1>4, Taken DEF LinkTypes
<1>8. LinkTypes'
  BY <1>1, <1>4, <1>5 DEF LinkTypes, Held
<1>9. DownInv'
  BY <1>1, <1>5 DEF DownInv, Client!Ready
<1>10. UpInv'
  <2>1. \A i \in DOMAIN up'[c] : up'[c][i].kind # "hello" /\ up'[c][i].bearer \in received
    BY <1>1, <1>2, <1>7 DEF UpInv
  <2>2. c \in dialed
    BY <1>1, <1>2 DEF UpInv
  <2> QED BY <1>1, <1>5, <1>6, <2>1, <2>2 DEF UpInv
<1>11. AccountInv'
  BY <1>1, <1>5 DEF AccountInv, Running
<1>12. WireInv'
  <2> SUFFICES ASSUME NEW d \in Conn, d = wire PROVE WireFor(d)'
    BY <1>5 DEF WireInv
  <2>1. Waiting(d)' => Waiting(d)
    <3>1. CASE d # c
      BY <1>6, <3>1 DEF Waiting
    <3>2. CASE d = c
      <4> SUFFICES ASSUME Waiting(c)' PROVE FALSE
        BY <3>2
      <4>1. 1 \in DOMAIN up'[c] /\ up'[c][1].kind = "hello"
        BY <1>4, Taken DEF Waiting
      <4>2. up[c][2].kind = "hello" /\ 2 \in DOMAIN up[c]
        BY <1>7, <4>1
      <4> QED BY <1>1, <1>2, <4>2 DEF UpInv
    <3> QED BY <3>1, <3>2
  <2>2. Waiting(d) /\ Waiting(d)' => up'[d][1] = up[d][1]
    <3>1. Waiting(d) => d # c
      BY <1>2, NotWaiting
    <3> QED BY <1>6, <3>1
  <2>3. WireFor(d) /\ Current(d)' = Current(d) /\ Client!Ready' = Client!Ready /\ Mine' = Mine
    BY <1>1, <1>5 DEF WireInv, Current, Running, Client!Ready, Mine, Held, Coming
  <2> HIDE DEF Mine, Waiting, Current, Client!Ready
  <2> QED BY <1>5, <2>1, <2>2, <2>3 DEF WireFor, Grants
<1>13. KeptInv'
  BY <1>1, <1>5 DEF KeptInv, Held, Coming
<1>14. ConfirmedWasReceived'
  <2>1. CASE acknowledge(c, t)
    <3>1. t = token[hello[c].session] /\ tokenPending' = [tokenPending EXCEPT ![hello[c].session] = FALSE]
      BY <2>1 DEF acknowledge
    <3>2. tokenPending \in [Session -> BOOLEAN] /\ sessions \subseteq Session
      BY DEF IInv, TypeOK
    <3> QED BY <1>1, <1>3, <1>5, <3>1, <3>2 DEF ConfirmedWasReceived
  <2>2. CASE tokenPending' = tokenPending
    BY <1>1, <1>5, <2>2 DEF ConfirmedWasReceived
  <2> QED BY <2>1, <2>2 DEF serverPong, serverVars, capabilityVars
<1> QED BY <1>8, <1>9, <1>10, <1>11, <1>12, <1>13, <1>14 DEF LinkInv

\* rotateLocked retains a bearer the browser has received, or drops none.
LEMMA LinkRotates ==
  ASSUME IInv, LinkInv, NEW s \in sessions, NEW x, NEW at, rotateLocked(s, x, at),
         \/ x \in received /\ x \in DOMAIN tokens /\ tokens[x].session = s
         \/ previousToken[s] = NoBearer /\ token[s] \in {x, NoBearer}
  PROVE  /\ Kept(Held, Coming, bearers[1].token, received, tokens')
         /\ issued' = issued + 1 /\ issued \in Nat /\ \A t \in Mine \cup received : t \in Nat /\ t <= issued
         /\ token' = [token EXCEPT ![s] = issued + 1] /\ previousToken' = [previousToken EXCEPT ![s] = x]
         /\ s \in Session /\ token'[s] = issued + 1 /\ previousToken'[s] = x
         /\ issued + 1 \in DOMAIN tokens' /\ tokens'[issued + 1].session = s
         /\ \A t \in DOMAIN tokens' : t # issued + 1 => t \in DOMAIN tokens /\ tokens'[t] = tokens[t]
         /\ x \in DOMAIN tokens => x \in DOMAIN tokens'
         /\ \A t \in DOMAIN tokens \ DOMAIN tokens' : t \in {token[s], previousToken[s]} \ {x}
         /\ \A t \in {token[s], previousToken[s]} \ {x} : t \notin DOMAIN tokens'
<1> DEFINE n == issued + 1
           dropped == {token[s], previousToken[s]} \ {x}
<1>1. LinkTypes /\ DownInv /\ KeptInv
  BY DEF LinkInv
<1>2. /\ issued \in Nat /\ DOMAIN tokens \subseteq 1 .. issued /\ s \in Session
      /\ token \in [Session -> Nat] /\ previousToken \in [Session -> Nat]
      /\ token[s] <= issued /\ previousToken[s] <= issued
  BY DEF IInv, TypeOK, BearersIssued
<1>3. \A t \in Mine \cup received : t \in Nat /\ t <= issued
  BY <1>1, <1>2, ComingNewer DEF LinkTypes, Mine
<1>4. /\ DOMAIN tokens' = (DOMAIN tokens \ dropped) \cup {n}
      /\ \A t \in DOMAIN tokens' : tokens'[t] = IF t = n THEN [session |-> s, expires |-> at + resumeTTL]
                                                  ELSE tokens[t]
      /\ issued' = n /\ previousToken' = [previousToken EXCEPT ![s] = x] /\ token' = [token EXCEPT ![s] = n]
  BY DEF rotateLocked
<1>5. \A t \in dropped \cap DOMAIN tokens : tokens[t].session = s
  <2>1. NoBearer \notin DOMAIN tokens
    BY <1>2 DEF NoBearer
  <2> QED BY <2>1 DEF IInv, BearersExact
<1>6. \A t \in DOMAIN tokens \ DOMAIN tokens' : t \in dropped
  BY <1>4
<1>7. \A t \in DOMAIN tokens \ DOMAIN tokens' :
         \E y \in received \cap DOMAIN tokens' : y \in DOMAIN tokens /\ tokens[y].session = tokens[t].session
  <2>1. CASE x \in received /\ x \in DOMAIN tokens /\ tokens[x].session = s
    BY <1>4, <1>5, <1>6, <2>1
  <2>2. CASE previousToken[s] = NoBearer /\ token[s] \in {x, NoBearer}
    <3>1. dropped \subseteq {NoBearer} /\ NoBearer \notin DOMAIN tokens
      BY <1>2, <2>2 DEF NoBearer
    <3> QED BY <1>6, <3>1
  <2> QED BY <2>1, <2>2
<1>8. n \notin Held \cup Coming \cup received
  BY <1>2, <1>3 DEF Mine
<1>9. Held # {} => bearers[1].token \in Held
  BY <1>1, Newest
<1>10. Kept(Held, Coming, bearers[1].token, received, tokens')
  <2>1. Kept(Held, Coming, bearers[1].token, received, tokens)
    BY <1>1 DEF KeptInv
  <2>2. /\ DOMAIN tokens' \subseteq DOMAIN tokens \cup {n}
        /\ \A t \in DOMAIN tokens' \ {n} : tokens'[t] = tokens[t]
    BY <1>4
  <2> HIDE DEF n, dropped
  <2> QED BY <1>7, <1>8, <1>9, <2>1, <2>2, KeptRotates
<1>11. n \in DOMAIN tokens' /\ tokens'[n].session = s
  BY <1>4
<1>12. n \notin dropped
  BY <1>2
<1>13. \A t \in DOMAIN tokens' : t # n => t \in DOMAIN tokens /\ tokens'[t] = tokens[t]
  BY <1>4
<1>14. token'[s] = n /\ previousToken'[s] = x
  BY <1>2, <1>4
<1> QED BY <1>2, <1>3, <1>4, <1>6, <1>10, <1>11, <1>12, <1>13, <1>14

\* A rotation leaves the parts of the invariant that are not about the browser's connection.
LEMMA LinkRotated ==
  ASSUME IInv, LinkInv, NEW s \in sessions, NEW x \in Nat, NEW at, rotateLocked(s, x, at), x <= issued,
         \/ x \in received /\ x \in DOMAIN tokens /\ tokens[x].session = s
         \/ previousToken[s] = NoBearer /\ token[s] \in {x, NoBearer},
         NEW c \in Conn, pc[c] \notin {"idle", "refused"}, hello[c].session = s,
         NEW place \in {"greeting", "control"}, pc' = [pc EXCEPT ![c] = place],
         tokenPending' = [tokenPending EXCEPT ![s] = (x # NoBearer)],
         UNCHANGED <<now, sessions, hello, bearers, state, active, received, up, wire, dialed>>
  PROVE  /\ UpInv' /\ AccountInv' /\ ConfirmedWasReceived' /\ received' \subseteq 1 .. issued'
         /\ down' = down => DownInv' /\ KeptInv'
<1> USE LinkConstants
<1>1. LinkTypes /\ DownInv /\ UpInv /\ AccountInv /\ WireInv /\ KeptInv /\ ConfirmedWasReceived
  BY DEF LinkInv
<1>2. /\ Kept(Held, Coming, bearers[1].token, received, tokens')
      /\ issued' = issued + 1 /\ issued \in Nat /\ \A t \in Mine \cup received : t \in Nat /\ t <= issued
      /\ token' = [token EXCEPT ![s] = issued + 1] /\ previousToken' = [previousToken EXCEPT ![s] = x]
      /\ s \in Session /\ token'[s] = issued + 1 /\ previousToken'[s] = x
      /\ \A t \in DOMAIN tokens' : t # issued + 1 => t \in DOMAIN tokens /\ tokens'[t] = tokens[t]
  BY LinkRotates
<1>3. /\ token \in [Session -> Nat] /\ previousToken \in [Session -> Nat] /\ pc \in [Conn -> Place]
      /\ tokenPending \in [Session -> BOOLEAN] /\ sessions \subseteq Session
      /\ \A d \in Conn : pc[d] \notin {"idle", "refused"} => hello[d].session \in Session
  BY DEF IInv, TypeOK
<1>4. pc'[c] = place /\ \A d \in Conn \ {c} : pc'[d] = pc[d]
  BY <1>3
<1>5. UpInv'
  <2>1. \A i \in DOMAIN up[c] : up[c][i].kind # "hello"
    BY <1>1 DEF UpInv
  <2>2. c \in dialed
    BY <1>1 DEF UpInv
  <2> QED BY <1>1, <1>4, <2>1, <2>2 DEF UpInv
<1>6. \A u \in Session \ {s} : token'[u] = token[u] /\ previousToken'[u] = previousToken[u]
  BY <1>2, <1>3
<1>7. AccountInv'
  <2>1. ASSUME NEW d \in Conn, pc'[d] \in {"found", "attached"}, hello[d].token = NoBearer
        PROVE  /\ token'[hello[d].session] = NoBearer
               /\ \A e \in Conn \ {d} : pc'[e] \notin {"idle", "refused"} => hello[e].session # hello[d].session
    <3>1. d # c /\ pc'[d] = pc[d]
      BY <1>4, <2>1
    <3>2. hello[d].session # s /\ hello[d].session \in Session /\ token[hello[d].session] = NoBearer
      BY <1>1, <1>3, <2>1, <3>1 DEF AccountInv
    <3>3. \A e \in Conn \ {d} : pc'[e] \notin {"idle", "refused"} => pc[e] \notin {"idle", "refused"}
      BY <1>4, <2>1
    <3> QED BY <1>1, <1>6, <2>1, <3>1, <3>2, <3>3 DEF AccountInv
  <2>2. \A d \in Conn : Running(d)' => token'[hello[d].session] # NoBearer
    BY <1>1, <1>2, <1>3, <1>4, <1>6 DEF AccountInv, Running, NoBearer
  <2>3. \A u \in Session : \/ previousToken'[u] < token'[u]
                           \/ token'[u] = NoBearer /\ previousToken'[u] = NoBearer
    BY <1>1, <1>2, <1>6 DEF AccountInv
  <2> QED BY <2>1, <2>2, <2>3 DEF AccountInv
<1>8. ConfirmedWasReceived'
  BY <1>1, <1>2, <1>3, <1>6 DEF ConfirmedWasReceived
<1>9. received' \subseteq 1 .. issued'
  BY <1>1, <1>2 DEF LinkTypes
<1>10. ASSUME down' = down PROVE DownInv' /\ KeptInv'
  <2>1. DownInv'
    BY <1>1, <1>2, <1>10 DEF DownInv, Client!Ready
  <2>2. KeptInv'
    BY <1>2, <1>10 DEF KeptInv, Held, Coming
  <2> QED BY <2>1, <2>2
<1> QED BY <1>5, <1>7, <1>8, <1>9, <1>10

\* A takeover: openControl retains the bearer of the Hello, which the browser had received.
LEMMA LinkOpens ==
  ASSUME IInv, LinkInv, NEW c \in Conn, openControl(c), UNCHANGED <<linkVars, clientVars>>
  PROVE  LinkInv'
<1> DEFINE s == hello[c].session
           x == hello[c].token
<1>1. LinkTypes /\ DownInv /\ UpInv /\ AccountInv /\ WireInv /\ KeptInv
  BY DEF LinkInv
<1>2. /\ pc[c] = "attached" /\ s \in sessions /\ (x # NoBearer => resumeLocked(x, hello[c].now) = s)
      /\ rotateLocked(s, x, hello[c].now) /\ pc' = [pc EXCEPT ![c] = "greeting"]
      /\ tokenPending' = [tokenPending EXCEPT ![s] = (x # NoBearer)]
      /\ controller' = [controller EXCEPT ![s] = generation[s] + 1]
      /\ gen' = [gen EXCEPT ![c] = generation[s] + 1]
      /\ \A d \in Conn \ {c} : live'[d] => live[d]
      /\ UNCHANGED <<now, open, sessions, hello>>
  BY DEF openControl, TakeoverRefused, Goto
<1>3. UNCHANGED <<bearers, state, active, received, up, down, wire, dialed>>
  BY DEF linkVars, clientVars
<1>4. /\ s \in Session /\ issued \in Nat /\ DOMAIN tokens \subseteq 1 .. issued /\ NoSession \notin Session
      /\ controller \in [Session -> Nat] /\ generation \in [Session -> Nat] /\ gen \in [Conn -> Nat]
      /\ pc \in [Conn -> Place]
      /\ \A d \in Conn : Running(d) => hello[d].session \in Session /\ gen[d] <= generation[hello[d].session]
  BY <1>2, RelayConstants DEF IInv, TypeOK, GenerationInv, Running
<1>5. x \in received \cup {NoBearer} /\ x \in Nat /\ x <= issued
  <2>1. x \in received \cup {NoBearer}
    BY <1>1, <1>2 DEF UpInv
  <2>2. received \subseteq 1 .. issued
    BY <1>1 DEF LinkTypes
  <2>3. x \in 1 .. issued \/ x = 0
    BY <2>1, <2>2 DEF NoBearer
  <2>4. issued \in Nat
    BY <1>4
  <2> HIDE DEF x
  <2> QED BY <2>1, <2>3, <2>4
<1>6. \/ x \in received /\ x \in DOMAIN tokens /\ tokens[x].session = s
      \/ previousToken[s] = NoBearer /\ token[s] \in {x, NoBearer}
  <2>1. CASE x = NoBearer
    BY <1>1, <1>2, <1>4, <2>1 DEF AccountInv, IInv, TypeOK, NoBearer
  <2>2. CASE x # NoBearer
    BY <1>2, <1>4, <1>5, <2>2 DEF resumeLocked
  <2> QED BY <2>1, <2>2
<1>7. \A d \in Conn \ {c} : pc'[d] = pc[d] /\ gen'[d] = gen[d]
  BY <1>2, <1>4
<1>8. \A d \in Conn : Current(d)' => d = c \/ (Current(d) /\ hello[d].session # s)
  <2> SUFFICES ASSUME NEW d \in Conn \ {c}, Current(d)' PROVE Current(d) /\ hello[d].session # s
    OBVIOUS
  <2>1. Running(d) /\ live[d] /\ open /\ controller'[hello[d].session] = gen[d]
    BY <1>2, <1>7 DEF Current, Running
  <2>2. hello[d].session # s
    BY <1>2, <1>4, <2>1
  <2> QED BY <1>2, <1>4, <2>1, <2>2 DEF Current
<1>9. /\ UpInv' /\ AccountInv' /\ ConfirmedWasReceived' /\ received' \subseteq 1 .. issued'
      /\ DownInv' /\ KeptInv'
  <2>1. hello[c].session = s /\ pc[c] \notin {"idle", "refused"}
    BY <1>2
  <2>2. /\ s \in sessions /\ x \in Nat /\ x <= issued /\ rotateLocked(s, x, hello[c].now)
        /\ tokenPending' = [tokenPending EXCEPT ![s] = (x # NoBearer)]
        /\ pc' = [pc EXCEPT ![c] = "greeting"] /\ "greeting" \in {"greeting", "control"}
        /\ UNCHANGED <<now, sessions, hello, bearers, state, active, received, up, wire, dialed>>
        /\ down' = down
    BY <1>2, <1>3, <1>5
  <2> HIDE DEF s, x
  <2> QED BY <1>6, <2>1, <2>2, LinkRotated
<1>10. /\ issued' = issued + 1 /\ issued \in Nat /\ \A t \in Mine \cup received : t \in Nat /\ t <= issued
       /\ token'[s] = issued + 1 /\ previousToken'[s] = x
       /\ \A t \in DOMAIN tokens' : t # issued + 1 => t \in DOMAIN tokens /\ tokens'[t] = tokens[t]
  <2> HIDE DEF s, x
  <2> QED BY <1>2, <1>6, LinkRotates
<1>11. LinkTypes'
  BY <1>1, <1>2, <1>3, <1>9 DEF LinkTypes, Held
<1>12. c = wire => WireFor(c)'
  <2> SUFFICES ASSUME c = wire PROVE WireFor(c)'
    OBVIOUS
  <2>1. WireFor(c) /\ x = bearers[1].token /\ down = <<>> /\ ~Client!Ready
    BY <1>1, <1>2 DEF WireInv, WireFor
  <2>2. Mine' = Mine /\ ~Client!Ready' /\ ~Waiting(c)' /\ pc'[c] = "greeting"
    BY <1>2, <1>3, <1>4, <2>1, NotWaiting DEF Mine, Held, Coming, Client!Ready, Waiting
  <2>3. \A t \in Mine \cap DOMAIN tokens' : tokens'[t].session = s
    BY <1>2, <1>10, <2>1 DEF WireFor
  <2>4. \A t \in received : t < token'[s]
    BY <1>10
  <2> QED BY <1>2, <1>3, <1>10, <2>1, <2>2, <2>3, <2>4 DEF WireFor
<1>13. ASSUME NEW d \in Conn \ {c}, d = wire PROVE WireFor(d)'
  <2>1. Current(d)' => /\ Current(d) /\ token'[hello[d].session] = token[hello[d].session]
                       /\ previousToken'[hello[d].session] = previousToken[hello[d].session]
    BY <1>2, <1>8 DEF rotateLocked
  <2>2. \A t \in Mine \cap DOMAIN tokens' : t \in DOMAIN tokens /\ tokens'[t] = tokens[t]
    BY <1>10
  <2>3. up'[d] = up[d] /\ pc'[d] = pc[d] /\ hello'[d] = hello[d] /\ gen'[d] = gen[d]
    BY <1>2, <1>3, <1>7
  <2> QED BY <1>3, <1>13, <2>1, <2>2, <2>3, WireKept
<1>14. WireInv'
  BY <1>3, <1>12, <1>13 DEF WireInv
<1> QED BY <1>9, <1>11, <1>14 DEF LinkInv

\* The controller's bearer is the newest of its account, which is registered.
LEMMA CurrentKnown ==
  ASSUME IInv, LinkInv, NEW c \in Conn, Current(c)
  PROVE  /\ hello[c].session \in sessions /\ hello[c].session \in Session
         /\ token[hello[c].session] \in DOMAIN tokens /\ token[hello[c].session] \in Nat
         /\ tokens[token[hello[c].session]].session = hello[c].session
         /\ previousToken[hello[c].session] \in Nat
         /\ previousToken[hello[c].session] < token[hello[c].session] /\ token[hello[c].session] # NoBearer
         /\ previousToken[hello[c].session] # NoBearer => previousToken[hello[c].session] \in DOMAIN tokens
         /\ \A t \in DOMAIN tokens : tokens[t].session = hello[c].session =>
               t # NoBearer /\ t \in {token[hello[c].session], previousToken[hello[c].session]}
<1> DEFINE s == hello[c].session
<1>1. s \in sessions /\ s \in Session /\ Running(c)
  BY DEF Current, Running, IInv, ControlledAccountKept, TypeOK
<1>2. token[s] \in Nat /\ previousToken[s] \in Nat /\ NoBearer \notin DOMAIN tokens
  BY <1>1 DEF IInv, TypeOK, NoBearer
<1>3. token[s] # NoBearer /\ previousToken[s] < token[s]
  BY <1>1 DEF LinkInv, AccountInv
<1> QED BY <1>1, <1>2, <1>3 DEF IInv, BearersExact

\* The first event of a controller brings its bearer.
LEMMA LinkWelcomes ==
  ASSUME IInv, LinkInv, NEW c \in Conn, serverWelcome(c)
  PROVE  LinkInv'
<1> DEFINE s == hello[c].session
           n == token[s]
           b == bearers[1].token
           m == Message("welcome", n, gen[c])
<1>1. LinkTypes /\ DownInv /\ UpInv /\ AccountInv /\ WireInv /\ KeptInv /\ ConfirmedWasReceived
  BY DEF LinkInv
<1>2. /\ pc[c] = "greeting" /\ Current(c) /\ pc' = [pc EXCEPT ![c] = "control"] /\ Answer(c, m)
      /\ UNCHANGED <<now, issued, sessions, tokens, token, previousToken, tokenPending, hello, gen, live,
                     controller, open, bearers, state, active, received, up, wire, dialed>>
  BY DEF serverWelcome, welcome, Goto, relayVars, capabilityVars, controlVars, clientVars
<1>3. /\ n \in DOMAIN tokens /\ n \in 1 .. issued /\ tokens[n].session = s /\ previousToken[s] < n
      /\ issued \in Nat /\ gen[c] \in Nat /\ pc \in [Conn -> Place]
  BY <1>2, CurrentKnown DEF IInv, TypeOK
<1>4. pc'[c] = "control" /\ \A d \in Conn \ {c} : pc'[d] = pc[d]
  BY <1>2, <1>3
<1>5. \A d \in Conn : Running(d)' = Running(d) /\ Current(d)' = Current(d)
  BY <1>2, <1>4 DEF Running, Current
<1>6. UpInv'
  BY <1>1, <1>2, <1>4 DEF UpInv
<1>7. AccountInv'
  BY <1>1, <1>2, <1>4, <1>5 DEF AccountInv
<1>8. ConfirmedWasReceived'
  BY <1>1, <1>2 DEF ConfirmedWasReceived
<1>9. CASE c # wire
  <2>1. down' = down
    BY <1>2, <1>9 DEF Answer
  <2>2. LinkTypes' /\ DownInv' /\ KeptInv'
    BY <1>1, <1>2, <2>1 DEF LinkTypes, DownInv, KeptInv, Held, Coming, Client!Ready
  <2>3. WireInv'
    <3> SUFFICES ASSUME NEW d \in Conn, d = wire PROVE WireFor(d)'
      BY <1>2 DEF WireInv
    <3> QED BY <1>2, <1>4, <1>5, <1>9, <2>1, WireKept
  <2> QED BY <1>6, <1>7, <1>8, <2>2, <2>3 DEF LinkInv
<1>10. CASE c = wire
  <2>1. WireFor(c)
    BY <1>1, <1>10 DEF WireInv
  <2>2. /\ down = <<>> /\ ~Client!Ready /\ previousToken[s] = b /\ \A t \in received : t < n
        /\ \A t \in Mine \cap DOMAIN tokens : tokens[t].session = s
    BY <1>2, <2>1 DEF WireFor
  <2>3. m \in Envelope /\ Grants(m) /\ m.bearer = n /\ m.gen = gen[c]
    BY <1>3 DEF Message, Envelope, Grants
  <2>4. down' = <<m>>
    BY <1>2, <1>10, <2>2 DEF Answer
  <2>5. down' \in Seq(Envelope) /\ DOMAIN down' = {1} /\ down'[1] = m
    BY <2>3, <2>4
  <2>6. b \in Nat /\ b < n
    BY <1>1, <1>3, <2>2, Newest
  <2>7. Coming = {} /\ Coming' = {n} /\ Held' = Held /\ ~Client!Ready'
    BY <1>2, <1>3, <2>2, <2>3, <2>5, <2>6 DEF Coming, Held, NoBearer, Client!Ready
  <2>8. LinkTypes'
    BY <1>1, <1>2, <2>5, <2>7 DEF LinkTypes
  <2>9. DownInv'
    BY <1>2, <1>3, <2>3, <2>5, <2>6, <2>7 DEF DownInv, Grants
  <2>10. Held \subseteq received /\ Held \in SUBSET Nat /\ \A t \in Held : t < n
    BY <1>1, <2>2, Newest DEF LinkTypes
  <2>11. KeptInv'
    <3>1. \A t \in received \cap DOMAIN tokens : tokens[t].session = tokens[n].session => t \in Held /\ t = b
      BY <1>1, <1>2, <1>3, <2>2, Newest, CurrentKnown
    <3>2. Held # {} => b \in DOMAIN tokens
      BY <1>1, <1>2, <2>2, Newest, CurrentKnown
    <3>3. n \notin received /\ n \in Nat
      BY <1>3, <2>2
    <3>4. Kept(Held, {}, b, received, tokens)
      BY <1>1, <2>7 DEF KeptInv
    <3>5. \A t \in Held \cap DOMAIN tokens : tokens[t].session = tokens[n].session
      BY <1>3, <2>2 DEF Mine
    <3>6. Kept(Held, {} \cup {n}, b, received, tokens)
      <4> HIDE DEF n, b, s
      <4> QED BY <1>3, <2>10, <3>1, <3>2, <3>3, <3>4, <3>5, KeptGrows
    <3>7. {} \cup {n} = {n}
      OBVIOUS
    <3> QED BY <1>2, <2>7, <3>6, <3>7 DEF KeptInv
  <2>12. WireInv'
    <3>1. ~Waiting(c)'
      BY <1>2, NotWaiting DEF Waiting
    <3>2. Mine' = Held \cup {n} /\ n \in Mine' /\ \A t \in Mine' : t <= n
      BY <1>3, <2>7, <2>10 DEF Mine
    <3>3. \A t \in Mine' \cap DOMAIN tokens : tokens[t].session = s
      BY <1>3, <2>2, <3>2 DEF Mine
    <3>4. WireFor(c)'
      BY <1>2, <1>4, <2>3, <2>5, <2>7, <3>1, <3>2, <3>3 DEF WireFor
    <3> QED BY <1>2, <1>10, <3>4 DEF WireInv
  <2> QED BY <1>6, <1>7, <1>8, <2>8, <2>9, <2>11, <2>12 DEF LinkInv
<1> QED BY <1>9, <1>10

\* A keepalive replaces a confirmed bearer; what is confirmed, the browser has received.
LEMMA LinkPingRotates ==
  ASSUME IInv, LinkInv, NEW c \in Conn, pingRotate(c),
         Answer(c, Message("ping", token'[hello[c].session], gen[c])),
         UNCHANGED <<up, wire, dialed, received, clientVars>>
  PROVE  LinkInv'
<1> DEFINE s == hello[c].session
           x == token[s]
           n == issued + 1
           b == bearers[1].token
           m == Message("ping", n, gen[c])
<1>1. LinkTypes /\ DownInv /\ UpInv /\ AccountInv /\ WireInv /\ KeptInv /\ ConfirmedWasReceived
  BY DEF LinkInv
<1>2. /\ pc[c] = "control" /\ Current(c) /\ ~tokenPending[s] /\ rotateLocked(s, x, now)
      /\ tokenPending' = [tokenPending EXCEPT ![s] = TRUE]
      /\ UNCHANGED <<now, sessions, hello, gen, live, pc, controller, open>>
      /\ UNCHANGED <<bearers, state, active, received, up, wire, dialed>>
  BY DEF pingRotate, relayVars, controlVars, handlerVars, clientVars
<1>3. /\ s \in sessions /\ s \in Session /\ x \in DOMAIN tokens /\ x \in Nat /\ tokens[x].session = s
      /\ previousToken[s] \in Nat /\ previousToken[s] < x /\ x # NoBearer
      /\ \A t \in DOMAIN tokens : tokens[t].session = s => t # NoBearer /\ t \in {x, previousToken[s]}
  BY <1>2, CurrentKnown
<1>4. /\ issued \in Nat /\ x <= issued /\ gen[c] \in Nat /\ pc \in [Conn -> Place]
      /\ tokenPending \in [Session -> BOOLEAN]
  BY <1>3 DEF IInv, TypeOK
<1>5. previousToken[s] # NoBearer => x \in received
  BY <1>1, <1>2, <1>3 DEF ConfirmedWasReceived
<1>6. \/ x \in received /\ x \in DOMAIN tokens /\ tokens[x].session = s
      \/ previousToken[s] = NoBearer /\ token[s] \in {x, NoBearer}
  BY <1>3, <1>5
<1>7. /\ Kept(Held, Coming, b, received, tokens')
      /\ issued' = n /\ \A t \in Mine \cup received : t \in Nat /\ t <= issued
      /\ token' = [token EXCEPT ![s] = n] /\ previousToken' = [previousToken EXCEPT ![s] = x]
      /\ token'[s] = n /\ n \in DOMAIN tokens' /\ tokens'[n].session = s
      /\ \A t \in DOMAIN tokens' : t # n => t \in DOMAIN tokens /\ tokens'[t] = tokens[t]
      /\ x \in DOMAIN tokens'
      /\ \A t \in {token[s], previousToken[s]} \ {x} : t \notin DOMAIN tokens'
  <2> HIDE DEF s, x
  <2> QED BY <1>2, <1>3, <1>6, LinkRotates
<1>8. /\ UpInv' /\ AccountInv' /\ ConfirmedWasReceived' /\ received' \subseteq 1 .. issued'
      /\ down' = down => DownInv' /\ KeptInv'
  <2>1. hello[c].session = s /\ pc[c] \notin {"idle", "refused"} /\ x \in Nat /\ x <= issued
    BY <1>2, <1>3, <1>4
  <2>2. pc' = [pc EXCEPT ![c] = "control"]
    BY <1>2, <1>4
  <2>3. tokenPending' = [tokenPending EXCEPT ![s] = (x # NoBearer)]
    BY <1>2, <1>3
  <2>4. UNCHANGED <<now, sessions, hello, bearers, state, active, received, up, wire, dialed>>
    BY <1>2
  <2>5. s \in sessions /\ rotateLocked(s, x, now) /\ "control" \in {"greeting", "control"}
    BY <1>2, <1>3
  <2> HIDE DEF s, x
  <2> QED BY <1>6, <2>1, <2>2, <2>3, <2>4, <2>5, LinkRotated
<1>9. CASE c # wire
  <2>1. down' = down
    BY <1>9 DEF Answer
  <2>2. LinkTypes'
    BY <1>1, <1>2, <1>8, <2>1 DEF LinkTypes, Held
  <2>3. ASSUME NEW d \in Conn, d = wire PROVE WireFor(d)'
    <3>1. Current(d)' => Current(d)
      BY <1>2 DEF Current, Running
    <3>2. Current(d) => hello[d].session # s
      BY <1>2, <1>9, <2>3 DEF Current, IInv, GenerationInv
    <3>3. Current(d)' => /\ Current(d) /\ token'[hello[d].session] = token[hello[d].session]
                         /\ previousToken'[hello[d].session] = previousToken[hello[d].session]
      BY <1>7, <3>1, <3>2
    <3>4. \A t \in Mine \cap DOMAIN tokens' : t \in DOMAIN tokens /\ tokens'[t] = tokens[t]
      BY <1>4, <1>7
    <3> QED BY <1>2, <2>1, <2>3, <3>3, <3>4, WireKept
  <2>4. WireInv'
    BY <1>2, <2>3 DEF WireInv
  <2> QED BY <1>8, <2>1, <2>2, <2>4 DEF LinkInv
<1>10. CASE c = wire
  <2>1. WireFor(c)
    BY <1>1, <1>10 DEF WireInv
  <2>2. /\ x \in Mine /\ \A t \in Mine : t <= x
        /\ \A t \in Mine \cap DOMAIN tokens : tokens[t].session = s
        /\ \A i \in DOMAIN down : Grants(down[i]) => down[i].gen = gen[c]
        /\ Client!Ready => active = gen[c]
    BY <1>2, <2>1 DEF WireFor
  <2>3. m \in Envelope /\ Grants(m) /\ m.bearer = n /\ m.gen = gen[c]
    BY <1>4 DEF Message, Envelope, Grants
  <2>4. down \in Seq(Envelope) /\ down' = Append(down, m)
    BY <1>1, <1>7, <1>10 DEF Answer, LinkTypes
  <2>5. /\ down' \in Seq(Envelope) /\ DOMAIN down' = DOMAIN down \cup {Len(down) + 1}
        /\ \A i \in DOMAIN down : down'[i] = down[i] /\ i < Len(down) + 1
        /\ down'[Len(down) + 1] = m /\ Len(down) + 1 \notin DOMAIN down
    BY <2>3, <2>4, Appended
  <2>6. b \in Nat /\ b <= issued /\ b # n /\ n # NoBearer
    BY <1>1, <1>4, <1>7, Newest DEF Mine, NoBearer
  <2>7. Coming' = Coming \cup {n} /\ Held' = Held /\ Client!Ready' = Client!Ready
    BY <1>2, <2>3, <2>5, <2>6 DEF Coming, Held, Client!Ready
  <2>8. x \in received => x = b /\ Coming = {} /\ x \in Held
    <3> SUFFICES ASSUME x \in received PROVE x = b /\ Coming = {} /\ x \in Held
      OBVIOUS
    <3>1. x \in Held
      BY <1>1, <1>3, <2>2 DEF KeptInv, Kept, Mine
    <3>2. x <= b /\ b \in Mine
      BY <1>1, <3>1, Newest DEF Mine
    <3>3. x = b
      BY <1>3, <2>2, <2>6, <3>2
    <3>4. Coming = {}
      BY <1>1, <1>3, <2>2, <3>3, ComingNewer DEF Mine
    <3> QED BY <3>1, <3>3, <3>4
  <2>9. Held # {} => x \in received
    <3> SUFFICES ASSUME Held # {}, previousToken[s] = NoBearer PROVE x \in received
      BY <1>5
    <3>1. PICK t \in Held : t \in DOMAIN tokens
      BY <1>1 DEF KeptInv, Kept
    <3>2. t = x
      BY <1>3, <2>2, <3>1 DEF Mine
    <3> QED BY <1>1, <3>2 DEF LinkTypes
  <2>10. Held = {} => Coming = {x}
    <3> SUFFICES ASSUME Held = {} PROVE Coming = {x}
      OBVIOUS
    <3>1. x \in Coming /\ previousToken[s] = NoBearer
      BY <1>5, <2>2, <2>8 DEF Mine
    <3>2. ASSUME NEW t \in Coming, t # x PROVE FALSE
      <4>1. t <= x /\ t \in Nat
        BY <1>7, <2>2 DEF Mine
      <4>2. ~Oldest(x, Coming)
        BY <1>3, <3>2, <4>1 DEF Oldest
      <4>3. t \in DOMAIN tokens
        BY <1>1, <3>1, <3>2, <4>2 DEF KeptInv, Kept
      <4> QED BY <1>3, <2>2, <3>1, <3>2, <4>3 DEF Mine
    <3> QED BY <3>1, <3>2
  <2>11. KeptInv'
    <3>1. Held \in SUBSET Nat /\ Coming \in SUBSET Nat /\ n \in Nat /\ \A t \in Held \cup Coming : t < n
      BY <1>4, <1>7 DEF Mine
    <3>2. n \in DOMAIN tokens' \ received
      BY <1>4, <1>7
    <3>3. \A t \in (Held \cup Coming) \cap DOMAIN tokens' : tokens'[t].session = tokens'[n].session
      BY <1>7, <2>2 DEF Mine
    <3>4. \A t \in received \cap DOMAIN tokens' : tokens'[t].session = tokens'[n].session => t \in Held /\ t = b
      <4> SUFFICES ASSUME NEW t \in received \cap DOMAIN tokens', tokens'[t].session = s
                   PROVE  t \in Held /\ t = b
        BY <1>7
      <4>1. t # n
        BY <1>4, <1>7
      <4>2. t \in {x, previousToken[s]}
        BY <1>3, <1>7, <4>1
      <4>3. t = x
        BY <1>7, <4>2
      <4> QED BY <2>8, <4>3
    <3>5. Held # {} => Coming = {} /\ b \in DOMAIN tokens'
      BY <1>7, <2>8, <2>9
    <3>6. Held = {} => Coming \subseteq DOMAIN tokens' /\ \A t, u \in Coming : t = u
      BY <1>7, <2>10
    <3>7. Kept(Held, Coming \cup {n}, b, received, tokens')
      <4>1. Kept(Held, Coming, b, received, tokens')
        BY <1>7
      <4> HIDE DEF n, b, s, x
      <4> QED BY <3>1, <3>2, <3>3, <3>4, <3>5, <3>6, <4>1, KeptGrows
    <3> QED BY <1>2, <2>7, <3>7 DEF KeptInv
  <2>12. LinkTypes'
    BY <1>1, <1>2, <1>8, <2>5, <2>7 DEF LinkTypes
  <2>13. \A i \in DOMAIN down : Grants(down[i]) => down[i].bearer \in 1 .. issued /\ down[i].bearer <= n
    BY <1>1, <1>4 DEF DownInv
  <2>14. DownInv'
    <3>1. \A i \in DOMAIN down' :
           /\ Grants(down'[i]) => /\ down'[i].bearer \in 1 .. issued' /\ b <= down'[i].bearer
                                  /\ down'[i].gen = gen[c] /\ down'[i].bearer <= n
           /\ ~Grants(down'[i]) => down'[i].bearer = NoBearer
      <4> SUFFICES ASSUME NEW i \in DOMAIN down'
                   PROVE  /\ Grants(down'[i]) => /\ down'[i].bearer \in 1 .. issued' /\ b <= down'[i].bearer
                                                 /\ down'[i].gen = gen[c] /\ down'[i].bearer <= n
                          /\ ~Grants(down'[i]) => down'[i].bearer = NoBearer
        OBVIOUS
      <4>1. CASE i \in DOMAIN down
        BY <1>1, <1>4, <1>7, <2>2, <2>5, <2>13, <4>1 DEF DownInv
      <4>2. CASE i = Len(down) + 1
        BY <1>4, <1>7, <2>3, <2>5, <2>6, <4>2
      <4> QED BY <2>5, <4>1, <4>2
    <3>2. \A i, j \in DOMAIN down' : Grants(down'[i]) /\ Grants(down'[j]) /\ i <= j =>
             down'[i].bearer <= down'[j].bearer
      <4> SUFFICES ASSUME NEW i \in DOMAIN down', NEW j \in DOMAIN down', Grants(down'[i]), Grants(down'[j]),
                          i <= j
                   PROVE  down'[i].bearer <= down'[j].bearer
        OBVIOUS
      <4>1. CASE j = Len(down) + 1
        BY <2>3, <2>5, <3>1, <4>1
      <4>2. CASE j \in DOMAIN down
        <5>1. i \in DOMAIN down
          BY <2>4, <2>5, <4>2
        <5> QED BY <1>1, <2>5, <4>2, <5>1 DEF DownInv
      <4> QED BY <2>5, <4>1, <4>2
    <3> QED BY <1>2, <2>2, <2>7, <3>1, <3>2 DEF DownInv, Grants
  <2>15. WireInv'
    <3>1. ~Waiting(c)'
      BY <1>2, NotWaiting DEF Waiting
    <3>2. Mine' = Mine \cup {n} /\ \A t \in Mine' : t <= n
      BY <1>4, <1>7, <2>7 DEF Mine
    <3>3. \A t \in Mine' \cap DOMAIN tokens' : tokens'[t].session = s
      BY <1>7, <2>2, <3>2
    <3>4. \A i \in DOMAIN down' : Grants(down'[i]) => down'[i].gen = gen[c]
      BY <2>2, <2>3, <2>5
    <3>5. WireFor(c)'
      BY <1>2, <1>7, <2>2, <2>7, <3>1, <3>2, <3>3, <3>4 DEF WireFor, Grants
    <3> QED BY <1>2, <1>10, <3>5 DEF WireInv
  <2> QED BY <1>8, <2>11, <2>12, <2>14, <2>15 DEF LinkInv
<1> QED BY <1>9, <1>10

\* A keepalive repeats a bearer that is not confirmed.
LEMMA LinkPingRepeats ==
  ASSUME IInv, LinkInv, NEW c \in Conn, pc[c] = "control", Current(c),
         Answer(c, Message("ping", token[hello[c].session], gen[c])),
         UNCHANGED <<now, serverVars, up, wire, dialed, received, clientVars>>
  PROVE  LinkInv'
<1> DEFINE x == token[hello[c].session]
           b == bearers[1].token
           m == Message("ping", x, gen[c])
<1>1. LinkTypes /\ DownInv /\ UpInv /\ AccountInv /\ WireInv /\ KeptInv /\ ConfirmedWasReceived
  BY DEF LinkInv
<1>2. UNCHANGED <<now, issued, sessions, tokens, token, previousToken, tokenPending, pc, hello, gen, live,
                  controller, open, bearers, state, active, received, up, wire, dialed>>
  BY DEF serverVars, relayVars, capabilityVars, controlVars, handlerVars, clientVars
<1>3. UpInv' /\ AccountInv' /\ ConfirmedWasReceived' /\ Held' = Held /\ Client!Ready' = Client!Ready
  BY <1>1, <1>2 DEF UpInv, AccountInv, ConfirmedWasReceived, Held, Client!Ready, Running
<1>4. CASE c # wire
  <2>1. down' = down
    BY <1>4 DEF Answer
  <2>2. LinkTypes' /\ DownInv' /\ KeptInv'
    BY <1>1, <1>2, <1>3, <2>1 DEF LinkTypes, DownInv, KeptInv, Coming
  <2>3. ASSUME NEW d \in Conn, d = wire PROVE WireFor(d)'
    <3>1. Current(d)' => Current(d)
      BY <1>2 DEF Current, Running
    <3> QED BY <1>2, <2>1, <2>3, <3>1, WireKept
  <2> QED BY <1>2, <1>3, <2>2, <2>3 DEF LinkInv, WireInv
<1>5. CASE c = wire
  <2>1. WireFor(c)
    BY <1>1, <1>5 DEF WireInv
  <2>2. /\ x \in Mine /\ \A t \in Mine : t <= x
        /\ \A i \in DOMAIN down : Grants(down[i]) => down[i].gen = gen[c]
        /\ Client!Ready => active = gen[c]
    BY <2>1 DEF WireFor
  <2>3. x \in Nat /\ x \in 1 .. issued /\ issued \in Nat /\ gen[c] \in Nat /\ x # NoBearer
    BY CurrentKnown DEF IInv, TypeOK
  <2>4. m \in Envelope /\ Grants(m) /\ m.bearer = x /\ m.gen = gen[c]
    BY <2>3 DEF Message, Envelope, Grants
  <2>5. down \in Seq(Envelope) /\ down' = Append(down, m)
    BY <1>1, <1>5 DEF Answer, LinkTypes
  <2>6. /\ down' \in Seq(Envelope) /\ DOMAIN down' = DOMAIN down \cup {Len(down) + 1}
        /\ \A i \in DOMAIN down : down'[i] = down[i] /\ i < Len(down) + 1
        /\ down'[Len(down) + 1] = m /\ Len(down) + 1 \notin DOMAIN down
    BY <2>4, <2>5, Appended
  <2>7. b <= x /\ b \in Nat /\ (x \in Held => x = b)
    BY <1>1, <2>2, <2>3, Newest DEF Mine, NoBearer
  <2>8. \A i \in DOMAIN down : Grants(down[i]) => down[i].bearer <= x
    <3> SUFFICES ASSUME NEW i \in DOMAIN down, Grants(down[i]) PROVE down[i].bearer <= x
      OBVIOUS
    <3>1. down[i].bearer = b \/ down[i].bearer \in Coming
      BY <1>1, <2>3 DEF DownInv, Coming, NoBearer
    <3> QED BY <2>2, <2>7, <3>1 DEF Mine
  <2>9. Coming' = Coming
    <3>1. x = b \/ x \in Coming
      BY <2>2, <2>7 DEF Mine
    <3> QED BY <1>2, <2>4, <2>6, <3>1 DEF Coming
  <2>10. LinkTypes'
    BY <1>1, <1>2, <1>3, <2>6 DEF LinkTypes
  <2>11. DownInv'
    <3>1. \A i \in DOMAIN down' :
           /\ Grants(down'[i]) => /\ down'[i].bearer \in 1 .. issued /\ b <= down'[i].bearer
                                  /\ down'[i].gen = gen[c] /\ down'[i].bearer <= x
           /\ ~Grants(down'[i]) => down'[i].bearer = NoBearer
      BY <1>1, <2>2, <2>3, <2>4, <2>6, <2>7, <2>8 DEF DownInv
    <3>2. \A i, j \in DOMAIN down' : Grants(down'[i]) /\ Grants(down'[j]) /\ i <= j =>
             down'[i].bearer <= down'[j].bearer
      <4> SUFFICES ASSUME NEW i \in DOMAIN down', NEW j \in DOMAIN down', Grants(down'[i]), Grants(down'[j]),
                          i <= j
                   PROVE  down'[i].bearer <= down'[j].bearer
        OBVIOUS
      <4>1. CASE j = Len(down) + 1
        BY <2>4, <2>6, <3>1, <4>1
      <4>2. CASE j \in DOMAIN down
        <5>1. i \in DOMAIN down
          BY <2>5, <2>6, <4>2
        <5> QED BY <1>1, <2>6, <4>2, <5>1 DEF DownInv
      <4> QED BY <2>6, <4>1, <4>2
    <3> QED BY <1>2, <1>3, <2>2, <3>1, <3>2 DEF DownInv, Grants
  <2>12. KeptInv'
    BY <1>1, <1>2, <1>3, <2>9 DEF KeptInv
  <2>13. WireFor(c)'
    <3>1. ~Waiting(c)'
      BY <1>2, NotWaiting DEF Waiting
    <3>2. Mine' = Mine
      BY <1>3, <2>9 DEF Mine
    <3>3. \A i \in DOMAIN down' : Grants(down'[i]) => down'[i].gen = gen[c]
      BY <2>2, <2>4, <2>6
    <3> QED BY <1>2, <1>3, <2>1, <2>2, <3>1, <3>2, <3>3 DEF WireFor, Grants
  <2> QED BY <1>2, <1>3, <1>5, <2>10, <2>11, <2>12, <2>13 DEF LinkInv, WireInv
<1> QED BY <1>4, <1>5

\* Every step keeps the invariant of the link.
LEMMA LinkStep == ASSUME IInv, LinkInv, LinkNext PROVE LinkInv'
<1> USE LinkConstants
<1> DEFINE m == Message("resume", NoBearer, 0)
<1>0. m \in Envelope /\ ~Grants(m) /\ m.bearer = NoBearer
  BY DEF Message, Envelope, Grants, NoBearer
<1>1. ASSUME NEW c \in Conn, dialFirst(c) \/ dialFallback(c) PROVE LinkInv'
  BY <1>1, LinkDials
<1>2. ASSUME NEW c \in Conn, serverHello(c) PROVE LinkInv'
  BY <1>2, LinkHello
<1>3. ASSUME NEW c \in Conn, serverPong(c) PROVE LinkInv'
  BY <1>3, LinkPong
<1>4. ASSUME NEW c \in Conn, serverOpens(c) PROVE LinkInv'
  <2>1. /\ UNCHANGED <<linkVars, clientVars>>
        /\ UNCHANGED <<bearers, state, active, received, up, down, wire, dialed>>
    BY <1>4 DEF serverOpens, linkVars, clientVars
  <2>2. /\ gen \in [Conn -> Nat] /\ live \in [Conn -> BOOLEAN] /\ hello \in [Conn -> HelloRecord]
        /\ controller \in [Session -> Nat]
    BY DEF IInv, TypeOK
  <2>3. CASE attach(c)
    <3>1. /\ pc[c] = "found" /\ pc' = [pc EXCEPT ![c] = "attached"]
          /\ UNCHANGED <<now, sessions, issued, tokens, token, previousToken, tokenPending, hello, gen, live,
                         open, controller>>
      BY <2>3 DEF attach, Goto, relayVars, capabilityVars, controlVars
    <3> QED BY <1>0, <2>1, <3>1, LinkMoves
  <2>4. CASE openControl(c)
    BY <2>1, <2>4, LinkOpens
  <2>5. CASE refusal(c)
    <3>1. /\ pc[c] = "refused" /\ pc' = [pc EXCEPT ![c] = "idle"] /\ hello' = [hello EXCEPT ![c] = NoHello]
          /\ gen' = [gen EXCEPT ![c] = 0]
          /\ UNCHANGED <<now, sessions, issued, tokens, token, previousToken, tokenPending, live,
                         open, controller>>
      BY <2>5 DEF refusal, Return, Goto, relayVars, capabilityVars, controlVars
    <3> QED BY <1>0, <2>1, <2>2, <3>1, LinkMoves
  <2>6. CASE retire(c)
    <3>1. /\ Running(c) /\ pc[c] # "idle" /\ pc' = [pc EXCEPT ![c] = "retired"]
          /\ live' = [live EXCEPT ![c] = FALSE]
          /\ UNCHANGED <<now, sessions, issued, tokens, token, previousToken, tokenPending, hello, gen, open>>
      BY <2>6 DEF retire, Goto, Running, relayVars, capabilityVars
    <3>2. \A s \in Session : controller'[s] \in {controller[s], NoController}
      BY <2>2, <2>6 DEF retire
    <3> QED BY <1>0, <2>1, <2>2, <3>1, <3>2, LinkMoves
  <2>7. CASE detach(c)
    <3>1. /\ pc[c] # "idle" /\ pc' = [pc EXCEPT ![c] = "idle"] /\ hello' = [hello EXCEPT ![c] = NoHello]
          /\ gen' = [gen EXCEPT ![c] = 0]
          /\ UNCHANGED <<now, sessions, issued, tokens, token, previousToken, tokenPending, live,
                         open, controller>>
      BY <2>7 DEF detach, Return, Goto, relayVars, capabilityVars, controlVars
    <3> QED BY <1>0, <2>1, <2>2, <3>1, LinkMoves
  <2> QED BY <1>4, <2>3, <2>4, <2>5, <2>6, <2>7 DEF serverOpens
<1>5. ASSUME NEW c \in Conn, serverRefuses(c) PROVE LinkInv'
  <2>1. /\ pc[c] = "attached" /\ pc' = [pc EXCEPT ![c] = "refused"] /\ Answer(c, m)
        /\ UNCHANGED <<now, sessions, issued, tokens, token, previousToken, tokenPending, hello, gen, live,
                       open, controller, bearers, state, active, received, up, wire, dialed>>
    BY <1>5 DEF serverRefuses, openControlRefused, Goto, relayVars, capabilityVars, controlVars, clientVars
  <2>2. down' = down \/ (c = wire /\ down' = Append(down, m))
    BY <2>1 DEF Answer
  <2> HIDE DEF m
  <2> QED BY <1>0, <2>1, <2>2, LinkMoves
<1>6. ASSUME NEW c \in Conn, serverWelcome(c) PROVE LinkInv'
  BY <1>6, LinkWelcomes
<1>7. ASSUME NEW c \in Conn, serverPing(c) PROVE LinkInv'
  <2>1. CASE pingRotate(c)
    BY <1>7, <2>1, LinkPingRotates DEF serverPing
  <2>2. CASE pc[c] = "control" /\ Current(c) /\ UNCHANGED <<now, serverVars>>
    <3>1. Answer(c, Message("ping", token[hello[c].session], gen[c]))
      BY <1>7, <2>2 DEF serverPing, serverVars, capabilityVars
    <3> QED BY <1>7, <2>2, <3>1, LinkPingRepeats DEF serverPing
  <2> QED BY <1>7, <2>1, <2>2 DEF serverPing
<1>8. CASE selectFails \/ lost \/ restart
  <2>1. HangUp /\ now' = now /\ bearers' \in {bearers, Client!NoBearers}
    BY <1>8 DEF selectFails, lost, restart, Client!selectFails, Client!lost, Client!restart_retries,
       Client!fresh_session, Client!close
  <2> QED BY <2>1, LinkHangsUp
<1>9. CASE clientRefused
  <2>1. HangUp /\ now' = now /\ bearers' \in {bearers, Client!NoBearers}
    BY <1>9 DEF clientRefused, Client!refuse, Client!close
  <2> QED BY <2>1, LinkHangsUp
<1>10. CASE clientWelcome
  <2>1. down # <<>> /\ Grants(Head(down)) /\ Client!Ready' /\ active' = Head(down).gen
    BY <1>10 DEF clientWelcome, Kind, Grants, Client!welcome, Client!Ready
  <2>2. /\ Client!apply_capability(Head(down).bearer, 1) /\ received' = received \cup {Head(down).bearer}
        /\ down' = Tail(down) /\ now' = now /\ up' = up /\ UNCHANGED <<serverVars, wire, dialed>>
    BY <1>10 DEF clientWelcome, Client!welcome
  <2> QED BY <2>1, <2>2, LinkReceives
<1>11. CASE clientPing
  <2>1. down # <<>> /\ Grants(Head(down)) /\ Client!Ready
    BY <1>11 DEF clientPing, Kind, Grants, Client!ping
  <2>2. Head(down).gen = active
    <3>1. down \in Seq(Envelope) /\ DownInv
      BY DEF LinkInv, LinkTypes
    <3> QED BY <2>1, <3>1, Taken DEF DownInv
  <2>3. /\ Client!apply_capability(Head(down).bearer, 1) /\ received' = received \cup {Head(down).bearer}
        /\ down' = Tail(down) /\ now' = now /\ UNCHANGED <<serverVars, wire, dialed>>
        /\ up' = [up EXCEPT ![wire] = Append(@, Message("pong", Head(down).bearer, 0))]
        /\ state' = state /\ active' = active
    BY <1>11, <2>2 DEF clientPing, Client!ping, Send
  <2>4. Client!Ready'
    BY <2>1, <2>3 DEF Client!Ready
  <2> QED BY <2>1, <2>2, <2>3, <2>4, LinkReceives
<1> QED BY <1>1, <1>2, <1>3, <1>4, <1>5, <1>6, <1>7, <1>8, <1>9, <1>10, <1>11 DEF LinkNext

\* Every step of the joined system is a step of the relay or leaves the relay alone.
LEMMA LinkRelay == ASSUME IInv, LinkInv, [LinkNext]_allVars PROVE [Next]_vars
<1>1. UpInv /\ received \subseteq 1 .. issued /\ up \in [Conn -> Seq(Envelope)] /\ issued \in Nat
      /\ DOMAIN tokens \subseteq 1 .. issued
  BY DEF LinkInv, LinkTypes, IInv, TypeOK
<1>2. CASE UNCHANGED <<now, serverVars>>
  BY <1>2 DEF serverVars, vars
<1>3. ASSUME NEW c \in Conn, serverHello(c) PROVE Next
  <2> DEFINE t == Head(up[c]).bearer
  <2>1. up[c] \in Seq(Envelope) /\ up[c] # <<>> /\ Head(up[c]).kind = "hello"
    BY <1>1, <1>3 DEF serverHello, Kind
  <2>2. 1 \in DOMAIN up[c] /\ Head(up[c]) = up[c][1]
    BY <2>1, Taken
  <2>3. t \in received \cup {NoBearer}
    BY <1>1, <2>1, <2>2 DEF UpInv
  <2>4. t \in 0 .. issued /\ (t # NoBearer => t \in 1 .. issued)
    <3>1. t \in 1 .. issued \/ t = 0
      BY <1>1, <2>3 DEF NoBearer
    <3> HIDE DEF t
    <3> QED BY <1>1, <3>1 DEF NoBearer
  <2>5. PICK a \in Addr : \/ t # NoBearer /\ resumeSession(c, a, t)
                          \/ \E s \in Session : newWebSession(c, a, s)
                          \/ controlSessionRefused(c, a, t)
    BY <1>3 DEF serverHello
  <2> HIDE DEF t
  <2> QED BY <2>4, <2>5 DEF Next, ControlNext
<1>4. ASSUME NEW c \in Conn, serverPong(c) PROVE [Next]_vars
  <2> DEFINE t == Head(up[c]).bearer
  <2>1. CASE acknowledge(c, t)
    <3>1. t \in DOMAIN tokens
      BY <2>1, CurrentKnown DEF acknowledge
    <3> HIDE DEF t
    <3> QED BY <1>1, <2>1, <3>1 DEF Next, ControlNext
  <2> QED BY <1>2, <1>4, <2>1 DEF serverPong
<1>5. ASSUME NEW c \in Conn, serverOpens(c) \/ serverRefuses(c) \/ serverWelcome(c) PROVE Next
  BY <1>5 DEF serverOpens, serverRefuses, serverWelcome, Next, ControlNext
<1>6. ASSUME NEW c \in Conn, serverPing(c) PROVE [Next]_vars
  BY <1>2, <1>6 DEF serverPing, Next, ControlNext
<1>7. ASSUME NEW c \in Conn, dialFirst(c) \/ dialFallback(c) PROVE [Next]_vars
  <2>1. UNCHANGED <<now, serverVars>>
    BY <1>7 DEF dialFirst, dialFallback, Dial, Client!select, Client!fallback
  <2> QED BY <1>2, <2>1
<1>8. CASE selectFails \/ lost \/ restart \/ clientRefused
  <2>1. UNCHANGED <<now, serverVars>>
    BY <1>8 DEF selectFails, lost, restart, clientRefused, HangUp, Client!selectFails, Client!lost,
       Client!restart_retries, Client!fresh_session, Client!refuse
  <2> QED BY <1>2, <2>1
<1>9. CASE clientWelcome \/ clientPing
  <2>1. UNCHANGED <<now, serverVars>>
    BY <1>9 DEF clientWelcome, clientPing, Client!welcome, Client!ping
  <2> QED BY <1>2, <2>1
<1>10. CASE UNCHANGED allVars
  BY <1>2, <1>10 DEF allVars
<1> QED BY <1>3, <1>4, <1>5, <1>6, <1>7, <1>8, <1>9, <1>10 DEF LinkNext

\* The browser starts with no bearer and no connection.
LEMMA LinkStarts == ASSUME LinkInit PROVE Init /\ IInv /\ LinkInv
<1>1. Init
  BY DEF LinkInit
<1>2. IInv
  BY <1>1, InvInit
<1>3. /\ now = 0 /\ sessions = {} /\ issued = 0 /\ DOMAIN tokens = {}
      /\ \A s \in Session : token[s] = 0 /\ previousToken[s] = 0
      /\ \A c \in Conn : pc[c] = "idle"
  BY <1>1 DEF Init, NoBearer
<1>4. /\ bearers = Client!NoBearers /\ state = "offline" /\ wire = NoConn /\ dialed = {} /\ received = {}
      /\ up = [c \in Conn |-> <<>>] /\ down = <<>>
  BY DEF LinkInit, Client!Init
<1>5. bearers[1].token = 0 /\ bearers[2].token = 0 /\ Held = {} /\ Coming = {}
  BY <1>4 DEF Client!NoBearers, Client!NoToken, Held, Coming, NoBearer
<1>6. LinkTypes
  <2>1. bearers \in Client!Bearer \X Client!Bearer
    BY <1>4 DEF Client!NoBearers, Client!NoToken, Client!Bearer
  <2> QED BY <1>3, <1>4, <1>5, <2>1 DEF LinkTypes, NoBearer
<1>7. DownInv /\ UpInv
  BY <1>3, <1>4 DEF DownInv, UpInv
<1>8. AccountInv
  BY <1>3 DEF AccountInv, Running, NoBearer
<1>9. WireInv
  BY <1>4, LinkConstants DEF WireInv
<1>10. KeptInv /\ ConfirmedWasReceived
  BY <1>3, <1>4, <1>5 DEF KeptInv, Kept, ConfirmedWasReceived
<1> QED BY <1>1, <1>2, <1>6, <1>7, <1>8, <1>9, <1>10 DEF LinkInv

\* Nothing the invariant speaks of changes in a stuttering step.
LEMMA LinkStutters == ASSUME LinkInv, UNCHANGED allVars PROVE LinkInv'
<1>1. UNCHANGED <<now, sessions, issued, tokens, token, previousToken, tokenPending, pc, hello, gen, live,
                  controller, open, bearers, state, active, received, up, down, wire, dialed>>
  BY DEF allVars, serverVars, relayVars, capabilityVars, controlVars, handlerVars, linkVars, clientVars
<1>2. LinkTypes' /\ DownInv' /\ UpInv' /\ AccountInv' /\ ConfirmedWasReceived'
  BY <1>1 DEF LinkInv, LinkTypes, DownInv, UpInv, AccountInv, ConfirmedWasReceived, Held, Client!Ready, Running
<1>3. KeptInv'
  BY <1>1 DEF LinkInv, KeptInv, Held, Coming
<1>4. ASSUME NEW d \in Conn, d = wire PROVE WireFor(d)'
  <2>1. Current(d)' => Current(d)
    BY <1>1 DEF Current, Running
  <2>2. WireFor(d)
    BY <1>4 DEF LinkInv, WireInv
  <2> QED BY <1>1, <2>1, <2>2 DEF WireFor, Waiting, Mine, Held, Coming, Client!Ready
<1> QED BY <1>1, <1>2, <1>3, <1>4 DEF LinkInv, WireInv

\* The invariant of the relay and that of the link hold together in the joined system.
THEOREM LinkInvariant == LinkSpec => [](IInv /\ LinkInv)
<1>1. LinkInit => IInv /\ LinkInv
  BY LinkStarts
<1>2. IInv /\ LinkInv /\ [LinkNext]_allVars => (IInv /\ LinkInv)'
  BY LinkRelay, InvStep, LinkStep, LinkStutters
<1> QED BY <1>1, <1>2, PTL DEF LinkSpec

\* The relay of the joined system behaves as the relay alone does, with a Hello or a pong chosen
\* by what the browser has sent: everything proved of the relay holds of it.
THEOREM LinkImplementsRelay == LinkSpec => Spec
<1>1. LinkInit => Init
  BY LinkStarts
<1>2. IInv /\ LinkInv /\ [LinkNext]_allVars => [Next]_vars
  BY LinkRelay
<1> QED BY <1>1, <1>2, LinkInvariant, PTL DEF LinkSpec, Spec

\* For any number of connections, lost, delayed or overtaken: a bearer that the relay treats as
\* confirmed, so that its next keepalive may drop the one before it, has reached the browser.
THEOREM ConfirmedIsReceived == LinkSpec => []ConfirmedWasReceived
<1>1. LinkInv => ConfirmedWasReceived
  BY DEF LinkInv
<1> QED BY <1>1, LinkInvariant, PTL

\* Whatever handshakes are lost, repeated or reordered, one of the two bearers that the browser
\* holds is still in relay.tokens, and the browser presents the later of the two first.
THEOREM SomeBearerIsKept == LinkSpec => []SomeBearerKept
<1>1. LinkInv => SomeBearerKept
  BY DEF LinkInv, LinkTypes, KeptInv, Kept, SomeBearerKept
<1> QED BY <1>1, LinkInvariant, PTL

\* Of the relay's steps only a takeover by a Hello that presents the bearer before the confirmed
\* one drops the confirmed one, and such a Hello is not on the connection the browser is using.
LEMMA AcknowledgedStep ==
  ASSUME IInv, LinkInv, LinkNext, NEW s \in sessions, ~tokenPending[s], token[s] \in received,
         token[s] \notin DOMAIN tokens'
  PROVE  \E c \in Conn \ {wire} : /\ pc[c] = "attached" /\ pc'[c] = "greeting" /\ hello[c].session = s
                                  /\ hello[c].token < token[s]
<1> DEFINE k == token[s]
<1>1. LinkTypes /\ UpInv /\ AccountInv /\ WireInv /\ KeptInv
  BY DEF LinkInv
<1>2. /\ s \in Session /\ k \in Nat /\ previousToken[s] \in Nat /\ k # NoBearer /\ NoSession \notin Session
      /\ k \in DOMAIN tokens /\ tokens[k].session = s
      /\ \A t \in DOMAIN tokens : tokens[t].session = s => t \in {k, previousToken[s]}
      /\ pc \in [Conn -> Place] /\ issued \in Nat
  <2>1. /\ s \in Session /\ k \in Nat /\ previousToken[s] \in Nat
        /\ issued \in Nat /\ received \subseteq 1 .. issued
    BY <1>1 DEF IInv, TypeOK, LinkTypes
  <2>2. k # NoBearer
    BY <2>1 DEF NoBearer
  <2> QED BY <2>1, <2>2, RelayConstants DEF IInv, TypeOK, BearersExact
<1>3. tokens' # tokens
  BY <1>2
<1>4. Next
  <2>1. [Next]_vars
    BY LinkRelay
  <2> QED BY <1>3, <2>1 DEF vars, capabilityVars
<1>5. PICK c \in Conn : openControl(c) \/ pingRotate(c)
  <2>1. ASSUME NEW c \in Conn, dialFirst(c) \/ dialFallback(c) PROVE FALSE
    BY <1>3, <2>1 DEF dialFirst, dialFallback, Dial, serverVars, capabilityVars
  <2>2. ASSUME NEW c \in Conn, serverHello(c) PROVE FALSE
    BY <1>3, <2>2 DEF serverHello, resumeSession, newWebSession, controlSessionRefused, capabilityVars
  <2>3. ASSUME NEW c \in Conn, serverPong(c) PROVE FALSE
    BY <1>3, <2>3 DEF serverPong, acknowledge, serverVars, capabilityVars
  <2>4. ASSUME NEW c \in Conn, serverOpens(c) PROVE openControl(c)
    BY <1>3, <2>4 DEF serverOpens, attach, refusal, retire, detach, capabilityVars
  <2>5. ASSUME NEW c \in Conn, serverRefuses(c) \/ serverWelcome(c) PROVE FALSE
    BY <1>3, <2>5 DEF serverRefuses, openControlRefused, serverWelcome, welcome, capabilityVars
  <2>6. ASSUME NEW c \in Conn, serverPing(c) PROVE pingRotate(c)
    BY <1>3, <2>6 DEF serverPing, serverVars, capabilityVars
  <2>7. ~(selectFails \/ lost \/ restart \/ clientWelcome \/ clientRefused \/ clientPing)
    BY <1>3 DEF selectFails, lost, restart, clientWelcome, clientRefused, clientPing, HangUp, serverVars,
       capabilityVars
  <2> QED BY <2>1, <2>2, <2>3, <2>4, <2>5, <2>6, <2>7 DEF LinkNext
<1>6. PICK r, at : rotateLocked(hello[c].session, r, at) /\ hello[c].session \in sessions
                   /\ (openControl(c) => r = hello[c].token)
                   /\ (pingRotate(c) => r = token[hello[c].session])
  <2>1. CASE openControl(c)
    <3>1. ~pingRotate(c)
      BY <2>1 DEF openControl, pingRotate
    <3>2. rotateLocked(hello[c].session, hello[c].token, hello[c].now) /\ hello[c].session \in sessions
      BY <2>1 DEF openControl, TakeoverRefused
    <3> QED BY <3>1, <3>2
  <2>2. CASE pingRotate(c)
    <3>1. ~openControl(c)
      BY <2>2 DEF openControl, pingRotate
    <3>2. rotateLocked(hello[c].session, token[hello[c].session], now) /\ Current(c)
      BY <2>2 DEF pingRotate
    <3> QED BY <3>1, <3>2, CurrentKnown
  <2> QED BY <1>5, <2>1, <2>2
<1>7. hello[c].session = s /\ r # k
  <2>1. k \in {token[hello[c].session], previousToken[hello[c].session]} /\ k # r
    BY <1>2, <1>6 DEF rotateLocked
  <2> QED BY <1>2, <1>6, <2>1 DEF IInv, BearersExact
<1>8. openControl(c) /\ r = hello[c].token
  BY <1>5, <1>6, <1>7
<1>9. /\ pc[c] = "attached" /\ pc' = [pc EXCEPT ![c] = "greeting"]
      /\ r # NoBearer => resumeLocked(r, hello[c].now) = s
  BY <1>7, <1>8 DEF openControl, TakeoverRefused, Goto
<1>10. r # NoBearer
  BY <1>1, <1>2, <1>7, <1>8, <1>9 DEF AccountInv
<1>11. r \in DOMAIN tokens /\ tokens[r].session = s
  BY <1>2, <1>9, <1>10 DEF resumeLocked
<1>12. r = previousToken[s] /\ r < k
  <2>1. r = previousToken[s]
    BY <1>2, <1>7, <1>11
  <2> QED BY <1>1, <1>2, <2>1 DEF AccountInv
<1>13. c # wire
  <2> SUFFICES ASSUME c = wire PROVE FALSE
    OBVIOUS
  <2>1. r = bearers[1].token
    BY <1>1, <1>8, <1>9 DEF WireInv, WireFor
  <2>2. r \in Held
    BY <1>10, <2>1 DEF Held
  <2>3. k \in Held
    BY <1>1, <1>2, <1>11, <2>2 DEF KeptInv, Kept
  <2>4. k <= bearers[1].token
    BY <1>1, <1>2, <1>12, <2>1, <2>3 DEF LinkTypes, Held
  <2> QED BY <1>2, <1>12, <2>1, <2>4
<1> QED BY <1>2, <1>7, <1>8, <1>9, <1>12, <1>13

\* No step drops the bearer that the browser has confirmed and the relay has not replaced, except
\* the takeover by a late Hello of a connection that the browser has given up.
THEOREM AcknowledgedIsKept == LinkSpec => AcknowledgedBearerKept
<1> DEFINE A == \A s \in sessions : ~tokenPending[s] /\ token[s] \in received =>
                   \/ token[s] \in DOMAIN tokens'
                   \/ \E c \in Conn \ {wire} : pc[c] = "attached" /\ pc'[c] = "greeting"
                         /\ hello[c].session = s /\ hello[c].token < token[s]
<1>1. IInv /\ LinkInv /\ LinkNext => A
  BY AcknowledgedStep
<1>2. IInv /\ LinkInv /\ [LinkNext]_allVars => [A]_allVars
  BY <1>1
<1> HIDE DEF A
<1>3. LinkSpec => [][A]_allVars
  BY <1>2, LinkInvariant, PTL DEF LinkSpec
<1> QED BY <1>3 DEF A, AcknowledgedBearerKept
=============================================================================
