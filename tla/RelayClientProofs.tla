------------------------- MODULE RelayClientProofs -------------------------
(***************************************************************************)
(* Proofs about RelayClient: for every bound on the retries, the clock and *)
(* what a relay answers, the browser never replaces its account silently   *)
(* and never dials again after a refusal.                                  *)
(***************************************************************************)
EXTENDS RelayClient, TLAPS

\* The backoff factor of any number of attempts is a natural number.
LEMMA DelayType == ASSUME NEW n \in Nat PROVE Delay(n) \in Nat
<1>1. CASE n >= 4
  BY <1>1 DEF Delay
<1>2. CASE ~(n >= 4)
  <2>1. n \in {0, 1, 2, 3}
    BY <1>2
  <2>2. QED
    BY <2>1 DEF Delay
<1>3. QED
  BY <1>1, <1>2

\* The bearer to present is one of the two held.
LEMMA ResumeType ==
  ASSUME bearers \in Bearer \X Bearer, NEW at
  PROVE  resume(at) \in Nat /\ (resume(at) # NoToken => Known # {})
<1>1. bearers[1] \in Bearer /\ bearers[2] \in Bearer
  OBVIOUS
<1>2. QED
  BY <1>1 DEF resume, Known, Bearer, NoToken

\* A new observation leaves two bearers of the right type, one of them known.
LEMMA ApplyType ==
  ASSUME bearers \in Bearer \X Bearer, clock \in Nat, NEW t \in Nat \ {0}, NEW n \in Nat,
         apply_capability(t, n)
  PROVE  bearers' \in Bearer \X Bearer /\ Known' # {}
<1>1. bearers[1] \in Bearer /\ bearers[2] \in Bearer /\ NoToken = 0
  BY DEF NoToken
<1>2. CASE \E b \in Known : b.token = t
  <2>1. bearers' = bearers
    BY <1>2 DEF apply_capability
  <2>2. QED
    BY <1>2, <2>1 DEF Known
<1>3. CASE ~\E b \in Known : b.token = t
  <2> DEFINE fresh == [token |-> t, expires |-> clock + n]
  <2>1. bearers' = <<fresh, bearers[1]>>
    BY <1>3 DEF apply_capability
  <2>2. fresh \in Bearer /\ fresh.token # NoToken
    BY <1>1 DEF Bearer
  <2>3. bearers'[1] = fresh
    BY <2>1
  <2>4. fresh \in Known'
    BY <2>2, <2>3 DEF Known
  <2>5. QED
    BY <1>1, <2>1, <2>2, <2>4
<1>4. QED
  BY <1>2, <1>3

\* Session::new is typed and holds no account.
LEMMA InitIInv == ASSUME Init, ClientConstants PROVE IInv
<1>1. NoBearers \in Bearer \X Bearer
  BY DEF NoBearers, Bearer, NoToken
<1>2. 0 \in 0 .. RECONNECT_ATTEMPTS
  BY DEF ClientConstants
<1>3. TypeOK
  BY <1>1, <1>2 DEF Init, TypeOK, Ready, NoToken, Operation, Code
<1>4. QED
  BY <1>3 DEF Init, IInv, AccountRemembered, NoSilentFreshAccount, RefusalEndsSelection

\* A handshake begins with the account's bearer, or with none if the session never had one, or
\* it is refused on the spot.
LEMMA HandshakeIInv ==
  ASSUME IInv, NEW transport \in {"quic", "socket"}, handshake(transport),
         state \in {"offline", "connecting"}, attempts' \in 0 .. RECONNECT_ATTEMPTS,
         retryAt' \in Nat, UNCHANGED <<clock, desired, join, resumed>>
  PROVE  IInv'
<1>1. refusalCode = "none" /\ active = 0
  BY DEF IInv, RefusalEndsSelection, TypeOK, Ready
<1>2. resume(clock) \in Nat
  BY ResumeType DEF IInv, TypeOK
<1>3. NoBearers \in Bearer \X Bearer /\ NoToken = 0
  BY DEF NoBearers, Bearer, NoToken
<1>4. CASE resume(clock) = NoToken /\ Known # {}
  <2>1. refusalCode' = "resume" /\ close("refused")
    BY <1>4 DEF handshake
  <2>2. QED
    BY <1>1, <1>3, <2>1 DEF close, IInv, TypeOK, AccountRemembered, NoSilentFreshAccount,
                            RefusalEndsSelection, Ready, Code
<1>5. CASE ~(resume(clock) = NoToken /\ Known # {})
  <2>1. /\ state' = "connecting" /\ candidate' = transport /\ presented' = resume(clock)
        /\ UNCHANGED <<active, bearers, refusalCode>>
    BY <1>5 DEF handshake
  <2>2. resume(clock) = NoToken => ~resumed
    BY <1>5 DEF IInv, AccountRemembered
  <2>3. AccountRemembered' /\ NoSilentFreshAccount' /\ RefusalEndsSelection'
    BY <1>1, <2>1, <2>2 DEF IInv, AccountRemembered, NoSilentFreshAccount, RefusalEndsSelection, Known
  <2>4. TypeOK'
    BY <1>1, <1>2, <2>1 DEF IInv, TypeOK, Ready
  <2>5. QED
    BY <2>3, <2>4 DEF IInv
<1>6. QED
  BY <1>4, <1>5

\* Closing the session for any other reason keeps the account, and a refusal is final.
LEMMA CloseIInv ==
  ASSUME IInv, NEW reason \in {"transport", "protocol", "cancelled"}, close(reason),
         UNCHANGED <<clock, desired, attempts, retryAt, resumed, refusalCode>>, join' \in Nat
  PROVE  IInv'
<1>1. bearers' = bearers /\ candidate' = "none" /\ presented' = NoToken /\ active' = 0
  BY DEF close
<1>2. state' \in {"closed", "refused", "offline"}
  BY DEF close
<1>3. state \in {"refused", "closed"} => state' = "closed" \/ state' = state
  BY DEF close
<1>4. TypeOK'
  BY <1>1, <1>2 DEF IInv, TypeOK, Ready, NoToken
<1>5. AccountRemembered' /\ NoSilentFreshAccount' /\ RefusalEndsSelection'
  BY <1>1, <1>2, <1>3 DEF IInv, AccountRemembered, NoSilentFreshAccount, RefusalEndsSelection, Known
<1>6. QED
  BY <1>4, <1>5 DEF IInv

\* The steps of a selection.
LEMMA SelectIInv == ASSUME IInv, ClientConstants, SelectNext PROVE IInv'
<1>1. CASE \E transport \in {"quic", "socket"}, jitter \in 0 .. MaxJitter : select(transport, jitter)
  <2>1. PICK transport \in {"quic", "socket"}, jitter \in 0 .. MaxJitter : select(transport, jitter)
    BY <1>1
  <2>2. Delay(attempts) \in Nat
    BY DelayType DEF IInv, TypeOK
  <2>3. BackoffUnit * Delay(attempts) \in Nat
    BY <2>2 DEF ClientConstants
  <2>4. retryAt' \in Nat
    BY <2>1, <2>3 DEF select, IInv, TypeOK, ClientConstants
  <2>5. attempts' \in 0 .. RECONNECT_ATTEMPTS
    BY <2>1 DEF select, IInv, TypeOK, ClientConstants
  <2>6. QED
    BY <2>1, <2>4, <2>5, HandshakeIInv DEF select
<1>2. CASE fallback
  BY <1>2, HandshakeIInv DEF fallback, IInv, TypeOK
<1>3. CASE selectFails
  BY <1>3, CloseIInv DEF selectFails, IInv, TypeOK
<1>4. CASE \E t \in 1 .. MaxToken, g \in 1 .. MaxGeneration, n \in 0 .. Lifetime : welcome(t, g, n)
  <2>1. PICK t \in 1 .. MaxToken, g \in 1 .. MaxGeneration, n \in 0 .. Lifetime : welcome(t, g, n)
    BY <1>4
  <2>2. bearers' \in Bearer \X Bearer /\ Known' # {}
    <3>1. t \in Nat \ {0} /\ n \in Nat
      BY DEF ClientConstants
    <3>2. QED
      BY <2>1, <3>1, ApplyType DEF welcome, IInv, TypeOK
  <2>3. g \in Nat /\ g # 0
    BY DEF ClientConstants
  <2>4. refusalCode = "none"
    BY <2>1 DEF welcome, IInv, RefusalEndsSelection
  <2>5. TypeOK'
    BY <2>1, <2>2, <2>3 DEF welcome, IInv, TypeOK, Ready, NoToken, ClientConstants
  <2>6. QED
    BY <2>1, <2>2, <2>4, <2>5 DEF welcome, IInv, AccountRemembered, NoSilentFreshAccount,
                                  RefusalEndsSelection
<1>5. CASE \E code \in Code : refuse(code)
  <2>1. PICK code \in Code : refuse(code)
    BY <1>5
  <2>2. NoBearers \in Bearer \X Bearer /\ NoToken = 0
    BY DEF NoBearers, Bearer, NoToken
  <2>3. state = "connecting"
    BY <2>1 DEF refuse, IInv, TypeOK
  <2>4. /\ state' = "refused" /\ refusalCode' = code /\ candidate' = "none" /\ presented' = NoToken
        /\ active' = 0 /\ bearers' = IF code = "resume" THEN NoBearers ELSE bearers
    BY <2>1, <2>3 DEF refuse, close
  <2>5. TypeOK'
    BY <2>1, <2>2, <2>4 DEF refuse, IInv, TypeOK, Ready
  <2>6. AccountRemembered' /\ NoSilentFreshAccount' /\ RefusalEndsSelection'
    BY <2>1, <2>3, <2>4 DEF refuse, IInv, AccountRemembered, NoSilentFreshAccount, RefusalEndsSelection, Known
  <2>7. QED
    BY <2>5, <2>6 DEF IInv
<1>6. QED
  BY <1>1, <1>2, <1>3, <1>4, <1>5 DEF SelectNext

\* The steps of a ready controller.
LEMMA ReadyIInv == ASSUME IInv, ClientConstants, ReadyNext PROVE IInv'
<1>1. CASE \E t \in 1 .. MaxToken, g \in 1 .. MaxGeneration, n \in 0 .. Lifetime : ping(t, g, n)
  <2>1. PICK t \in 1 .. MaxToken, g \in 1 .. MaxGeneration, n \in 0 .. Lifetime : ping(t, g, n)
    BY <1>1
  <2>2. CASE g = active
    <3>1. /\ apply_capability(t, n) /\ UNCHANGED <<state, active, refusalCode, candidate, presented>>
          /\ UNCHANGED <<clock, desired, attempts, retryAt, join, resumed>>
      BY <2>1, <2>2 DEF ping
    <3>2. bearers' \in Bearer \X Bearer /\ Known' # {}
      <4>1. t \in Nat \ {0} /\ n \in Nat
        BY DEF ClientConstants
      <4>2. QED
        BY <3>1, <4>1, ApplyType DEF IInv, TypeOK
    <3>3. TypeOK'
      BY <3>1, <3>2 DEF IInv, TypeOK, Ready
    <3>4. QED
      BY <3>1, <3>2, <3>3 DEF IInv, AccountRemembered, NoSilentFreshAccount, RefusalEndsSelection
  <2>3. CASE g # active
    BY <2>1, <2>3, CloseIInv DEF ping, IInv, TypeOK
  <2>4. QED
    BY <2>2, <2>3
<1>2. CASE \E op \in Operation : desire_account(op)
  BY <1>2 DEF desire_account, IInv, TypeOK, Ready, AccountRemembered, NoSilentFreshAccount,
              RefusalEndsSelection, Known
<1>3. CASE flush_account
  <2>1. CASE desired' = "none" /\ UNCHANGED <<state, active, bearers, refusalCode, candidate, presented>>
    BY <1>3, <2>1 DEF flush_account, IInv, TypeOK, Ready, AccountRemembered, NoSilentFreshAccount,
                      RefusalEndsSelection, Known
  <2>2. CASE refusalCode' = refusalCode /\ close("transport") /\ UNCHANGED desired
    BY <1>3, <2>2, CloseIInv DEF flush_account, IInv, TypeOK
  <2>3. QED
    BY <1>3, <2>1, <2>2 DEF flush_account
<1>4. CASE open_play
  <2>1. join' \in Nat
    BY <1>4 DEF open_play, IInv, TypeOK
  <2>2. CASE state' = "playing" /\ UNCHANGED <<active, bearers, refusalCode, candidate, presented>>
    BY <1>4, <2>1, <2>2 DEF open_play, IInv, TypeOK, Ready, AccountRemembered, NoSilentFreshAccount,
                            RefusalEndsSelection, Known
  <2>3. CASE refusalCode' = refusalCode /\ close("transport")
    BY <1>4, <2>1, <2>3, CloseIInv DEF open_play
  <2>4. QED
    BY <1>4, <2>2, <2>3 DEF open_play
<1>5. CASE finish_play
  BY <1>5 DEF finish_play, IInv, TypeOK, Ready, AccountRemembered, NoSilentFreshAccount,
              RefusalEndsSelection, Known
<1>6. QED
  BY <1>1, <1>2, <1>3, <1>4, <1>5 DEF ReadyNext

\* The steps of the host.
LEMMA HostIInv == ASSUME IInv, ClientConstants, HostNext PROVE IInv'
<1>1. CASE lost
  BY <1>1, CloseIInv DEF lost, IInv, TypeOK
<1>2. CASE cancel
  BY <1>2, CloseIInv DEF cancel, IInv, TypeOK
<1>3. CASE fresh_session
  <2>1. NoBearers \in Bearer \X Bearer
    BY DEF NoBearers, Bearer, NoToken
  <2>2. 0 \in 0 .. RECONNECT_ATTEMPTS
    BY DEF ClientConstants
  <2>3. TypeOK'
    BY <1>3, <2>1, <2>2 DEF fresh_session, IInv, TypeOK, Ready, NoToken, Operation, Code
  <2>4. QED
    BY <1>3, <2>3 DEF fresh_session, IInv, AccountRemembered, NoSilentFreshAccount, RefusalEndsSelection
<1>4. CASE restart_retries
  BY <1>4 DEF restart_retries, IInv, TypeOK, AccountRemembered, NoSilentFreshAccount,
              RefusalEndsSelection, Ready, Code, Known, ClientConstants
<1>5. CASE Tick
  BY <1>5 DEF Tick, clientVars, IInv, TypeOK, AccountRemembered, NoSilentFreshAccount,
              RefusalEndsSelection, Ready, Known
<1>6. QED
  BY <1>1, <1>2, <1>3, <1>4, <1>5 DEF HostNext

\* Every reachable state of the session satisfies the inductive invariant: no operation of the
\* host, and no answer of a relay, leads out of it.
THEOREM ClientInvariant == Spec => []IInv
<1>1. Init => IInv
  BY InitIInv, ClientConstants
<1>2. IInv /\ [Next]_vars => IInv'
  <2> SUFFICES ASSUME IInv, [Next]_vars PROVE IInv'
    OBVIOUS
  <2>1. CASE Next
    BY <2>1, SelectIInv, ReadyIInv, HostIInv, ClientConstants DEF Next
  <2>2. CASE UNCHANGED vars
    BY <2>2 DEF vars, clientVars, IInv, TypeOK, AccountRemembered, NoSilentFreshAccount,
                RefusalEndsSelection, Ready, Known
  <2>3. QED
    BY <2>1, <2>2
<1>3. QED
  BY <1>1, <1>2, PTL DEF Spec

\* The fields of Session keep their types, and a generation goes with a ready controller.
THEOREM ClientTypeCorrect == Spec => []TypeOK
<1>1. IInv => TypeOK
  BY DEF IInv
<1>2. QED
  BY <1>1, ClientInvariant, PTL

\* However handshakes fail, expire, are retried or refused, a session that has held an account's
\* bearer never sends a Hello without one (handshake, close, restart_retries).
THEOREM FreshAccountIsDeliberate == Spec => []NoSilentFreshAccount
<1>1. IInv => NoSilentFreshAccount
  BY DEF IInv
<1>2. QED
  BY <1>1, ClientInvariant, PTL

\* A refusal is never followed by a handshake on another transport (select, close).
THEOREM RefusalIsFinal == Spec => []RefusalEndsSelection
<1>1. IInv => RefusalEndsSelection
  BY DEF IInv
<1>2. QED
  BY <1>1, ClientInvariant, PTL
=============================================================================
