------------------------ MODULE RelayAdmissionProofs ------------------------
(***************************************************************************)
(* Proofs about RelayAdmission, for every number of connections and        *)
(* addresses and every limit: a slot is counted exactly while its          *)
(* connection has an owner, the accounts are erased only after the last    *)
(* handler, and the guard of the initial Hello spares what is ready.       *)
(***************************************************************************)
EXTENDS RelayAdmission, FiniteSetTheorems, TLAPS

One(b) == IF b THEN 1 ELSE 0

TransportOwns(c) == transport[c] \in {"open", "closing"}
WorkerOwns(c) == worker[c] \in {"running", "ending"}
HandlerOwns(c) == handler[c] \in {"running", "ending"}

\* connectionAdmission.refs is the number of owners, the slot is released when there is none,
\* and closed is the state of the transport, which is there from admit on.
OwnersInv ==
    \A c \in Conn :
        /\ refs[c] = One(TransportOwns(c)) + One(WorkerOwns(c)) + One(HandlerOwns(c))
        /\ last[c] => refs[c] = 0
        /\ closed[c] <=> transport[c] \in {"closing", "done"}
        /\ kind[c] = "none" => /\ transport[c] = "none" /\ worker[c] = "none"
                               /\ handler[c] = "none" /\ ~last[c]
        /\ kind[c] # "none" => transport[c] # "none"

\* The callback cuts for the deadline or the end of the connection, and neither goes away.
GuardInv ==
    \A c \in Conn : guard[c] = "cut" => /\ late[c] \/ ended[c]
                                        /\ ~ended[c] => ~ready[c]

\* Relay.Close has seen every slot come back, and none is given out again.
EraseInv == erased => ~open /\ active = 0

\* The types but for the limits, which follow from the counting.
Types ==
    /\ open \in BOOLEAN /\ erased \in BOOLEAN
    /\ active \in Int /\ active <= maxSessions
    /\ connections \in [Addr -> Int] /\ \A a \in Addr : connections[a] <= maxPerIP
    /\ kind \in [Conn -> {"none", "tcp", "quic"}] /\ client \in [Conn -> Addr \cup {NoAddr}]
    /\ \A c \in Conn : client[c] = NoAddr <=> kind[c] = "none"
    /\ refs \in [Conn -> Int] /\ closed \in [Conn -> BOOLEAN] /\ last \in [Conn -> BOOLEAN]
    /\ transport \in [Conn -> {"none", "open", "closing", "done"}]
    /\ worker \in [Conn -> Owner] /\ handler \in [Conn -> Owner]
    /\ ended \in [Conn -> BOOLEAN] /\ upgraded \in [Conn -> BOOLEAN]
    /\ claimed \in [Conn -> BOOLEAN] /\ ready \in [Conn -> BOOLEAN] /\ late \in [Conn -> BOOLEAN]
    /\ guard \in [Conn -> {"off", "armed", "cut", "done"}]

\* The connections that hold a slot, and those of one address.
Slots == {c \in Conn : Owned(c) \/ last[c]}
SlotsOf(a) == {c \in Slots : client[c] = a}

IInv == Types /\ OwnersInv /\ GuardInv /\ SlotsExact /\ EraseInv

----------------------------------------------------------------------------
\* Every step keeps the types.
LEMMA TypesStep == ASSUME Types, OwnersInv, Next PROVE Types'
<1> USE AdmissionConstants DEF Types, Set, Conn, Owner, relayVars, ownVars, quicVars
<1>1. ASSUME NEW c \in TCP, NEW a \in Addr, admit(c, a, "tcp") PROVE Types'
  BY <1>1 DEF admit
<1>2. ASSUME NEW c \in QUIC, NEW a \in Addr, admit(c, a, "quic") PROVE Types'
  BY <1>2 DEF admit
<1>3. ASSUME NEW c \in Conn, release(c) PROVE Types'
  <2>1. client[c] \in Addr
    BY <1>3 DEF release, OwnersInv
  <2>2. /\ active' \in Int /\ active' <= maxSessions
        /\ connections' \in [Addr -> Int] /\ \A a \in Addr : connections'[a] <= maxPerIP
    BY <1>3, <2>1 DEF release
  <2> QED BY <1>3, <2>2 DEF release
<1>4. ASSUME NEW c \in Conn, close(c) PROVE Types'
  BY <1>4 DEF close
<1>5. ASSUME NEW c \in Conn, dropTransport(c) PROVE Types'
  BY <1>5 DEF dropTransport, drop
<1>6. ASSUME NEW c \in Conn, retainWorker(c) PROVE Types'
  <2>1. CASE ~closed[c]
    <3>1. guard' \in [Conn -> {"off", "armed", "cut", "done"}]
      BY <1>6, <2>1 DEF retainWorker
    <3>2. refs' \in [Conn -> Int] /\ worker' \in [Conn -> Owner]
      BY <1>6, <2>1 DEF retainWorker
    <3>3. UNCHANGED <<relayVars, kind, client, closed, last, transport, handler, upgraded, claimed,
                      ready, late, ended>>
      BY <1>6, <2>1 DEF retainWorker
    <3> QED BY <3>1, <3>2, <3>3
  <2>2. CASE closed[c]
    <3>1. worker' \in [Conn -> Owner]
      BY <1>6, <2>2 DEF retainWorker
    <3>2. ended' = [ended EXCEPT ![c] = TRUE]
      BY <1>6, <2>2 DEF retainWorker
    <3>3. UNCHANGED <<relayVars, kind, client, refs, closed, last, transport, handler, upgraded, claimed,
                      ready, late, guard>>
      BY <1>6, <2>2 DEF retainWorker
    <3> QED BY <3>1, <3>2, <3>3
  <2> QED BY <2>1, <2>2
<1>7. ASSUME NEW c \in Conn, neverServed(c) PROVE Types'
  BY <1>7 DEF neverServed
<1>8. ASSUME NEW c \in Conn, connEnds(c) PROVE Types'
  BY <1>8 DEF connEnds
<1>9. ASSUME NEW c \in Conn, workerEnds(c) PROVE Types'
  BY <1>9 DEF workerEnds
<1>10. ASSUME NEW c \in Conn, dropWorker(c) PROVE Types'
  BY <1>10 DEF dropWorker, drop
<1>11. ASSUME NEW c \in Conn, retainHandler(c) PROVE Types'
  BY <1>11 DEF retainHandler
<1>12. ASSUME NEW c \in Conn, upgrade(c) PROVE Types'
  BY <1>12 DEF upgrade, drop
<1>13. ASSUME NEW c \in Conn, establish(c) PROVE Types'
  BY <1>13 DEF establish
<1>14. ASSUME NEW c \in Conn, handlerEnds(c) PROVE Types'
  BY <1>14 DEF handlerEnds
<1>15. ASSUME NEW c \in Conn, dropHandler(c) PROVE Types'
  BY <1>15 DEF dropHandler, drop
<1>16. ASSUME NEW c \in Conn, deadlinePasses(c) PROVE Types'
  BY <1>16 DEF deadlinePasses
<1>17. ASSUME NEW c \in Conn, guardFires(c) PROVE Types'
  BY <1>17 DEF guardFires
<1>18. ASSUME NEW c \in Conn, guardCuts(c) PROVE Types'
  BY <1>18 DEF guardCuts
<1>19. CASE cancel
  BY <1>19 DEF cancel
<1>20. CASE Close
  BY <1>20 DEF Close
<1> QED BY <1>1, <1>2, <1>3, <1>4, <1>5, <1>6, <1>7, <1>8, <1>9, <1>10, <1>11, <1>12, <1>13,
           <1>14, <1>15, <1>16, <1>17, <1>18, <1>19, <1>20 DEF Next

\* Owners come and go one by one, and the last to go is the one that releases.
LEMMA OwnersStep == ASSUME Types, OwnersInv, Next PROVE OwnersInv'
<1> USE AdmissionConstants DEF Types, OwnersInv, One, TransportOwns, WorkerOwns, HandlerOwns, Set, Conn,
        Owner, relayVars, ownVars, quicVars
<1>1. ASSUME NEW c \in TCP, NEW a \in Addr, admit(c, a, "tcp") PROVE OwnersInv'
  BY <1>1 DEF admit
<1>2. ASSUME NEW c \in QUIC, NEW a \in Addr, admit(c, a, "quic") PROVE OwnersInv'
  BY <1>2 DEF admit
<1>3. ASSUME NEW c \in Conn, release(c) PROVE OwnersInv'
  BY <1>3 DEF release
<1>4. ASSUME NEW c \in Conn, close(c) PROVE OwnersInv'
  BY <1>4 DEF close
<1>5. ASSUME NEW c \in Conn, dropTransport(c) PROVE OwnersInv'
  BY <1>5 DEF dropTransport, drop
<1>6. ASSUME NEW c \in Conn, retainWorker(c) PROVE OwnersInv'
  BY <1>6 DEF retainWorker
<1>7. ASSUME NEW c \in Conn, neverServed(c) PROVE OwnersInv'
  BY <1>7 DEF neverServed
<1>8. ASSUME NEW c \in Conn, connEnds(c) PROVE OwnersInv'
  BY <1>8 DEF connEnds
<1>9. ASSUME NEW c \in Conn, workerEnds(c) PROVE OwnersInv'
  BY <1>9 DEF workerEnds
<1>10. ASSUME NEW c \in Conn, dropWorker(c) PROVE OwnersInv'
  BY <1>10 DEF dropWorker, drop
<1>11. ASSUME NEW c \in Conn, retainHandler(c) PROVE OwnersInv'
  BY <1>11 DEF retainHandler
<1>12. ASSUME NEW c \in Conn, upgrade(c) PROVE OwnersInv'
  BY <1>12 DEF upgrade, drop
<1>13. ASSUME NEW c \in Conn, establish(c) PROVE OwnersInv'
  BY <1>13 DEF establish
<1>14. ASSUME NEW c \in Conn, handlerEnds(c) PROVE OwnersInv'
  BY <1>14 DEF handlerEnds
<1>15. ASSUME NEW c \in Conn, dropHandler(c) PROVE OwnersInv'
  BY <1>15 DEF dropHandler, drop
<1>16. ASSUME NEW c \in Conn, deadlinePasses(c) PROVE OwnersInv'
  BY <1>16 DEF deadlinePasses
<1>17. ASSUME NEW c \in Conn, guardFires(c) PROVE OwnersInv'
  BY <1>17 DEF guardFires
<1>18. ASSUME NEW c \in Conn, guardCuts(c) PROVE OwnersInv'
  BY <1>18 DEF guardCuts
<1>19. CASE cancel
  BY <1>19 DEF cancel
<1>20. CASE Close
  BY <1>20 DEF Close
<1> QED BY <1>1, <1>2, <1>3, <1>4, <1>5, <1>6, <1>7, <1>8, <1>9, <1>10, <1>11, <1>12, <1>13,
           <1>14, <1>15, <1>16, <1>17, <1>18, <1>19, <1>20 DEF Next

\* establish asks for the deadline that the guard has acted on.
LEMMA GuardStep == ASSUME Types, GuardInv, Next PROVE GuardInv'
<1> USE AdmissionConstants DEF Types, GuardInv, Set, Conn, relayVars, ownVars, quicVars
<1>1. ASSUME NEW c \in TCP, NEW a \in Addr, admit(c, a, "tcp") PROVE GuardInv'
  BY <1>1 DEF admit
<1>2. ASSUME NEW c \in QUIC, NEW a \in Addr, admit(c, a, "quic") PROVE GuardInv'
  BY <1>2 DEF admit
<1>3. ASSUME NEW c \in Conn, release(c) PROVE GuardInv'
  BY <1>3 DEF release
<1>4. ASSUME NEW c \in Conn, close(c) PROVE GuardInv'
  BY <1>4 DEF close
<1>5. ASSUME NEW c \in Conn, dropTransport(c) PROVE GuardInv'
  BY <1>5 DEF dropTransport, drop
<1>6. ASSUME NEW c \in Conn, retainWorker(c) PROVE GuardInv'
  BY <1>6 DEF retainWorker
<1>7. ASSUME NEW c \in Conn, neverServed(c) PROVE GuardInv'
  BY <1>7 DEF neverServed
<1>8. ASSUME NEW c \in Conn, connEnds(c) PROVE GuardInv'
  BY <1>8 DEF connEnds
<1>9. ASSUME NEW c \in Conn, workerEnds(c) PROVE GuardInv'
  BY <1>9 DEF workerEnds
<1>10. ASSUME NEW c \in Conn, dropWorker(c) PROVE GuardInv'
  BY <1>10 DEF dropWorker, drop
<1>11. ASSUME NEW c \in Conn, retainHandler(c) PROVE GuardInv'
  BY <1>11 DEF retainHandler
<1>12. ASSUME NEW c \in Conn, upgrade(c) PROVE GuardInv'
  BY <1>12 DEF upgrade, drop
<1>13. ASSUME NEW c \in Conn, establish(c) PROVE GuardInv'
  BY <1>13 DEF establish
<1>14. ASSUME NEW c \in Conn, handlerEnds(c) PROVE GuardInv'
  BY <1>14 DEF handlerEnds
<1>15. ASSUME NEW c \in Conn, dropHandler(c) PROVE GuardInv'
  BY <1>15 DEF dropHandler, drop
<1>16. ASSUME NEW c \in Conn, deadlinePasses(c) PROVE GuardInv'
  BY <1>16 DEF deadlinePasses
<1>17. ASSUME NEW c \in Conn, guardFires(c) PROVE GuardInv'
  BY <1>17 DEF guardFires
<1>18. ASSUME NEW c \in Conn, guardCuts(c) PROVE GuardInv'
  BY <1>18 DEF guardCuts
<1>19. CASE cancel
  BY <1>19 DEF cancel
<1>20. CASE Close
  BY <1>20 DEF Close
<1> QED BY <1>1, <1>2, <1>3, <1>4, <1>5, <1>6, <1>7, <1>8, <1>9, <1>10, <1>11, <1>12, <1>13,
           <1>14, <1>15, <1>16, <1>17, <1>18, <1>19, <1>20 DEF Next

----------------------------------------------------------------------------
\* What no step of an owner changes: who holds a slot, and the counts.
SlotsSame == Slots' = Slots /\ UNCHANGED <<active, connections, client>>

\* Between admit and release no step gives a slot to a connection or takes one away: an owner
\* joins another, or leaves the slot to the rest or to its own release.
LEMMA SlotsKept ==
  ASSUME Types, OwnersInv, Next,
         ~\E a \in Addr, c \in Conn, k \in {"tcp", "quic"} : admit(c, a, k),
         ~\E c \in Conn : release(c)
  PROVE  SlotsSame
<1> USE AdmissionConstants DEF Types, OwnersInv, One, TransportOwns, WorkerOwns, HandlerOwns, SlotsSame,
        Slots, Owned, Set, Owner, relayVars, ownVars, quicVars
<1>1. ASSUME NEW c \in Conn, close(c) PROVE SlotsSame
  BY <1>1 DEF close
<1>2. ASSUME NEW c \in Conn, dropTransport(c) PROVE SlotsSame
  BY <1>2 DEF dropTransport, drop
<1>3. ASSUME NEW c \in Conn, retainWorker(c) PROVE SlotsSame
  BY <1>3 DEF retainWorker
<1>4. ASSUME NEW c \in Conn, neverServed(c) PROVE SlotsSame
  BY <1>4 DEF neverServed
<1>5. ASSUME NEW c \in Conn, connEnds(c) PROVE SlotsSame
  BY <1>5 DEF connEnds
<1>6. ASSUME NEW c \in Conn, workerEnds(c) PROVE SlotsSame
  BY <1>6 DEF workerEnds
<1>7. ASSUME NEW c \in Conn, dropWorker(c) PROVE SlotsSame
  BY <1>7 DEF dropWorker, drop
<1>8. ASSUME NEW c \in Conn, retainHandler(c) PROVE SlotsSame
  BY <1>8 DEF retainHandler
<1>9. ASSUME NEW c \in Conn, upgrade(c) PROVE SlotsSame
  BY <1>9 DEF upgrade, drop
<1>10. ASSUME NEW c \in Conn, establish(c) PROVE SlotsSame
  BY <1>10 DEF establish
<1>11. ASSUME NEW c \in Conn, handlerEnds(c) PROVE SlotsSame
  BY <1>11 DEF handlerEnds
<1>12. ASSUME NEW c \in Conn, dropHandler(c) PROVE SlotsSame
  BY <1>12 DEF dropHandler, drop
<1>13. ASSUME NEW c \in Conn, deadlinePasses(c) PROVE SlotsSame
  BY <1>13 DEF deadlinePasses
<1>14. ASSUME NEW c \in Conn, guardFires(c) PROVE SlotsSame
  BY <1>14 DEF guardFires
<1>15. ASSUME NEW c \in Conn, guardCuts(c) PROVE SlotsSame
  BY <1>15 DEF guardCuts
<1>16. CASE cancel
  BY <1>16 DEF cancel
<1>17. CASE Close
  BY <1>17 DEF Close
<1> QED BY <1>1, <1>2, <1>3, <1>4, <1>5, <1>6, <1>7, <1>8, <1>9, <1>10, <1>11, <1>12, <1>13, <1>14, <1>15, <1>16, <1>17 DEF Next, Conn

\* The slots are counted when none of them and no count changes, ...
LEMMA SlotsSameExact == ASSUME SlotsExact, SlotsSame PROVE SlotsExact'
<1>1. \A a : SlotsOf(a)' = SlotsOf(a)
  BY DEF SlotsSame, SlotsOf
<1> QED BY <1>1 DEF SlotsSame, SlotsExact, Slots, SlotsOf

\* A set of connections can be counted.
LEMMA SlotsFinite == \A S \in SUBSET Conn : IsFiniteSet(S) /\ Cardinality(S) \in Nat
  BY AdmissionConstants, FS_Subset, FS_CardinalityType

\* ... when a connection without a slot is admitted, ...
LEMMA AdmitExact ==
  ASSUME Types, OwnersInv, SlotsExact, NEW c \in Conn, NEW a \in Addr, NEW k \in {"tcp", "quic"}, admit(c, a, k)
  PROVE  SlotsExact'
<1>1. c \notin Slots /\ Slots \subseteq Conn
  BY DEF admit, Types, OwnersInv, One, TransportOwns, WorkerOwns, HandlerOwns, Slots, Owned
<1>2. Slots' = Slots \cup {c}
  BY <1>1 DEF admit, Types, Slots, Owned, Set
<1>3. ASSUME NEW b \in Addr PROVE SlotsOf(b)' = IF b = a THEN SlotsOf(b) \cup {c} ELSE SlotsOf(b)
  <2>1. \A d \in Slots : client'[d] = client[d]
    BY <1>1 DEF admit, Types, Set
  <2>2. client'[c] = a
    BY DEF admit, Types, Set
  <2> QED BY <1>1, <1>2, <2>1, <2>2 DEF SlotsOf
<1>4. Cardinality(Slots') = Cardinality(Slots) + 1
  BY <1>1, <1>2, SlotsFinite, FS_AddElement
<1>5. ASSUME NEW b \in Addr
      PROVE  Cardinality(SlotsOf(b)') = Cardinality(SlotsOf(b)) + (IF b = a THEN 1 ELSE 0)
  <2>1. SlotsOf(b) \in SUBSET Conn /\ c \notin SlotsOf(b)
    BY <1>1 DEF SlotsOf
  <2>2. IsFiniteSet(SlotsOf(b)) /\ Cardinality(SlotsOf(b)) \in Nat
    BY <2>1, SlotsFinite
  <2>3. Cardinality(SlotsOf(b) \cup {c}) = Cardinality(SlotsOf(b)) + 1
    BY <2>1, <2>2, FS_AddElement
  <2>4. CASE b = a
    BY <1>3, <2>2, <2>3, <2>4
  <2>5. CASE b # a
    BY <1>3, <2>2, <2>5
  <2> QED BY <2>4, <2>5
<1>6. active = Cardinality(Slots) /\ \A b \in Addr : connections[b] = Cardinality(SlotsOf(b))
  BY DEF SlotsExact, Slots, SlotsOf
<1>7. active' = Cardinality(Slots')
  BY <1>4, <1>6 DEF admit
<1>8. \A b \in Addr : connections'[b] = Cardinality(SlotsOf(b)')
  <2>1. \A b \in Addr : connections'[b] = connections[b] + (IF b = a THEN 1 ELSE 0)
    BY DEF admit, Types, Set
  <2> QED BY <1>5, <1>6, <2>1
<1> QED BY <1>7, <1>8 DEF SlotsExact, Slots, SlotsOf

\* ... and when the last owner releases one.
LEMMA ReleaseExact ==
  ASSUME Types, OwnersInv, SlotsExact, NEW c \in Conn, release(c)
  PROVE  SlotsExact' /\ active > 0
<1> DEFINE a == client[c]
<1>1. c \in Slots /\ Slots \subseteq Conn /\ a \in Addr /\ c \in SlotsOf(a)
  BY AdmissionConstants DEF release, Types, OwnersInv, Slots, SlotsOf
<1>2. Slots' = Slots \ {c}
  BY DEF release, Types, OwnersInv, One, TransportOwns, WorkerOwns, HandlerOwns, Slots, Owned, Set, ownVars
<1>3. ASSUME NEW b \in Addr PROVE SlotsOf(b)' = IF b = a THEN SlotsOf(b) \ {c} ELSE SlotsOf(b)
  BY <1>2 DEF SlotsOf, release
<1>4. Cardinality(Slots') = Cardinality(Slots) - 1
  BY <1>1, <1>2, SlotsFinite, FS_RemoveElement
<1>5. ASSUME NEW b \in Addr
      PROVE  Cardinality(SlotsOf(b)') = Cardinality(SlotsOf(b)) - (IF b = a THEN 1 ELSE 0)
  <2>1. SlotsOf(b) \in SUBSET Conn
    BY <1>1 DEF SlotsOf
  <2>2. IsFiniteSet(SlotsOf(b)) /\ Cardinality(SlotsOf(b)) \in Nat
    BY <2>1, SlotsFinite
  <2>3. b = a => Cardinality(SlotsOf(b) \ {c}) = Cardinality(SlotsOf(b)) - 1
    BY <1>1, <2>2, FS_RemoveElement
  <2>4. CASE b = a
    BY <1>3, <2>2, <2>3, <2>4
  <2>5. CASE b # a
    BY <1>3, <2>2, <2>5
  <2> QED BY <2>4, <2>5
<1>6. active = Cardinality(Slots) /\ \A b \in Addr : connections[b] = Cardinality(SlotsOf(b))
  BY DEF SlotsExact, Slots, SlotsOf
<1>7. active' = Cardinality(Slots')
  BY <1>4, <1>6 DEF release
<1>8. \A b \in Addr : connections'[b] = Cardinality(SlotsOf(b)')
  <2>1. \A b \in Addr : connections'[b] = connections[b] - (IF b = a THEN 1 ELSE 0)
    BY <1>1 DEF release, Types, Set
  <2> QED BY <1>5, <1>6, <2>1
<1>9. active > 0
  BY <1>1, <1>2, <1>4, <1>6, SlotsFinite
<1> QED BY <1>7, <1>8, <1>9 DEF SlotsExact, Slots, SlotsOf

----------------------------------------------------------------------------
\* The relay starts with no connection, ...
LEMMA InvInit == ASSUME Init PROVE IInv
<1>1. Types
  <2>1. /\ active \in Int /\ active <= maxSessions
        /\ connections \in [Addr -> Int] /\ \A a \in Addr : connections[a] <= maxPerIP
    BY AdmissionConstants DEF Init
  <2>2. /\ kind \in [Conn -> {"none", "tcp", "quic"}] /\ client \in [Conn -> Addr \cup {NoAddr}]
        /\ \A c \in Conn : client[c] = NoAddr <=> kind[c] = "none"
        /\ refs \in [Conn -> Int] /\ transport \in [Conn -> {"none", "open", "closing", "done"}]
        /\ worker \in [Conn -> Owner] /\ handler \in [Conn -> Owner]
        /\ guard \in [Conn -> {"off", "armed", "cut", "done"}]
    BY DEF Init, Owner
  <2>3. /\ open \in BOOLEAN /\ erased \in BOOLEAN
        /\ closed \in [Conn -> BOOLEAN] /\ last \in [Conn -> BOOLEAN]
        /\ ended \in [Conn -> BOOLEAN] /\ upgraded \in [Conn -> BOOLEAN]
        /\ claimed \in [Conn -> BOOLEAN] /\ ready \in [Conn -> BOOLEAN] /\ late \in [Conn -> BOOLEAN]
    BY DEF Init
  <2> QED BY <2>1, <2>2, <2>3 DEF Types
<1>2. OwnersInv /\ GuardInv /\ EraseInv
  BY DEF Init, OwnersInv, One, TransportOwns, WorkerOwns, HandlerOwns, GuardInv, EraseInv
<1>3. Slots = {} /\ \A a \in Addr : SlotsOf(a) = {}
  BY DEF Init, Slots, SlotsOf, Owned
<1>4. active = Cardinality(Slots) /\ \A a \in Addr : connections[a] = Cardinality(SlotsOf(a))
  BY <1>3, FS_EmptySet DEF Init
<1>5. SlotsExact
  BY <1>4 DEF SlotsExact, Slots, SlotsOf
<1> QED BY <1>1, <1>2, <1>5 DEF IInv

\* ... every step keeps the slots counted, ...
LEMMA SlotsStep == ASSUME IInv, Next PROVE SlotsExact' /\ EraseInv'
<1>1. Types /\ OwnersInv /\ SlotsExact /\ EraseInv
  BY DEF IInv
<1>2. ASSUME NEW c \in Conn, NEW a \in Addr, NEW k \in {"tcp", "quic"}, admit(c, a, k)
      PROVE  SlotsExact' /\ EraseInv'
  <2>1. SlotsExact'
    BY <1>1, <1>2, AdmitExact
  <2> QED BY <1>1, <1>2, <2>1 DEF EraseInv, admit
<1>3. ASSUME NEW c \in Conn, release(c) PROVE SlotsExact' /\ EraseInv'
  <2>1. SlotsExact' /\ active > 0
    BY <1>1, <1>3, ReleaseExact
  <2> QED BY <1>1, <1>3, <2>1 DEF EraseInv, release
<1>4. ASSUME ~\E a \in Addr, c \in Conn, k \in {"tcp", "quic"} : admit(c, a, k),
             ~\E c \in Conn : release(c)
      PROVE  SlotsExact' /\ EraseInv'
  <2>1. SlotsSame
    BY <1>1, <1>4, SlotsKept
  <2>2. SlotsExact'
    BY <1>1, <2>1, SlotsSameExact
  <2>3. erased' => ~open' /\ active = 0
    <3>1. CASE Close
      BY <3>1 DEF Close
    <3>2. CASE cancel
      BY <1>1, <3>2 DEF cancel, EraseInv
    <3>3. CASE ~Close /\ ~cancel
      <4>1. UNCHANGED <<open, erased>>
        BY <1>4, <3>3, ZenonT(60) DEF Next, Conn, close, dropTransport, retainWorker, neverServed, connEnds, workerEnds,
           dropWorker, retainHandler, upgrade, establish, handlerEnds, dropHandler, deadlinePasses,
           guardFires, guardCuts, relayVars
      <4> QED BY <1>1, <4>1 DEF EraseInv
    <3> QED BY <3>1, <3>2, <3>3
  <2> QED BY <2>1, <2>2, <2>3 DEF EraseInv, SlotsSame
<1> QED BY <1>2, <1>3, <1>4

\* ... and with them the whole invariant.
LEMMA InvStep == ASSUME IInv, [Next]_vars PROVE IInv'
<1>1. CASE Next
  <2>1. Types' /\ OwnersInv' /\ GuardInv'
    BY <1>1, TypesStep, OwnersStep, GuardStep DEF IInv
  <2>2. SlotsExact' /\ EraseInv'
    BY <1>1, SlotsStep
  <2> QED BY <2>1, <2>2 DEF IInv
<1>2. CASE UNCHANGED vars
  <2> USE <1>2 DEF vars, relayVars, ownVars, quicVars
  <2>1. Types'
    BY DEF IInv, Types
  <2>2. OwnersInv' /\ GuardInv' /\ EraseInv'
    BY DEF IInv, OwnersInv, TransportOwns, WorkerOwns, HandlerOwns, GuardInv, EraseInv
  <2>3. SlotsSame
    BY DEF SlotsSame, Slots, Owned
  <2>4. SlotsExact'
    BY <2>3, SlotsSameExact DEF IInv
  <2> QED BY <2>1, <2>2, <2>4 DEF IInv
<1> QED BY <1>1, <1>2

\* The inductive invariant holds in every reachable state of the relay's transports.
THEOREM Invariant == Spec => []IInv
<1>1. Init => IInv
  BY InvInit
<1>2. IInv /\ [Next]_vars => IInv'
  BY InvStep
<1> QED BY <1>1, <1>2, PTL DEF Spec

\* The variables have their types: the counts of admit never leave the limits, and never fall
\* below zero although each slot is released by whichever owner ends last.
THEOREM TypeCorrect == Spec => []TypeOK
<1>1. IInv => TypeOK
  <2> SUFFICES ASSUME IInv PROVE TypeOK
    OBVIOUS
  <2>1. Types /\ OwnersInv
    BY DEF IInv
  <2>2. active \in Nat /\ \A a \in Addr : connections[a] \in Nat
    <3>1. active = Cardinality(Slots) /\ \A a \in Addr : connections[a] = Cardinality(SlotsOf(a))
      BY DEF IInv, SlotsExact, Slots, SlotsOf
    <3>2. Slots \in SUBSET Conn /\ \A a \in Addr : SlotsOf(a) \in SUBSET Conn
      BY DEF Slots, SlotsOf
    <3> QED BY <3>1, <3>2, SlotsFinite
  <2>3. active \in 0 .. maxSessions
    BY <2>1, <2>2, AdmissionConstants DEF Types
  <2>4. connections \in [Addr -> 0 .. maxPerIP]
    BY <2>1, <2>2, AdmissionConstants DEF Types
  <2>5. refs \in [Conn -> 0 .. 3]
    <3>1. \A c \in Conn : refs[c] \in 0 .. 3
      BY <2>1 DEF OwnersInv, One
    <3> QED BY <2>1, <3>1 DEF Types
  <2> QED BY <2>1, <2>3, <2>4, <2>5 DEF TypeOK, Types
<1> QED BY <1>1, Invariant, PTL

\* For any number of connections: relay.active and relay.connections count exactly the
\* connections with an owner or a release to come, in whatever order the transport, the HTTP
\* worker and the handler end.
THEOREM SlotsAreExact == Spec => []SlotsExact
<1>1. IInv => SlotsExact
  BY DEF IInv
<1> QED BY <1>1, Invariant, PTL

\* Relay.Close erases the accounts only when no handler is left, and none starts afterwards.
THEOREM ErasedLast == Spec => []ErasedAfterHandlers
<1>1. IInv => ErasedAfterHandlers
  <2> SUFFICES ASSUME IInv, erased, NEW c \in Conn PROVE handler[c] \notin {"running", "ending"}
    BY DEF ErasedAfterHandlers
  <2>1. Cardinality(Slots) = 0
    BY DEF IInv, EraseInv, SlotsExact, Slots
  <2>2. Slots \in SUBSET Conn
    BY DEF Slots
  <2>3. Slots = {}
    BY <2>1, <2>2, SlotsFinite, FS_EmptySet
  <2> QED BY <2>3 DEF Slots, Owned
<1> QED BY <1>1, Invariant, PTL

\* However the deadline races the Hello, the guard never cuts a live connection that establish
\* has reported ready.
THEOREM ReadySpared == Spec => []GuardSparesReady
<1>1. IInv => GuardSparesReady
  BY DEF IInv, GuardInv, GuardSparesReady
<1> QED BY <1>1, Invariant, PTL
=============================================================================
