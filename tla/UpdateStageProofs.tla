------------------------- MODULE UpdateStageProofs -------------------------
(***************************************************************************)
(* Proofs about UpdateStage, for every set of releases: whichever rename   *)
(* fails and wherever the worker dies, a release that was made ready is    *)
(* found again, or a newer one.                                            *)
(***************************************************************************)
EXTENDS UpdateStage, FiniteSetTheorems, TLAPS

\* A finite set of numbers has a largest one.  (A smallest set without one would lose this
\* property with any of its elements.)
LEMMA FiniteMax ==
  ASSUME NEW S \in SUBSET Nat, IsFiniteSet(S), S # {}
  PROVE  \E m \in S : \A n \in S : m >= n
<1> DEFINE HasMax(T) == \E m \in T : \A n \in T : m >= n
           Bad == {T \in SUBSET S : T # {} /\ ~HasMax(T)}
<1> SUFFICES ASSUME ~HasMax(S) PROVE FALSE
  OBVIOUS
<1>1. IsWellFoundedOn(StrictSubsetOrdering(S), SUBSET S)
  BY FS_StrictSubsetOrderingWellFounded, FS_FiniteSubsetsOfFinite
<1>2. Bad \subseteq SUBSET S /\ Bad # {}
  <2>1. S \in Bad
    OBVIOUS
  <2> QED BY <2>1
<1>3. PICK T \in Bad : \A U \in Bad : <<U, T>> \notin StrictSubsetOrdering(S)
  <2> HIDE DEF Bad
  <2> QED BY <1>1, <1>2, WFMin
<1>4. PICK x \in T : TRUE
  OBVIOUS
<1>5. T \ {x} \notin Bad
  <2>1. <<T \ {x}, T>> \in StrictSubsetOrdering(S)
    BY <1>4 DEF StrictSubsetOrdering
  <2> HIDE DEF Bad
  <2> QED BY <1>3, <2>1
<1>6. CASE T \ {x} = {}
  <2>1. \A n \in T : x >= n
    BY <1>4, <1>6
  <2> QED BY <1>4, <2>1
<1>7. CASE T \ {x} # {}
  <2>1. PICK m \in T \ {x} : \A n \in T \ {x} : m >= n
    BY <1>5, <1>7
  <2>2. CASE m >= x
    BY <2>1, <2>2
  <2>3. CASE x >= m
    <3>1. \A n \in T : x >= n
      BY <1>4, <2>1, <2>3
    <3> QED BY <1>4, <3>1
  <2> QED BY <1>4, <2>1, <2>2, <2>3
<1> QED BY <1>6, <1>7

----------------------------------------------------------------------------
\* What the worker has at each step: a release of its channel from Download::begin on, a whole stage of it once
\* it is filled, and the previous stage aside from retire until publish or restore is done.
WorkspaceInv ==
    /\ step \in {"sweep", "transfer", "finish", "fill", "retire", "publish"} =>
        selected \in Build /\ selected \in channel
    /\ step \in {"retire", "publish"} => staging \in Stage /\ build(staging) = selected
    /\ step \in {"publish", "restore"} => ready = None
    /\ step = "publish" => retired # None
    /\ step = "restore" => retired \in Stage

\* Where the release that was made ready last for the channel is, with a live envelope: at the destination, or
\* set aside by this worker, or by a dead one and not yet looked for.
KeptInv ==
    promised # None =>
        /\ promised \in channel
        /\ \/ ready = <<promised, TRUE>>
           \/ /\ ready = None /\ step \in {"publish", "restore"} /\ retired = <<promised, TRUE>>
           \/ /\ ready = None /\ step \in {"idle", "recover"} /\ <<promised, TRUE>> \in orphans

IInv == TypeOK /\ WorkspaceInv /\ KeptInv

\* A stage is a release and whether its envelope is live.
LEMMA StageParts ==
  ASSUME NEW t \in Stage
  PROVE  build(t) \in Build /\ t \notin {None, Torn} /\ (live(t) => t = <<build(t), TRUE>>)
<1>1. PICK a \in Build, x \in BOOLEAN : t = <<a, x>>
  BY DEF Stage
<1>2. build(t) = a /\ live(t) = x
  BY <1>1 DEF build, live
<1>3. x => x = TRUE
  OBVIOUS
<1>4. t \notin {None, Torn}
  BY StageConstants DEF Stage
<1> QED BY <1>1, <1>2, <1>3, <1>4

\* An expiry leaves a stage of the same release, and other releases alone.
LEMMA LapsedParts ==
  ASSUME NEW b \in Build
  PROVE  /\ Lapsed(b, None) = None /\ Lapsed(b, Torn) = Torn
         /\ \A s \in Stage : /\ Lapsed(b, s) \in Stage /\ build(Lapsed(b, s)) = build(s)
                             /\ build(s) # b => Lapsed(b, s) = s
<1>1. Lapsed(b, None) = None /\ Lapsed(b, Torn) = Torn
  BY DEF Lapsed
<1>2. <<b, FALSE>> \in Stage /\ build(<<b, FALSE>>) = b
  BY DEF Stage, build
<1>3. \A s \in Stage : Lapsed(b, s) = IF build(s) = b THEN <<b, FALSE>> ELSE s
  BY StageParts DEF Lapsed
<1>4. ASSUME NEW s \in Stage
      PROVE  /\ Lapsed(b, s) \in Stage /\ build(Lapsed(b, s)) = build(s)
             /\ build(s) # b => Lapsed(b, s) = s
  <2>1. CASE build(s) = b
    <3>1. Lapsed(b, s) = <<b, FALSE>>
      BY <1>3, <2>1
    <3> QED BY <1>2, <2>1, <3>1
  <2>2. CASE build(s) # b
    <3>1. Lapsed(b, s) = s
      BY <1>3, <2>2
    <3> QED BY <2>2, <3>1
  <2> QED BY <2>1, <2>2
<1> QED BY <1>1, <1>4

\* A candidate of a release that verifies is enough for a recovery to find that release or a
\* newer one.
LEMMA NewestFound ==
  ASSUME NEW S \in SUBSET Stage, NEW b \in Build, b \in channel, <<b, TRUE>> \in S
  PROVE  newest(S) # {} /\ \A s \in newest(S) : build(s) >= b
<1> DEFINE B == {a \in Build : a \in channel /\ <<a, TRUE>> \in S}
<1>1. B \in SUBSET Nat /\ IsFiniteSet(B) /\ b \in B
  BY StageConstants, FS_Subset
<1>2. PICK m \in B : \A n \in B : m >= n
  <2> HIDE DEF B
  <2> QED BY <1>1, FiniteMax
<1>3. \A t \in S : verify(t) => build(t) \in B
  BY StageParts DEF verify
<1>4. <<m, TRUE>> \in newest(S)
  <2>1. \A t \in S : verify(t) => m >= build(t)
    BY <1>2, <1>3
  <2> QED BY <1>2, <2>1 DEF newest, verify, build, live
<1>5. \A s \in newest(S) : build(s) >= b
  BY DEF newest, verify, build, live
<1> QED BY <1>4, <1>5

----------------------------------------------------------------------------
\* Every step keeps the types: what becomes the destination is a whole stage.
LEMMA TypeStep == ASSUME TypeOK, WorkspaceInv, Next PROVE TypeOK'
<1> USE StageConstants DEF TypeOK, Step, disk, own, Leave
<1>1. CASE begin
  BY <1>1 DEF begin
<1>2. CASE recover
  BY <1>2 DEF recover, newest, build, Stage
<1>3. CASE clear
  BY <1>3 DEF clear
<1>4. CASE leaveCheck
  BY <1>4 DEF leaveCheck
<1>5. CASE refresh_envelope
  BY <1>5 DEF refresh_envelope, build, Stage
<1>6. CASE sweep
  BY <1>6 DEF sweep
<1>7. CASE downloadWrite
  BY <1>7 DEF downloadWrite
<1>8. CASE downloadEnd
  BY <1>8 DEF downloadEnd
<1>9. CASE finish
  BY <1>9 DEF finish, NoPart
<1>10. CASE fill
  <2>1. selected \in Build
    BY <1>10 DEF fill, WorkspaceInv
  <2>2. CASE staging' = <<selected, TRUE>> /\ step' = "retire" /\ NoPart /\ UNCHANGED <<selected, retired>>
    <3>1. <<selected, TRUE>> \in Stage
      BY <2>1 DEF Stage
    <3> QED BY <1>10, <2>1, <2>2, <3>1 DEF fill, NoPart
  <2>3. CASE Leave /\ UNCHANGED part
    BY <1>10, <2>3 DEF fill
  <2> QED BY <1>10, <2>2, <2>3 DEF fill
<1>11. CASE retire
  BY <1>11 DEF retire
<1>12. CASE publish
  BY <1>12 DEF publish, WorkspaceInv
<1>13. CASE restore
  BY <1>13 DEF restore, WorkspaceInv
<1>14. CASE drop
  BY <1>14 DEF drop
<1>15. CASE crash
  BY <1>15 DEF crash
<1>16. ASSUME NEW b \in Build, downloadBegin(b) PROVE TypeOK'
  BY <1>16 DEF downloadBegin
<1>17. ASSUME NEW b \in Build, lapse(b) PROVE TypeOK'
  <2>1. ready' \in Stage \cup {None}
    BY <1>17, LapsedParts DEF lapse
  <2>2. staging' \in Stage \cup {None, Torn} /\ retired' \in Stage \cup {None, Torn}
    BY <1>17, LapsedParts DEF lapse
  <2>3. orphans' \subseteq Stage
    BY <1>17, LapsedParts DEF lapse
  <2>4. promised' \in Build \cup {None}
    BY <1>17 DEF lapse
  <2> QED BY <1>17, <2>1, <2>2, <2>3, <2>4 DEF lapse
<1> QED BY <1>1, <1>2, <1>3, <1>4, <1>5, <1>6, <1>7, <1>8, <1>9, <1>10, <1>11, <1>12, <1>13,
           <1>14, <1>15, <1>16, <1>17 DEF Next

\* ... and what the worker has at the next one.
LEMMA WorkspaceStep == ASSUME TypeOK, WorkspaceInv, Next PROVE WorkspaceInv'
<1> USE StageConstants DEF TypeOK, WorkspaceInv, Step, disk, own, Leave
<1>1. CASE begin
  BY <1>1 DEF begin
<1>2. CASE recover
  BY <1>2 DEF recover, newest, build, Stage
<1>3. CASE clear
  BY <1>3 DEF clear
<1>4. CASE leaveCheck
  BY <1>4 DEF leaveCheck
<1>5. CASE refresh_envelope
  BY <1>5 DEF refresh_envelope, build, Stage
<1>6. CASE sweep
  BY <1>6 DEF sweep
<1>7. CASE downloadWrite
  BY <1>7 DEF downloadWrite
<1>8. CASE downloadEnd
  BY <1>8 DEF downloadEnd
<1>9. CASE finish
  BY <1>9 DEF finish, NoPart
<1>10. CASE fill
  <2>1. selected \in Build
    BY <1>10 DEF fill, WorkspaceInv
  <2>2. CASE staging' = <<selected, TRUE>> /\ step' = "retire" /\ NoPart /\ UNCHANGED <<selected, retired>>
    <3>1. <<selected, TRUE>> \in Stage /\ build(<<selected, TRUE>>) = selected
      BY <2>1 DEF Stage, build
    <3> QED BY <1>10, <2>1, <2>2, <3>1 DEF fill, NoPart
  <2>3. CASE Leave /\ UNCHANGED part
    BY <1>10, <2>3 DEF fill
  <2> QED BY <1>10, <2>2, <2>3 DEF fill
<1>11. CASE retire
  BY <1>11 DEF retire
<1>12. CASE publish
  BY <1>12 DEF publish
<1>13. CASE restore
  BY <1>13 DEF restore
<1>14. CASE drop
  BY <1>14 DEF drop
<1>15. CASE crash
  BY <1>15 DEF crash
<1>16. ASSUME NEW b \in Build, downloadBegin(b) PROVE WorkspaceInv'
  BY <1>16 DEF downloadBegin
<1>17. ASSUME NEW b \in Build, lapse(b) PROVE WorkspaceInv'
  <2>1. ready = None => ready' = None
    BY <1>17, LapsedParts DEF lapse
  <2>2. staging \in Stage => staging' \in Stage /\ build(staging') = build(staging)
    BY <1>17, LapsedParts DEF lapse
  <2>3. retired \in Stage => retired' \in Stage
    BY <1>17, LapsedParts DEF lapse
  <2>4. retired # None => retired' # None
    BY <1>17, <2>3, LapsedParts, StageParts DEF lapse
  <2> QED BY <1>17, <2>1, <2>2, <2>3, <2>4 DEF lapse
<1> QED BY <1>1, <1>2, <1>3, <1>4, <1>5, <1>6, <1>7, <1>8, <1>9, <1>10, <1>11, <1>12, <1>13,
           <1>14, <1>15, <1>16, <1>17 DEF Next

----------------------------------------------------------------------------
\* Every step leaves the release that was made ready where the next run will find it.
LEMMA KeptStep == ASSUME IInv, Next PROVE KeptInv'
<1> USE StageConstants DEF IInv, TypeOK, WorkspaceInv, KeptInv, disk, own, Leave
<1>1. CASE begin
  BY <1>1 DEF begin
<1>2. CASE recover
  <2>1. CASE ready = None /\ newest(orphans) # {}
    <3>1. ASSUME NEW s \in newest(orphans), ready' = s, promised' = build(s) PROVE KeptInv'
      <4>1. s \in Stage /\ live(s) /\ build(s) \in channel
        BY <3>1 DEF newest, verify
      <4> QED BY <1>2, <3>1, <4>1, StageParts DEF recover
    <3>2. CASE Leave /\ UNCHANGED <<ready, orphans, promised>>
      BY <1>2, <3>2 DEF recover
    <3> QED BY <1>2, <2>1, <3>1, <3>2 DEF recover
  <2>2. CASE ~(ready = None /\ newest(orphans) # {})
    <3>1. promised # None => ready # None
      <4> SUFFICES ASSUME promised # None, ready = None PROVE FALSE
        OBVIOUS
      <4>1. promised \in Build /\ promised \in channel /\ <<promised, TRUE>> \in orphans
        <5>1. <<promised, TRUE>> \in Stage
          BY DEF Stage
        <5>2. <<promised, TRUE>> # None
          BY <5>1, StageParts
        <5> QED BY <1>2, <5>2 DEF recover
      <4>2. orphans \in SUBSET Stage
        OBVIOUS
      <4>3. newest(orphans) # {}
        BY <4>1, <4>2, NewestFound
      <4> QED BY <2>2, <4>3
    <3> QED BY <1>2, <2>2, <3>1 DEF recover
  <2> QED BY <2>1, <2>2
<1>3. CASE clear
  BY <1>3 DEF clear
<1>4. CASE leaveCheck
  BY <1>4 DEF leaveCheck
<1>5. CASE refresh_envelope
  BY <1>5 DEF refresh_envelope
<1>6. CASE sweep
  BY <1>6 DEF sweep
<1>7. CASE downloadWrite
  BY <1>7 DEF downloadWrite
<1>8. CASE downloadEnd
  BY <1>8 DEF downloadEnd
<1>9. CASE finish
  BY <1>9 DEF finish
<1>10. CASE fill
  BY <1>10 DEF fill
<1>11. CASE retire
  BY <1>11 DEF retire, Stage
<1>12. CASE publish
  <2>1. CASE ready' = staging /\ promised' = IF staging = <<selected, TRUE>> THEN selected ELSE None
    BY <1>12, <2>1 DEF publish
  <2>2. CASE retired = Torn /\ Leave /\ UNCHANGED <<ready, promised>>
    <3>1. promised \in Build => <<promised, TRUE>> \in Stage
      BY DEF Stage
    <3>2. promised = None
      BY <1>12, <2>2, <3>1, StageParts DEF publish
    <3> QED BY <2>2, <3>2
  <2>3. CASE retired # Torn /\ step' = "restore" /\ UNCHANGED <<ready, own, promised>>
    BY <1>12, <2>3 DEF publish
  <2> QED BY <1>12, <2>1, <2>2, <2>3 DEF publish
<1>13. CASE restore
  <2>1. promised # None => retired = <<promised, TRUE>>
    <3>1. promised \in Build => <<promised, TRUE>> \in Stage
      BY DEF Stage
    <3> QED BY <1>13, <3>1, StageParts DEF restore
  <2>2. CASE ready' = retired
    BY <1>13, <2>1, <2>2 DEF restore
  <2>3. CASE orphans' = orphans \cup {retired} /\ UNCHANGED ready
    BY <1>13, <2>1, <2>3 DEF restore
  <2> QED BY <1>13, <2>2, <2>3 DEF restore
<1>14. CASE drop
  BY <1>14 DEF drop
<1>15. CASE crash
  <2>1. promised \in Build => <<promised, TRUE>> \in Stage
    BY DEF Stage
  <2> QED BY <1>15, <2>1, StageParts DEF crash
<1>16. ASSUME NEW b \in Build, downloadBegin(b) PROVE KeptInv'
  BY <1>16 DEF downloadBegin
<1>17. ASSUME NEW b \in Build, lapse(b) PROVE KeptInv'
  <2> SUFFICES ASSUME promised' # None PROVE KeptInv'
    OBVIOUS
  <2>1. promised' = promised /\ promised # b /\ promised \in Build
    BY <1>17 DEF lapse
  <2>2. <<promised, TRUE>> \in Stage /\ build(<<promised, TRUE>>) # b
    BY <2>1 DEF Stage, build
  <2>3. Lapsed(b, <<promised, TRUE>>) = <<promised, TRUE>> /\ Lapsed(b, None) = None
    BY <2>2, LapsedParts
  <2> QED BY <1>17, <2>1, <2>3 DEF lapse
<1> QED BY <1>1, <1>2, <1>3, <1>4, <1>5, <1>6, <1>7, <1>8, <1>9, <1>10, <1>11, <1>12, <1>13,
           <1>14, <1>15, <1>16, <1>17 DEF Next

\* The inductive invariant holds in every reachable state.
THEOREM Invariant == Spec => []IInv
<1>1. Init => IInv
  BY StageConstants DEF Init, IInv, TypeOK, WorkspaceInv, KeptInv, Step
<1>2. IInv /\ [Next]_vars => IInv'
  <2> SUFFICES ASSUME IInv, [Next]_vars PROVE IInv'
    OBVIOUS
  <2>1. CASE Next
    BY <2>1, TypeStep, WorkspaceStep, KeptStep DEF IInv
  <2>2. CASE UNCHANGED vars
    BY <2>2 DEF vars, disk, own, IInv, TypeOK, WorkspaceInv, KeptInv
  <2> QED BY <2>1, <2>2
<1> QED BY <1>1, <1>2, PTL DEF Spec

\* The destination is empty or holds a whole stage, whatever was interrupted.
THEOREM TypeCorrect == Spec => []TypeOK
<1>1. IInv => TypeOK
  BY DEF IInv
<1> QED BY <1>1, Invariant, PTL

\* For any releases in any order: a release that has been made ready is not lost by a promotion
\* that fails or is interrupted, nor by the recovery that follows.
THEOREM StageIsKept == Spec => []StageKept
<1>1. IInv => StageKept
  <2> SUFFICES ASSUME IInv, promised # None
               PROVE  Recovered # {} /\ \A s \in Recovered : build(s) >= promised
    BY DEF StageKept
  <2>1. promised \in Build /\ promised \in Nat /\ <<promised, TRUE>> \in Stage
    BY StageConstants DEF IInv, TypeOK, Stage
  <2>2. promised \in channel
    BY DEF IInv, KeptInv
  <2>3. CASE ready = <<promised, TRUE>>
    <3>1. ready # None /\ build(ready) = promised
      BY <2>1, <2>3, StageParts DEF build
    <3> QED BY <2>1, <3>1 DEF Recovered
  <2>4. CASE ready = None
    <3> DEFINE S == orphans \cup ({staging, retired} \ {None, Torn})
    <3>1. S \in SUBSET Stage
      BY DEF IInv, TypeOK
    <3>2. <<promised, TRUE>> \in S
      <4>1. <<promised, TRUE>> \notin {None, Torn}
        BY <2>1, StageParts
      <4>2. <<promised, TRUE>> \in orphans \/ retired = <<promised, TRUE>>
        BY <2>4, <4>1 DEF IInv, KeptInv
      <4> QED BY <4>1, <4>2
    <3>3. Recovered = newest(S)
      BY <2>4 DEF Recovered
    <3> HIDE DEF S
    <3> QED BY <2>1, <2>2, <3>1, <3>2, <3>3, NewestFound
  <2> QED BY <2>3, <2>4 DEF IInv, KeptInv
<1> QED BY <1>1, Invariant, PTL
=============================================================================
