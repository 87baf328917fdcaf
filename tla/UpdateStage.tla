---------------------------- MODULE UpdateStage ----------------------------
(***************************************************************************)
(* crates/update-installer/src/stage.rs and its caller, worker.rs run:     *)
(* a release is downloaded into a resumable partial file and promoted to   *)
(* the ready stage by several renames, and the next run recovers what an   *)
(* interrupted promotion left behind.                                      *)
(*                                                                         *)
(* Only the holder of the writer lease works in the directory, so there is *)
(* one worker; each rename is a step, any of them may fail, and the worker *)
(* may die between any two.                                                *)
(***************************************************************************)
EXTENDS Integers, FiniteSetsExt

CONSTANTS
    Build,       \* releases newer than the installed one, in their order
    Channel,     \* the channels, each as the set of the releases it accepts
    None, Torn   \* nothing; a workspace without a stage that verifies

ASSUME StageConstants ==
    /\ Build \subseteq Nat /\ Build # {} /\ IsFiniteSet(Build) /\ None # Torn
    /\ Channel \subseteq SUBSET Build /\ Channel # {}
    /\ {None, Torn} \cap (Build \cup (Build \X BOOLEAN)) = {}

\* A directory with a whole artifact of a release; its signed envelope is live until it expires.
Stage == Build \X BOOLEAN
build(s) == s[1]
live(s) == s[2]

VARIABLES
    ready,             \* the destination
    orphans,           \* stages in the stage-* and retired-* workspaces of dead workers
    part,              \* how much of a release its digest-named partial file holds
    step, channel,     \* what the worker is at, and the channel it checks
    selected,          \* Download.selection
    staging, retired,  \* the worker's own two workspaces
    promised           \* history: the release that was made ready last, until it expires or
                       \* another channel is checked that does not accept it

disk == <<ready, orphans, part>>
own == <<selected, staging, retired>>
vars == <<disk, step, channel, own, promised>>

Step == {"idle", "recover", "clear", "fetch", "sweep", "transfer", "finish", "fill", "retire",
    "publish", "restore", "drop"}

\* The destination is empty or holds a whole stage, never a torn one; the other state has its type.
TypeOK ==
    /\ ready \in Stage \cup {None} /\ orphans \subseteq Stage
    /\ part \in [Build -> {"none", "some", "whole", "bad"}]
    /\ step \in Step /\ channel \in Channel /\ selected \in Build \cup {None}
    /\ staging \in Stage \cup {None, Torn} /\ retired \in Stage \cup {None, Torn}
    /\ promised \in Build \cup {None}

Init ==
    /\ ready = None /\ orphans = {} /\ part = [b \in Build |-> "none"]
    /\ step = "idle" /\ channel \in Channel /\ selected = None /\ staging = None /\ retired = None /\ promised = None

\* TempDir::drop on the way out, and the lease is released.
Leave == step' = "idle" /\ selected' = None /\ staging' = None /\ retired' = None

----------------------------------------------------------------------------
(* Recovery *)

\* run takes the lease; the channel is that of the preferences now.
begin ==
    /\ step = "idle" /\ step' = "recover" /\ channel' \in Channel
    /\ promised' = IF promised \in channel' THEN promised ELSE None
    /\ UNCHANGED <<disk, own>>

\* stage::verify: a live envelope of a release that the channel accepts.
verify(s) == live(s) /\ build(s) \in channel

\* Mutant of newest: the last candidate the directory scan met.
newestIsAny(S) == {s \in S : verify(s)}

\* Of the stages that verify, a newest one: newer_build orders by the release alone.
newest(S) == {s \in S : verify(s) /\ \A t \in S : verify(t) => build(s) >= build(t)}

\* recover: a missing destination takes the newest candidate that verifies, if the rename succeeds.
recover ==
    /\ step = "recover"
    /\ IF ready = None /\ newest(orphans) # {}
       THEN \/ \E s \in newest(orphans) :
                 ready' = s /\ orphans' = orphans \ {s} /\ promised' = build(s)
               /\ step' = "clear" /\ UNCHANGED own
            \/ Leave /\ UNCHANGED <<ready, orphans, promised>>
       ELSE step' = "clear" /\ UNCHANGED <<ready, orphans, promised, own>>
    /\ UNCHANGED <<channel, part>>

\* The workspaces are removed, and errors are ignored.
clear ==
    /\ step = "clear" /\ step' = "fetch" /\ orphans' \in SUBSET orphans
    /\ UNCHANGED <<channel, ready, part, own, promised>>

----------------------------------------------------------------------------
(* The check and the transfer *)

\* What a fetched release must beat: the destination, while it verifies.
staged == IF ready # None /\ verify(ready) THEN build(ready) ELSE None

\* A newer release, or the same one with a later expiry.
supersedes(b) == staged # None => b >= staged

\* Nothing to do, a failed request or a cancelled check.
leaveCheck == step \in {"fetch", "transfer"} /\ Leave /\ UNCHANGED <<channel, disk, promised>>

\* refresh_envelope: the payload is there already, and its envelope is replaced atomically.
refresh_envelope ==
    /\ step = "fetch" /\ ready # None /\ build(ready) \in channel /\ supersedes(build(ready))
    /\ ready' = <<build(ready), TRUE>> /\ promised' = build(ready) /\ Leave
    /\ UNCHANGED <<channel, orphans, part>>

\* Download::begin reopens or creates the partial file of this digest.
downloadBegin(b) ==
    /\ step = "fetch" /\ b \in channel /\ supersedes(b) /\ (ready # None => build(ready) # b)
    /\ step' = "sweep" /\ selected' = b
    /\ part' = [part EXCEPT ![b] = IF @ = "none" THEN "some" ELSE @]
    /\ UNCHANGED <<channel, ready, orphans, staging, retired, promised>>

\* run deletes every other partial file.
sweep ==
    /\ step = "sweep" /\ step' = "transfer"
    /\ part' = [b \in Build |-> IF b = selected THEN part[b] ELSE "none"]
    /\ UNCHANGED <<channel, ready, orphans, own, promised>>

\* Download::write to the signed size; a server without ranges makes Download::restart begin anew.
downloadWrite ==
    /\ step = "transfer" /\ part[selected] = "some"
    /\ \E size \in {"whole", "bad"} : part' = [part EXCEPT ![selected] = size]
    /\ UNCHANGED <<channel, ready, orphans, step, own, promised>>

downloadEnd ==
    /\ step = "transfer" /\ part[selected] # "some" /\ step' = "finish"
    /\ UNCHANGED <<channel, disk, own, promised>>

----------------------------------------------------------------------------
(* Download::finish_with *)

NoPart == part' = [part EXCEPT ![selected] = "none"]

\* The digest decides; then a stage-* workspace is made and gets its envelope.
finish ==
    /\ step = "finish"
    /\ IF part[selected] = "whole"
       THEN step' = "fill" /\ staging' = Torn /\ UNCHANGED <<part, selected, retired>>
       ELSE NoPart /\ Leave
    /\ UNCHANGED <<channel, ready, orphans, promised>>

\* Mutant of fill: the stage is published while its artifact is still the partial file.
fillLater ==
    /\ step = "fill" /\ step' = "retire" /\ UNCHANGED <<channel, disk, own, promised>>

\* rename(part, stage/artifact)
fill ==
    /\ step = "fill"
    /\ \/ staging' = <<selected, TRUE>> /\ step' = "retire" /\ NoPart /\ UNCHANGED <<selected, retired>>
       \/ Leave /\ UNCHANGED part
    /\ UNCHANGED <<channel, ready, orphans, promised>>

\* Mutant of retire: the superseded stage is deleted to make room for the new one.
retireDeletes ==
    /\ step = "retire" /\ step' = "publish" /\ ready' = None /\ retired' = Torn
    /\ UNCHANGED <<channel, orphans, part, selected, staging, promised>>

\* A retired-* workspace, and rename(destination, retired/stage) if there is one.
retire ==
    /\ step = "retire"
    /\ \/ /\ step' = "publish" /\ ready' = None
          /\ retired' = IF ready = None THEN Torn ELSE ready
          /\ UNCHANGED <<selected, staging>>
       \/ Leave /\ UNCHANGED ready
    /\ UNCHANGED <<channel, orphans, part, promised>>

\* rename(stage, destination); without it the previous stage goes back.
publish ==
    /\ step = "publish"
    /\ \/ ready' = staging /\ staging' = None /\ step' = "drop" /\ UNCHANGED <<selected, retired>>
          /\ promised' = IF staging = <<selected, TRUE>> THEN selected ELSE None
       \/ retired = Torn /\ Leave /\ UNCHANGED <<ready, promised>>
       \/ retired # Torn /\ step' = "restore" /\ UNCHANGED <<ready, own, promised>>
    /\ UNCHANGED <<channel, orphans, part>>

\* Mutant of restore: the workspace is dropped like any other.
restoreOrDrop ==
    /\ step = "restore"
    /\ ready' \in {retired, None} /\ Leave /\ UNCHANGED <<channel, orphans, part, promised>>

\* rename(retired/stage, destination); if that fails too the workspace is kept.
restore ==
    /\ step = "restore"
    /\ \/ ready' = retired /\ UNCHANGED orphans
       \/ orphans' = orphans \cup {retired} /\ UNCHANGED ready
    /\ Leave /\ UNCHANGED <<channel, part, promised>>

\* The superseded stage is deleted with its workspace.
drop == step = "drop" /\ Leave /\ UNCHANGED <<channel, disk, promised>>

----------------------------------------------------------------------------
\* The process dies: its workspaces stay behind.
crash ==
    /\ step # "idle" /\ Leave
    /\ orphans' = orphans \cup ({staging, retired} \ {None, Torn})
    /\ UNCHANGED <<channel, ready, part, promised>>

\* The envelopes of a release expire, wherever they are.
Lapsed(b, s) == IF s \notin {None, Torn} /\ build(s) = b THEN <<b, FALSE>> ELSE s
lapse(b) ==
    /\ ready' = Lapsed(b, ready) /\ orphans' = {Lapsed(b, s) : s \in orphans}
    /\ staging' = Lapsed(b, staging) /\ retired' = Lapsed(b, retired)
    /\ promised' = IF promised = b THEN None ELSE promised
    /\ UNCHANGED <<channel, part, step, selected>>

Next ==
    \/ begin \/ recover \/ clear
    \/ leaveCheck \/ refresh_envelope \/ sweep \/ downloadWrite \/ downloadEnd
    \/ finish \/ fill \/ retire \/ publish \/ restore \/ drop
    \/ crash
    \/ \E b \in Build : downloadBegin(b) \/ lapse(b)

Spec == Init /\ [][Next]_vars

----------------------------------------------------------------------------
(* Properties *)

\* What the next run would find ready if the worker died now.
Recovered ==
    IF ready # None THEN {ready}
    ELSE newest(orphans \cup ({staging, retired} \ {None, Torn}))

\* A release that has been made ready is not lost: until its envelope expires or another channel
\* is checked that refuses it, whichever rename fails and wherever the worker dies, the next run
\* of the channel finds that release or a newer one (Download::finish: "replacing an older stage
\* only once this one is complete").
StageKept == promised # None => Recovered # {} /\ \A s \in Recovered : build(s) >= promised
=============================================================================
