---- MODULE ConfigVault ----
(***************************************************************************)
(* internal/platform/configvault: content-addressed configuration          *)
(* snapshots on disk, as the handlers of components/control drive it.      *)
(*                                                                         *)
(* A snapshot is a manifest file snapshots/<id>.json that names, by        *)
(* checksum, object files shared between snapshots.  Capture writes the    *)
(* objects, then the manifest, then enforces retention: while a limit is   *)
(* exceeded the oldest unprotected manifest is removed and the objects     *)
(* nobody references are collected.  The handlers that capture hold        *)
(* adminConfigVaultMutationMu; MarkLastWorking is called without it, and   *)
(* its temporary file comes and goes in the directory storeBytes walks.    *)
(*                                                                         *)
(* Abstractions.  An object is identified with its content.  The clock is  *)
(* taken to be strictly increasing, so that a larger id is a newer         *)
(* snapshot.  Every file counts one unit towards MaxStoreBytes.            *)
(***************************************************************************)
EXTENDS Integers, FiniteSets

CONSTANTS
    Procs,         \* concurrent HTTP handlers of routerforge-admin
    Contents,      \* contents an artifact can have
    MaxCaptures,   \* bound on the snapshots ever taken
    MaxSnapshots,  \* Store.maxSnapshots
    MaxStoreBytes, \* Store.maxStoreBytes, in files
    MaxLeaks,      \* bound on the temporary files lost in crashes
    None           \* no snapshot / no owner

Ids == 1..MaxCaptures

ASSUME ConstantsAssumption ==
    /\ MaxCaptures \in Nat
    /\ MaxSnapshots \in Nat
    /\ MaxStoreBytes \in Nat
    /\ MaxLeaks \in Nat

ASSUME NoneAssumption == None \notin Procs /\ None \notin Ids

ASSUME ProcsAssumption == IsFiniteSet(Procs)

VARIABLES
    objects,      \* objects/<sha256>: the contents stored
    live,         \* snapshots/<id>.json: the manifests on disk
    arts,         \* what manifest id references
    lastWorking,  \* state.json, None before the first mark
    leaks,        \* temporary files a crash left inside the vault
    nextId,       \* the clock: the id of the next snapshot
    mu,           \* adminConfigVaultMutationMu: its holder, or None
    pc,           \* where each handler is
    got,          \* the artifacts its Capture has read so far
    cur,          \* the snapshot it has published, or is marking
    victim,       \* the manifest its prune is about to remove
    listed,       \* marks whose temporary file the walk of storeBytes has listed
    usage         \* what storeBytes answers the prune under way

frames == <<got, cur, victim>>
walk   == <<listed, usage>>
vars   == <<objects, live, arts, lastWorking, leaks, nextId, mu, pc, got, cur, victim,
            listed, usage>>

(* The phases between the manifest's publication and Capture's return. *)
RetentionPhases == {"prune", "walk", "evict", "gcEvict", "gcDone", "undo", "gcUndo"}

(* The phases of a handler that is not inside Capture. *)
Outside == {"idle", "mark", "rename"}

Phases == {"read"} \cup RetentionPhases \cup Outside

Init ==
    /\ objects = {} /\ live = {} /\ lastWorking = None /\ leaks = 0
    /\ arts = [id \in Ids |-> {}]
    /\ nextId = 1
    /\ mu = None
    /\ pc = [p \in Procs |-> "idle"]
    /\ got = [p \in Procs |-> {}]
    /\ cur = [p \in Procs |-> None]
    /\ victim = [p \in Procs |-> None]
    /\ listed = {} /\ usage = 0

GoTo(p, phase) == pc' = [pc EXCEPT ![p] = phase]

(* The handler returns: its frame is gone and the mutex released. *)
Return(p) ==
    /\ GoTo(p, "idle")
    /\ got' = [got EXCEPT ![p] = {}]
    /\ cur' = [cur EXCEPT ![p] = None]
    /\ victim' = [victim EXCEPT ![p] = None]
    /\ mu' = None
    /\ usage' = 0

Publish(id, artifacts) ==
    /\ live' = live \cup {id}
    /\ arts' = [arts EXCEPT ![id] = artifacts]

Unpublish(id) ==
    /\ live' = live \ {id}
    /\ arts' = [arts EXCEPT ![id] = {}]

---------------------------------------------------------------------------
(* Capture: artifacts and manifest.                                        *)

(* Mutant: Capture without the mutex. *)
CaptureBeginUnlocked(p) ==
    /\ pc[p] = "idle"
    /\ nextId <= MaxCaptures
    /\ mu' = p
    /\ GoTo(p, "read")
    /\ UNCHANGED <<objects, live, arts, lastWorking, leaks, nextId, frames, walk>>

(* A handler takes the mutex and calls Capture. *)
CaptureBegin(p) ==
    /\ pc[p] = "idle" /\ mu = None
    /\ nextId <= MaxCaptures
    /\ mu' = p
    /\ GoTo(p, "read")
    /\ UNCHANGED <<objects, live, arts, lastWorking, leaks, nextId, frames, walk>>

(* Mutant: an object is taken to be there without being written. *)
EnsureObjectUnwritten(p, content) ==
    /\ pc[p] = "read" /\ content \notin got[p]
    /\ got' = [got EXCEPT ![p] = @ \cup {content}]
    /\ UNCHANGED <<objects, live, arts, lastWorking, leaks, nextId, mu, pc, cur, victim, walk>>

(* readArtifact and ensureObject for one artifact: an object that is there *)
(* already is shared.                                                      *)
EnsureObject(p, content) ==
    /\ pc[p] = "read" /\ content \notin got[p]
    /\ objects' = objects \cup {content}
    /\ got' = [got EXCEPT ![p] = @ \cup {content}]
    /\ UNCHANGED <<live, arts, lastWorking, leaks, nextId, mu, pc, cur, victim, walk>>

(* An artifact, the size limit or the manifest write fails: Capture        *)
(* returns, and the objects written so far stay behind.                    *)
CaptureAbort(p) ==
    /\ pc[p] = "read"
    /\ Return(p)
    /\ UNCHANGED <<objects, live, arts, lastWorking, leaks, nextId, listed>>

(* The artifacts are all read: newSnapshotID and the manifest's rename. *)
WriteManifest(p) ==
    /\ pc[p] = "read"
    /\ nextId <= MaxCaptures
    /\ Publish(nextId, got[p])
    /\ nextId' = nextId + 1
    /\ cur' = [cur EXCEPT ![p] = nextId]
    /\ GoTo(p, "prune")
    /\ UNCHANGED <<objects, lastWorking, leaks, mu, got, victim, walk>>

---------------------------------------------------------------------------
(* prune and gcObjects.                                                    *)

(* The temporary files of the marks under way, next to state.json. *)
TempFiles == {p \in Procs : pc[p] = "rename"}

StoreBytes ==
    Cardinality(objects) + Cardinality(live) + leaks + Cardinality(TempFiles)
        + (IF lastWorking = None THEN 0 ELSE 1)

(* storeBytes lists the root before it looks at the files in it.  A file   *)
(* that is gone by then ends the walk with ErrNotExist, which storeBytes   *)
(* takes for an empty store (see MarkRename).                              *)
ListRoot(p) ==
    /\ pc[p] = "prune"
    /\ usage' = StoreBytes
    /\ listed' = TempFiles
    /\ GoTo(p, "walk")
    /\ UNCHANGED <<objects, live, arts, lastWorking, leaks, nextId, mu, frames>>

(* Mutant: a usage above the limit is let pass. *)
WithinLimitsOffByOne == Cardinality(live) <= MaxSnapshots /\ usage <= MaxStoreBytes + 1

WithinLimits == Cardinality(live) <= MaxSnapshots /\ usage <= MaxStoreBytes

(* The manifests prune may remove: neither the new one nor the pinned one. *)
Evictable(p) == live \ {cur[p], lastWorking}

IsOldest(id, S) == id \in S /\ \A other \in S : id <= other

(* One turn of prune's loop up to the choice of a victim: with manifests   *)
(* and usage known, it reads state.json.                                   *)
Prune(p) ==
    /\ pc[p] = "walk"
    /\ \/ /\ WithinLimits
          /\ GoTo(p, "gcDone")
          /\ UNCHANGED victim
       \/ /\ ~WithinLimits /\ Evictable(p) = {}
          /\ GoTo(p, "undo")
          /\ UNCHANGED victim
       \/ /\ ~WithinLimits
          /\ \E id \in Ids :
                /\ IsOldest(id, Evictable(p))
                /\ victim' = [victim EXCEPT ![p] = id]
          /\ GoTo(p, "evict")
    /\ listed' = {}
    /\ UNCHANGED <<objects, live, arts, lastWorking, leaks, nextId, mu, got, cur, usage>>

(* Mutant: the remove of the manifest fails and nobody notices. *)
RemoveVictimIgnored(p) ==
    /\ pc[p] = "evict" /\ victim[p] \in live
    /\ GoTo(p, "gcEvict")
    /\ UNCHANGED <<objects, live, arts, lastWorking, leaks, nextId, mu, frames, walk>>

RemoveVictim(p) ==
    /\ pc[p] = "evict" /\ victim[p] \in live
    /\ Unpublish(victim[p])
    /\ GoTo(p, "gcEvict")
    /\ UNCHANGED <<objects, lastWorking, leaks, nextId, mu, frames, walk>>

(* Mutant: the references of the pinned snapshot are forgotten. *)
ReferencedUnpinned == UNION {arts[id] : id \in live \ {lastWorking}}

Referenced == UNION {arts[id] : id \in live}

(* gcObjects removes the unreferenced objects one file at a time. *)
CollectObject(p, content) ==
    /\ pc[p] \in {"gcEvict", "gcDone", "gcUndo"}
    /\ content \in objects \ Referenced
    /\ objects' = objects \ {content}
    /\ UNCHANGED <<live, arts, lastWorking, leaks, nextId, mu, pc, frames, walk>>

(* After a victim, prune looks at the limits again. *)
GcEvictDone(p) ==
    /\ pc[p] = "gcEvict" /\ objects \subseteq Referenced
    /\ GoTo(p, "prune")
    /\ UNCHANGED <<objects, live, arts, lastWorking, leaks, nextId, mu, frames, walk>>

CaptureDone(p) ==
    /\ pc[p] = "gcDone" /\ objects \subseteq Referenced
    /\ Return(p)
    /\ UNCHANGED <<objects, live, arts, lastWorking, leaks, nextId, listed>>

(* A directory read or a remove fails inside prune. *)
PruneError(p) ==
    /\ pc[p] \in {"prune", "walk", "evict", "gcEvict", "gcDone"}
    /\ GoTo(p, "undo")
    /\ listed' = {}
    /\ UNCHANGED <<objects, live, arts, lastWorking, leaks, nextId, mu, frames, usage>>

(* prune failed: the new manifest is removed - the error of the remove is  *)
(* ignored, so it may stay - and the snapshots already evicted stay gone.  *)
UndoManifest(p) ==
    /\ pc[p] = "undo"
    /\ Unpublish(cur[p]) \/ UNCHANGED <<live, arts>>
    /\ GoTo(p, "gcUndo")
    /\ UNCHANGED <<objects, lastWorking, leaks, nextId, mu, frames, walk>>

(* The final gcObjects, whose error is ignored too. *)
CaptureFailed(p) ==
    /\ pc[p] = "gcUndo"
    /\ Return(p)
    /\ UNCHANGED <<objects, live, arts, lastWorking, leaks, nextId, listed>>

---------------------------------------------------------------------------
(* MarkLastWorking: Get, then the write of state.json, without the mutex.  *)

MarkGet(p, id) ==
    /\ pc[p] = "idle" /\ id \in live
    /\ GoTo(p, "mark")
    /\ cur' = [cur EXCEPT ![p] = id]
    /\ UNCHANGED <<objects, live, arts, lastWorking, leaks, nextId, mu, got, victim, walk>>

(* WriteFileAtomic creates its temporary file, or fails. *)
MarkCreate(p) ==
    /\ pc[p] = "mark"
    /\ \/ GoTo(p, "rename") /\ UNCHANGED cur
       \/ GoTo(p, "idle") /\ cur' = [cur EXCEPT ![p] = None]
    /\ UNCHANGED <<objects, live, arts, lastWorking, leaks, nextId, mu, got, victim, walk>>

(* The temporary file is renamed, or removed because the write failed: a   *)
(* walk that has listed it will not find it.                               *)
MarkRename(p) ==
    /\ pc[p] = "rename"
    /\ lastWorking' \in {lastWorking, cur[p]}
    /\ listed' = listed \ {p}
    /\ usage' = IF p \in listed THEN 0 ELSE usage
    /\ GoTo(p, "idle")
    /\ cur' = [cur EXCEPT ![p] = None]
    /\ UNCHANGED <<objects, live, arts, leaks, nextId, mu, got, victim>>

---------------------------------------------------------------------------
(* routerforge-admin stops at any point and is started again: the disk     *)
(* stays, handlers and mutex do not.  A WriteFileAtomic cut short - of a   *)
(* mark, or of the Capture that may be writing an object or its manifest - *)
(* leaves its temporary file, which counts in storeBytes and is never      *)
(* collected.                                                              *)
Crash ==
    /\ \E p \in Procs : pc[p] # "idle"
    /\ \E cut \in 0..1 :
        /\ cut = 1 => \E p \in Procs : pc[p] = "read"
        /\ leaks' = leaks + Cardinality(TempFiles) + cut
        /\ leaks' \in 0..MaxLeaks
    /\ mu' = None
    /\ pc' = [p \in Procs |-> "idle"]
    /\ got' = [p \in Procs |-> {}]
    /\ cur' = [p \in Procs |-> None]
    /\ victim' = [p \in Procs |-> None]
    /\ listed' = {} /\ usage' = 0
    /\ UNCHANGED <<objects, live, arts, lastWorking, nextId>>

CaptureStep(p) ==
    \/ \E content \in Contents : EnsureObject(p, content) \/ CollectObject(p, content)
    \/ WriteManifest(p)
    \/ ListRoot(p)
    \/ Prune(p)
    \/ RemoveVictim(p)
    \/ GcEvictDone(p)
    \/ CaptureDone(p)
    \/ UndoManifest(p)
    \/ CaptureFailed(p)

Next ==
    \/ \E p \in Procs :
        \/ CaptureBegin(p)
        \/ CaptureStep(p)
        \/ CaptureAbort(p)
        \/ PruneError(p)
        \/ \E id \in Ids : MarkGet(p, id)
        \/ MarkCreate(p)
        \/ MarkRename(p)
    \/ Crash

Spec == Init /\ [][Next]_vars

(* The handler goroutine that is inside Capture is scheduled. *)
Fairness == \A p \in Procs : WF_vars(CaptureStep(p))

FairSpec == Spec /\ Fairness

---------------------------------------------------------------------------
(* Properties.                                                             *)

TypeOK ==
    /\ objects \subseteq Contents
    /\ live \subseteq Ids
    /\ arts \in [Ids -> SUBSET Contents]
    /\ lastWorking \in Ids \cup {None}
    /\ leaks \in 0..MaxLeaks
    /\ nextId \in 1..(MaxCaptures + 1)
    /\ mu \in Procs \cup {None}
    /\ pc \in [Procs -> Phases]
    /\ got \in [Procs -> SUBSET Contents]
    /\ cur \in [Procs -> Ids \cup {None}]
    /\ victim \in [Procs -> Ids \cup {None}]
    /\ listed \subseteq Procs

(* A handler is inside Capture exactly while it holds the mutex. *)
HolderInCapture ==
    \A p \in Procs : pc[p] \notin Outside <=> mu = p

(* What the frame of a handler inside Capture says of the store. *)
FramesCoherent ==
    \A p \in Procs :
        /\ pc[p] \in Outside => got[p] = {}
        /\ pc[p] = "read" => got[p] \subseteq objects
        /\ pc[p] \in {"mark", "rename"} => cur[p] \in Ids
        /\ pc[p] \in RetentionPhases => cur[p] \in Ids /\ nextId = cur[p] + 1
        /\ pc[p] = "evict" =>
            /\ victim[p] \in live /\ victim[p] # cur[p]
            /\ \A id, other \in {o \in live : o < victim[p]} : id = other

(* The clock is ahead of every snapshot. *)
ClockAhead == \A id \in live : id < nextId

(* Every snapshot on disk can be read back in full, whatever Capture,      *)
(* prune or gcObjects is in the middle of, and after a crash at any point: *)
(* objects are shared, so removing one manifest must not take the objects  *)
(* of another, and an object is written before the manifest that names it. *)
SnapshotsRestorable == \A id \in live : arts[id] \subseteq objects

(* The inductive invariant: the mutex is what keeps the objects of a       *)
(* Capture that has not published its manifest yet from being collected.   *)
VaultInv ==
    /\ TypeOK
    /\ HolderInCapture
    /\ FramesCoherent
    /\ ClockAhead
    /\ SnapshotsRestorable

(* A Capture that reports success leaves its own snapshot in the store, no *)
(* orphan object and at most maxSnapshots, and keeps the store within      *)
(* maxStoreBytes; state.json and its temporary file, which an unlocked     *)
(* MarkLastWorking may create meanwhile, are not counted.  The exception:  *)
(* a mark that ended during the walk has made storeBytes answer 0, and the *)
(* byte limit is then not enforced at all.                                 *)
CaptureContract ==
    [][\A p \in Procs :
        CaptureDone(p) =>
            /\ cur[p] \in live'
            /\ Cardinality(live') <= MaxSnapshots
            /\ usage # 0 =>
                Cardinality(objects') + Cardinality(live') + leaks' <= MaxStoreBytes
            /\ objects' = Referenced']_vars

(* What CaptureContract rests on besides: prune never removes the snapshot *)
(* it is run for, what storeBytes answers is 0 or no less than what there  *)
(* is, and the limits prune has found kept stay kept while gcObjects       *)
(* removes files.                                                          *)
RetentionKept ==
    /\ IsFiniteSet(objects) /\ usage \in Nat
    /\ \A p \in Procs :
        /\ pc[p] \in {"prune", "walk", "evict", "gcEvict", "gcDone"} => cur[p] \in live
        /\ pc[p] = "walk" /\ usage # 0 =>
            Cardinality(objects) + Cardinality(live) + leaks <= usage
        /\ pc[p] = "gcDone" =>
            /\ Cardinality(live) <= MaxSnapshots
            /\ usage # 0 =>
                Cardinality(objects) + Cardinality(live) + leaks <= MaxStoreBytes

(* "last working snapshot must survive retention", as                      *)
(* TestLastWorkingIsPinnedDuringRetention puts it: the manifest prune has  *)
(* just removed is not the one state.json names as LAST WORKING.           *)
LastWorkingSurvives ==
    \A p \in Procs : pc[p] = "gcEvict" => victim[p] # lastWorking

(* A Capture always returns: each turn of prune's loop removes a manifest. *)
CaptureReturns == \A p \in Procs : pc[p] = "read" ~> pc[p] = "idle"

(* The vault implements the abstract snapshot store. *)
Restorable == {id \in live : arts[id] \subseteq objects}

Saving == IF mu # None /\ pc[mu] \in RetentionPhases THEN cur[mu] ELSE None

Store == INSTANCE SnapshotStore WITH
            saved <- Restorable, pinned <- lastWorking, saving <- Saving

ImplementsSnapshotStore == Store!SSpec
====
