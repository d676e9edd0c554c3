---- MODULE ConfigVaultProofs ----
(***************************************************************************)
(* The Config Vault keeps every snapshot on disk restorable, for any       *)
(* number of handlers, contents and snapshots and any retention limits,    *)
(* and implements the abstract snapshot store.                             *)
(***************************************************************************)
EXTENDS ConfigVault, FiniteSetTheorems, TLAPS

LEMMA InitEstablishesInv == Init => VaultInv
  <1> SUFFICES ASSUME Init PROVE VaultInv
    OBVIOUS
  <1> USE ConstantsAssumption, NoneAssumption DEF Init, Ids
  <1>1. TypeOK
    BY DEF TypeOK, Phases, Outside
  <1>2. HolderInCapture
    BY DEF HolderInCapture, Outside
  <1>3. FramesCoherent /\ ClockAhead /\ SnapshotsRestorable
    BY DEF Outside, FramesCoherent, ClockAhead, SnapshotsRestorable, RetentionPhases
  <1> QED BY <1>1, <1>2, <1>3 DEF VaultInv

LEMMA NextPreservesInv == VaultInv /\ [Next]_vars => VaultInv'
  <1> SUFFICES ASSUME VaultInv, [Next]_vars PROVE VaultInv'
    OBVIOUS
  <1> USE ConstantsAssumption, NoneAssumption DEF Ids
  <1> USE DEF VaultInv, TypeOK, Phases, Outside, RetentionPhases, HolderInCapture,
              FramesCoherent, ClockAhead, SnapshotsRestorable, GoTo, Return,
              Publish, Unpublish, frames, walk
  <1>1. ASSUME NEW p \in Procs, CaptureBegin(p) PROVE VaultInv'
    <2> USE <1>1 DEF CaptureBegin
    <2>1. TypeOK'
      OBVIOUS
    <2>2. HolderInCapture'
      OBVIOUS
    <2>3. FramesCoherent'
      OBVIOUS
    <2>4. ClockAhead' /\ SnapshotsRestorable'
      OBVIOUS
    <2> QED BY <2>1, <2>2, <2>3, <2>4
  <1>2. ASSUME NEW p \in Procs, NEW content \in Contents, EnsureObject(p, content)
        PROVE VaultInv'
    BY <1>2 DEF EnsureObject
  <1>3. ASSUME NEW p \in Procs, NEW content \in Contents, CollectObject(p, content)
        PROVE VaultInv'
    <2> USE <1>3 DEF CollectObject, Referenced
    <2>1. TypeOK'
      OBVIOUS
    <2>2. HolderInCapture'
      OBVIOUS
    <2>3. FramesCoherent'
      OBVIOUS
    <2>4. ClockAhead' /\ SnapshotsRestorable'
      OBVIOUS
    <2> QED BY <2>1, <2>2, <2>3, <2>4
  <1>4. ASSUME NEW p \in Procs, CaptureAbort(p) PROVE VaultInv'
    BY <1>4 DEF CaptureAbort
  <1>5. ASSUME NEW p \in Procs, WriteManifest(p) PROVE VaultInv'
    BY <1>5 DEF WriteManifest
  <1>6. ASSUME NEW p \in Procs, Prune(p) PROVE VaultInv'
    BY <1>6 DEF Prune, IsOldest, Evictable
  <1>7. ASSUME NEW p \in Procs, RemoveVictim(p) PROVE VaultInv'
    <2> USE <1>7 DEF RemoveVictim
    <2>1. TypeOK'
      OBVIOUS
    <2>2. HolderInCapture'
      OBVIOUS
    <2>3. FramesCoherent'
      OBVIOUS
    <2>4. ClockAhead' /\ SnapshotsRestorable'
      OBVIOUS
    <2> QED BY <2>1, <2>2, <2>3, <2>4
  <1>8. ASSUME NEW p \in Procs, GcEvictDone(p) PROVE VaultInv'
    BY <1>8 DEF GcEvictDone
  <1>9. ASSUME NEW p \in Procs, CaptureDone(p) PROVE VaultInv'
    BY <1>9 DEF CaptureDone
  <1>10. ASSUME NEW p \in Procs, PruneError(p) PROVE VaultInv'
    BY <1>10 DEF PruneError
  <1>11. ASSUME NEW p \in Procs, UndoManifest(p) PROVE VaultInv'
    <2> USE <1>11 DEF UndoManifest
    <2>1. TypeOK'
      OBVIOUS
    <2>2. HolderInCapture'
      OBVIOUS
    <2>3. FramesCoherent'
      OBVIOUS
    <2>4. ClockAhead' /\ SnapshotsRestorable'
      <3>1. CASE Unpublish(cur[p])
        BY <3>1
      <3>2. CASE UNCHANGED <<live, arts>>
        BY <3>2
      <3> QED BY <3>1, <3>2
    <2> QED BY <2>1, <2>2, <2>3, <2>4
  <1>12. ASSUME NEW p \in Procs, CaptureFailed(p) PROVE VaultInv'
    BY <1>12 DEF CaptureFailed
  <1>13. ASSUME NEW p \in Procs, NEW id \in Ids, MarkGet(p, id) PROVE VaultInv'
    BY <1>13 DEF MarkGet
  <1>14. ASSUME NEW p \in Procs, MarkCreate(p) \/ MarkRename(p) PROVE VaultInv'
    <2>1. CASE MarkCreate(p)
      BY <2>1 DEF MarkCreate
    <2>2. CASE MarkRename(p)
      BY <2>2 DEF MarkRename
    <2> QED BY <1>14, <2>1, <2>2
  <1>15. ASSUME Crash PROVE VaultInv'
    BY <1>15 DEF Crash
  <1>16. ASSUME UNCHANGED vars PROVE VaultInv'
    BY <1>16 DEF vars
  <1>17. ASSUME NEW p \in Procs, ListRoot(p) PROVE VaultInv'
    BY <1>17 DEF ListRoot, TempFiles
  <1> QED
    BY <1>1, <1>2, <1>3, <1>4, <1>5, <1>6, <1>7, <1>8, <1>9, <1>10, <1>11,
       <1>12, <1>13, <1>14, <1>15, <1>16, <1>17 DEF Next, CaptureStep

(* VaultInv holds in every reachable state: in particular the mutex is     *)
(* held exactly by the handler inside Capture, and the objects it has      *)
(* written so far are still there when it publishes its manifest.          *)
THEOREM VaultInvariant == Spec => []VaultInv
  BY InitEstablishesInv, NextPreservesInv, PTL DEF Spec

(* Whatever Capture, prune, gcObjects and MarkLastWorking do, and wherever *)
(* a crash cuts them short, every manifest on disk has all its objects.    *)
THEOREM RestorableAlways == Spec => []SnapshotsRestorable
  <1>1. VaultInv => SnapshotsRestorable
    BY DEF VaultInv
  <1> QED BY VaultInvariant, <1>1, PTL

---------------------------------------------------------------------------
(* Refinement.                                                             *)

LEMMA AllRestorable == VaultInv => Restorable = live
  BY DEF VaultInv, SnapshotsRestorable, Restorable

(* The handler inside Capture is the one the abstract `saving` speaks of. *)
LEMMA SavingOfHolder ==
  ASSUME VaultInv, NEW p \in Procs, pc[p] \in RetentionPhases
  PROVE  Saving = cur[p] /\ Saving # None
  BY NoneAssumption
  DEF VaultInv, HolderInCapture, FramesCoherent, RetentionPhases, Outside, Saving

LEMMA InitRefines == Init => Store!SInit
  BY NoneAssumption DEF Init, Store!SInit, Restorable, Saving

(* While a handler is in a retention phase before and after the step, and  *)
(* keeps its snapshot, `saving` does not change.                           *)
LEMMA SavingKept ==
  ASSUME VaultInv, VaultInv', NEW p \in Procs,
         pc[p] \in RetentionPhases, pc'[p] \in RetentionPhases, cur'[p] = cur[p]
  PROVE  Saving' = Saving
  <1>1. Saving = cur[p] /\ Saving' = cur'[p]
    BY NoneAssumption
    DEF VaultInv, HolderInCapture, FramesCoherent, RetentionPhases, Outside, Saving
  <1> QED BY <1>1

LEMMA StepRefines ==
  VaultInv /\ VaultInv' /\ [Next]_vars => [Store!SNext]_(Store!svars)
  <1> SUFFICES ASSUME VaultInv, VaultInv', [Next]_vars
               PROVE  [Store!SNext]_(Store!svars)
    OBVIOUS
  <1>0. Restorable = live /\ Restorable' = live'
    BY AllRestorable DEF VaultInv, SnapshotsRestorable, Restorable
  <1> USE NoneAssumption, ConstantsAssumption
      DEF VaultInv, TypeOK, HolderInCapture, Outside, Ids, GoTo, frames, Return
  <1> DEFINE Stutter == live' = live /\ lastWorking' = lastWorking /\ Saving' = Saving
  <1>s. Stutter => [Store!SNext]_(Store!svars)
    BY <1>0 DEF Store!svars
  <1> USE DEF Saving, RetentionPhases
  <1>1. ASSUME NEW p \in Procs, CaptureBegin(p) PROVE Stutter
    BY <1>1 DEF CaptureBegin
  <1>2. ASSUME NEW p \in Procs, NEW content \in Contents, EnsureObject(p, content)
        PROVE Stutter
    BY <1>2 DEF EnsureObject
  <1>3. ASSUME NEW p \in Procs, NEW content \in Contents, CollectObject(p, content)
        PROVE Stutter
    BY <1>3 DEF CollectObject
  <1>4. ASSUME NEW p \in Procs, CaptureAbort(p) PROVE Stutter
    BY <1>4 DEF CaptureAbort
  <1>5. ASSUME NEW p \in Procs, WriteManifest(p) PROVE Store!Save(nextId) /\ nextId \in Ids
    BY <1>0, <1>5 DEF WriteManifest, Publish, ClockAhead, Store!Save
  <1>6. ASSUME NEW p \in Procs, Prune(p) PROVE Stutter
    BY <1>6, SavingKept DEF Prune
  <1>7. ASSUME NEW p \in Procs, RemoveVictim(p)
        PROVE Store!Evict(victim[p]) /\ victim[p] \in Ids
    <2>1. Saving # None /\ Saving = cur[p] /\ Saving' = Saving
      BY <1>7, SavingOfHolder, SavingKept DEF RemoveVictim
    <2>2. /\ victim[p] \in live /\ victim[p] # cur[p]
          /\ \A id, other \in {o \in live : o < victim[p]} : id = other
      BY <1>7 DEF RemoveVictim, FramesCoherent
    <2> QED BY <1>0, <1>7, <2>1, <2>2 DEF RemoveVictim, Unpublish, Store!Evict
  <1>8. ASSUME NEW p \in Procs, GcEvictDone(p) PROVE Stutter
    BY <1>8, SavingKept DEF GcEvictDone
  <1>9. ASSUME NEW p \in Procs, CaptureDone(p) PROVE Store!EndSave
    BY <1>0, <1>9, SavingOfHolder DEF CaptureDone, Store!EndSave
  <1>10. ASSUME NEW p \in Procs, PruneError(p) PROVE Stutter
    BY <1>10, SavingKept DEF PruneError
  <1>11. ASSUME NEW p \in Procs, UndoManifest(p) PROVE Store!Withdraw \/ Stutter
    <2>1. Saving # None /\ Saving = cur[p] /\ Saving' = Saving
      BY <1>11, SavingOfHolder, SavingKept DEF UndoManifest
    <2>2. CASE Unpublish(cur[p])
      BY <1>0, <1>11, <2>1, <2>2 DEF UndoManifest, Unpublish, Store!Withdraw
    <2>3. CASE UNCHANGED <<live, arts>>
      BY <1>11, <2>1, <2>3 DEF UndoManifest
    <2> QED BY <1>11, <2>2, <2>3 DEF UndoManifest
  <1>12. ASSUME NEW p \in Procs, CaptureFailed(p) PROVE Store!EndSave
    BY <1>0, <1>12, SavingOfHolder DEF CaptureFailed, Store!EndSave
  <1>13. ASSUME NEW p \in Procs, NEW id \in Ids, MarkGet(p, id) PROVE Stutter
    BY <1>13 DEF MarkGet
  <1>14. ASSUME NEW p \in Procs, MarkRename(p)
         PROVE Stutter \/ (Store!Pin(cur[p]) /\ cur[p] \in Ids)
    <2>1. live' = live /\ Saving' = Saving /\ cur[p] \in Ids
      BY <1>14 DEF MarkRename, FramesCoherent
    <2> QED BY <1>0, <1>14, <2>1 DEF MarkRename, Store!Pin
  <1>15. ASSUME Crash PROVE Stutter \/ Store!EndSave
    BY <1>0, <1>15 DEF Crash, Store!EndSave
  <1>16. ASSUME UNCHANGED vars PROVE Stutter
    BY <1>16 DEF vars
  <1>18. ASSUME NEW p \in Procs, ListRoot(p) PROVE Stutter
    BY <1>18, SavingKept DEF ListRoot
  <1>19. ASSUME NEW p \in Procs, MarkCreate(p) PROVE Stutter
    BY <1>19 DEF MarkCreate
  <1>17. CASE Next
    <2> HIDE DEF Stutter
    <2> SUFFICES Stutter \/ Store!SNext
      BY <1>s
    <2> QED
      BY <1>1, <1>2, <1>3, <1>4, <1>5, <1>6, <1>7, <1>8, <1>9, <1>10, <1>11,
         <1>12, <1>13, <1>14, <1>15, <1>17, <1>18, <1>19
      DEF Next, CaptureStep, Store!SNext, Store!SnapshotIds
  <1> QED BY <1>s, <1>16, <1>17

(* Every behaviour of the vault is one of the abstract snapshot store: a   *)
(* snapshot that can be read back stops being so only when retention       *)
(* evicts it, oldest first, or when its own Capture takes it back.         *)
THEOREM VaultImplementsStore == Spec => ImplementsSnapshotStore
  <1>1. Spec => []VaultInv
    BY VaultInvariant
  <1> QED BY InitRefines, StepRefines, <1>1, PTL
     DEF Spec, Store!SSpec, ImplementsSnapshotStore

---------------------------------------------------------------------------
(* The contract of Capture.                                                *)

(* Both directories hold finitely many files, so that counting them makes  *)
(* sense for infinite Contents too.                                        *)
LEMMA Counts ==
  ASSUME VaultInv, RetentionKept
  PROVE  /\ IsFiniteSet(live) /\ Cardinality(live) \in Nat
         /\ Cardinality(objects) \in Nat /\ leaks \in Nat
         /\ Cardinality(TempFiles) \in Nat
  <1>1. IsFiniteSet(Ids)
    BY ConstantsAssumption, FS_Interval DEF Ids
  <1>2. IsFiniteSet(live)
    BY <1>1, FS_Subset DEF VaultInv, TypeOK
  <1>3. Cardinality(TempFiles) \in Nat
    <2>1. TempFiles \subseteq Procs
      BY DEF TempFiles
    <2> QED BY <2>1, ProcsAssumption, FS_Subset, FS_CardinalityType
  <1> QED BY <1>2, <1>3, FS_CardinalityType, ConstantsAssumption
          DEF VaultInv, TypeOK, RetentionKept

(* A step that keeps the files and does not enter a walk keeps the limits; *)
(* the answer of storeBytes may only turn into 0.                          *)
LEMMA QuietRetention ==
  ASSUME RetentionKept, UNCHANGED <<objects, live, leaks>>, usage' \in {0, usage},
         \A p \in Procs :
            /\ pc'[p] \in {"prune", "walk", "evict", "gcEvict", "gcDone"} =>
                 pc[p] \in {"prune", "walk", "evict", "gcEvict", "gcDone"} /\ cur'[p] = cur[p]
            /\ pc'[p] \in {"walk", "gcDone"} => pc[p] = pc'[p]
  PROVE  RetentionKept'
  BY DEF RetentionKept

(* While a handler is inside Capture no other is. *)
LEMMA OthersOutside ==
  ASSUME VaultInv, NEW p \in Procs, pc[p] \notin Outside, NEW q \in Procs, q # p
  PROVE  pc[q] \in Outside
  BY DEF VaultInv, HolderInCapture

LEMMA RetentionStep ==
  ASSUME VaultInv, VaultInv', RetentionKept, [Next]_vars
  PROVE  RetentionKept'
  <1>0. pc \in [Procs -> Phases] /\ cur \in [Procs -> Ids \cup {None}]
    BY DEF VaultInv, TypeOK
  <1> DEFINE Busy == {"prune", "walk", "evict", "gcEvict", "gcDone"}
  <1>1. ASSUME NEW p \in Procs, CaptureBegin(p) PROVE RetentionKept'
    BY <1>0, <1>1, QuietRetention DEF CaptureBegin, GoTo, frames, walk
  <1>2. ASSUME NEW p \in Procs, NEW content \in Contents, EnsureObject(p, content)
        PROVE RetentionKept'
    <2>1. IsFiniteSet(objects') /\ usage' \in Nat
      BY <1>2, FS_AddElement DEF EnsureObject, RetentionKept, walk
    <2>2. \A q \in Procs : pc'[q] \notin Busy
      BY <1>2, OthersOutside DEF EnsureObject, Outside
    <2> QED BY <2>1, <2>2 DEF RetentionKept
  <1>3. ASSUME NEW p \in Procs, NEW content \in Contents, CollectObject(p, content)
        PROVE RetentionKept'
    <2>1. /\ content \in objects /\ objects' = objects \ {content}
          /\ UNCHANGED <<live, leaks, pc, cur, usage>>
      BY <1>3 DEF CollectObject, frames, walk
    <2>2. IsFiniteSet(objects') /\ Cardinality(objects') = Cardinality(objects) - 1
      BY <2>1, FS_RemoveElement DEF RetentionKept
    <2>3. Cardinality(objects') <= Cardinality(objects)
      BY <2>2, Counts
    <2>4. Cardinality(objects') \in Nat
      BY <2>2, FS_CardinalityType
    <2>5. \A m, n, a, b, c \in Nat : m <= n /\ n + a + b <= c => m + a + b <= c
      OBVIOUS
    <2>6. \A q \in Procs : pc[q] = "gcDone" /\ usage # 0 =>
            Cardinality(objects') + Cardinality(live) + leaks <= MaxStoreBytes
      BY <2>3, <2>4, <2>5, Counts, ConstantsAssumption DEF RetentionKept
    <2>7. \A q \in Procs : pc[q] # "walk"
      BY <1>3, OthersOutside DEF CollectObject, Outside
    <2> QED BY <2>1, <2>2, <2>6, <2>7 DEF RetentionKept
  <1>4. ASSUME NEW p \in Procs, CaptureAbort(p) PROVE RetentionKept'
    BY <1>0, <1>4, QuietRetention DEF CaptureAbort, Return, GoTo
  <1>5. ASSUME NEW p \in Procs, WriteManifest(p) PROVE RetentionKept'
    <2>1. pc'[p] = "prune" /\ cur'[p] \in live' /\ UNCHANGED <<objects, usage>>
      BY <1>0, <1>5 DEF WriteManifest, Publish, GoTo, walk
    <2>2. \A q \in Procs : q # p => pc'[q] \notin Busy
      BY <1>0, <1>5, OthersOutside DEF WriteManifest, GoTo, Outside
    <2> QED BY <2>1, <2>2 DEF RetentionKept
  <1>6. ASSUME NEW p \in Procs, Prune(p) PROVE RetentionKept'
    <2>1. pc[p] = "walk" /\ UNCHANGED <<objects, live, leaks, lastWorking, cur, usage>>
      BY <1>6 DEF Prune
    <2>2. \A q \in Procs : q # p => pc'[q] \notin Busy
      BY <1>0, <1>6, OthersOutside DEF Prune, GoTo, Outside
    <2>3. pc'[p] \in {"gcDone", "undo", "evict"} /\ (pc'[p] = "gcDone" => WithinLimits)
      BY <1>0, <1>6 DEF Prune, GoTo
    <2>4. WithinLimits =>
            /\ Cardinality(live) <= MaxSnapshots
            /\ usage # 0 => Cardinality(objects) + Cardinality(live) + leaks <= MaxStoreBytes
      BY <2>1, Counts, ConstantsAssumption DEF WithinLimits, RetentionKept
    <2> QED BY <2>1, <2>2, <2>3, <2>4 DEF RetentionKept
  <1>7. ASSUME NEW p \in Procs, RemoveVictim(p) PROVE RetentionKept'
    <2>1. /\ pc[p] = "evict" /\ pc'[p] = "gcEvict" /\ live' = live \ {victim[p]}
          /\ UNCHANGED <<objects, cur, usage>>
      BY <1>0, <1>7 DEF RemoveVictim, GoTo, Unpublish, frames, walk
    <2>2. victim[p] # cur[p]
      BY <2>1 DEF VaultInv, FramesCoherent
    <2>3. \A q \in Procs : q # p => pc'[q] \notin Busy
      BY <1>0, <1>7, OthersOutside DEF RemoveVictim, GoTo, Outside
    <2> QED BY <2>1, <2>2, <2>3 DEF RetentionKept
  <1>8. ASSUME NEW p \in Procs, GcEvictDone(p) PROVE RetentionKept'
    BY <1>0, <1>8, QuietRetention DEF GcEvictDone, GoTo, frames, walk
  <1>9. ASSUME NEW p \in Procs, CaptureDone(p) PROVE RetentionKept'
    BY <1>0, <1>9, QuietRetention DEF CaptureDone, Return, GoTo
  <1>10. ASSUME NEW p \in Procs, PruneError(p) PROVE RetentionKept'
    BY <1>0, <1>10, QuietRetention DEF PruneError, GoTo, frames
  <1>11. ASSUME NEW p \in Procs, UndoManifest(p) PROVE RetentionKept'
    <2>1. pc[p] = "undo" /\ pc'[p] = "gcUndo" /\ UNCHANGED <<objects, usage>>
      BY <1>0, <1>11 DEF UndoManifest, GoTo, walk
    <2>2. \A q \in Procs : pc'[q] \notin Busy
      BY <1>0, <1>11, <2>1, OthersOutside DEF UndoManifest, GoTo, Outside
    <2> QED BY <2>1, <2>2 DEF RetentionKept
  <1>12. ASSUME NEW p \in Procs, CaptureFailed(p) PROVE RetentionKept'
    BY <1>0, <1>12, QuietRetention DEF CaptureFailed, Return, GoTo
  <1>13. ASSUME NEW p \in Procs, NEW id \in Ids, MarkGet(p, id) PROVE RetentionKept'
    BY <1>0, <1>13, QuietRetention DEF MarkGet, GoTo, walk
  <1>14. ASSUME NEW p \in Procs, MarkCreate(p) PROVE RetentionKept'
    BY <1>0, <1>14, QuietRetention DEF MarkCreate, GoTo, walk
  <1>15. ASSUME NEW p \in Procs, MarkRename(p) PROVE RetentionKept'
    BY <1>0, <1>15, QuietRetention DEF MarkRename, GoTo
  <1>16. ASSUME NEW p \in Procs, ListRoot(p) PROVE RetentionKept'
    <2>1. /\ pc[p] = "prune" /\ pc'[p] = "walk" /\ usage' = StoreBytes
          /\ UNCHANGED <<objects, live, leaks, cur>>
      BY <1>0, <1>16 DEF ListRoot, GoTo, frames
    <2>2. \A q \in Procs : q # p => pc'[q] \notin Busy
      BY <1>0, <1>16, OthersOutside DEF ListRoot, GoTo, Outside
    <2>3. StoreBytes \in Nat /\ Cardinality(objects) + Cardinality(live) + leaks <= StoreBytes
      BY Counts DEF StoreBytes
    <2> QED BY <2>1, <2>2, <2>3 DEF RetentionKept
  <1>17. ASSUME Crash PROVE RetentionKept'
    BY <1>17 DEF Crash, RetentionKept
  <1>18. ASSUME UNCHANGED vars PROVE RetentionKept'
    BY <1>18, QuietRetention DEF vars
  <1> QED
    BY <1>1, <1>2, <1>3, <1>4, <1>5, <1>6, <1>7, <1>8, <1>9, <1>10, <1>11,
       <1>12, <1>13, <1>14, <1>15, <1>16, <1>17, <1>18 DEF Next, CaptureStep

(* A Capture that reports success has kept its own snapshot, left the      *)
(* store within maxSnapshots and collected every orphan, although          *)
(* MarkLastWorking runs beside it without the mutex and crashes have left  *)
(* temporary files that nobody collects; and within maxStoreBytes, unless  *)
(* the temporary file of a mark vanished under the walk of storeBytes,     *)
(* which then takes the store for empty.                                   *)
THEOREM CaptureContractAlways == Spec => CaptureContract
  <1>1. Init => RetentionKept
    BY FS_EmptySet DEF Init, RetentionKept
  <1>2. ASSUME VaultInv, RetentionKept, NEW p \in Procs, CaptureDone(p)
        PROVE  /\ cur[p] \in live'
               /\ Cardinality(live') <= MaxSnapshots
               /\ usage # 0 =>
                    Cardinality(objects') + Cardinality(live') + leaks' <= MaxStoreBytes
               /\ objects' = Referenced'
    <2>1. /\ pc[p] = "gcDone" /\ objects \subseteq Referenced
          /\ UNCHANGED <<objects, live, arts, leaks>>
      BY <1>2 DEF CaptureDone
    <2>2. Referenced \subseteq objects /\ Referenced' = Referenced
      BY <1>2, <2>1 DEF Referenced, VaultInv, SnapshotsRestorable
    <2> QED BY <1>2, <2>1, <2>2 DEF RetentionKept
  <1>3. VaultInv /\ RetentionKept =>
          \A p \in Procs : CaptureDone(p) =>
            /\ cur[p] \in live'
            /\ Cardinality(live') <= MaxSnapshots
            /\ usage # 0 =>
                 Cardinality(objects') + Cardinality(live') + leaks' <= MaxStoreBytes
            /\ objects' = Referenced'
    BY <1>2
  <1>4. VaultInv /\ VaultInv' /\ RetentionKept /\ [Next]_vars => RetentionKept'
    BY RetentionStep
  <1> QED BY VaultInvariant, <1>1, <1>3, <1>4, PTL DEF Spec, CaptureContract
====
