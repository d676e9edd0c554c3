---- MODULE SnapshotStore ----
(***************************************************************************)
(* What the Config Vault promises its callers, with the content-addressed  *)
(* object files, the mutex and the individual file operations hidden.      *)
(*                                                                         *)
(* A snapshot is either saved - every byte of every artifact can be read   *)
(* back - or gone.  At most one snapshot is being saved at a time; while   *)
(* that lasts, older snapshots may be evicted, oldest first, where the one *)
(* snapshot that is pinned as LAST WORKING may be skipped.  No other event *)
(* makes a saved snapshot unreadable.                                      *)
(***************************************************************************)
EXTENDS Integers, FiniteSets

CONSTANTS
    MaxCaptures,  \* bound on the snapshots ever taken
    None          \* "no snapshot"

VARIABLES
    saved,    \* the snapshots that can be read back in full
    pinned,   \* the snapshot recorded as LAST WORKING
    saving    \* the snapshot whose Capture is in its retention phase

svars == <<saved, pinned, saving>>

SnapshotIds == 1..MaxCaptures

SInit == saved = {} /\ pinned = None /\ saving = None

(* A new snapshot becomes readable in one step, and is newer than all others. *)
Save(id) ==
    /\ saving = None
    /\ \A other \in saved : other < id
    /\ saved' = saved \cup {id}
    /\ saving' = id
    /\ UNCHANGED pinned

(* Retention drops the oldest snapshot, or the one after a skipped pin. *)
Evict(id) ==
    /\ saving # None /\ id # saving
    /\ \A other, another \in {o \in saved : o < id} : other = another
    /\ saved' = saved \ {id}
    /\ UNCHANGED <<pinned, saving>>

(* A Capture that cannot meet the limits takes its own snapshot back. *)
Withdraw ==
    /\ saving # None
    /\ saved' = saved \ {saving}
    /\ UNCHANGED <<pinned, saving>>

EndSave ==
    /\ saving # None
    /\ saving' = None
    /\ UNCHANGED <<saved, pinned>>

Pin(id) ==
    /\ pinned' = id
    /\ UNCHANGED <<saved, saving>>

SNext ==
    \/ \E id \in SnapshotIds : Save(id) \/ Evict(id) \/ Pin(id)
    \/ Withdraw
    \/ EndSave

SSpec == SInit /\ [][SNext]_svars
====
