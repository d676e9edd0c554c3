---- MODULE ManagedConfig ----
(***************************************************************************)
(* routerforge-admin: the handlers that change the managed configuration   *)
(* /opt/etc/routerforge, and the Config Vault restore transaction.         *)
(*                                                                         *)
(* Every handler that replaces, moves or deletes a managed file takes      *)
(* adminConfigVaultMutationMu, checks again that the file is the one its   *)
(* client saw, captures a pre-change snapshot and only then changes the    *)
(* file.  The restore transaction captures a safety snapshot, writes the   *)
(* files of the target one by one, removes the others, reads everything    *)
(* back and, when that fails, applies the safety snapshot the same way.    *)
(* The restore of a backup archive swaps the whole root with two renames.  *)
(*                                                                         *)
(* Outside the mutex are: the staging file of a write or copy, which lives *)
(* in the managed directory and is created before the lock is taken and    *)
(* cleaned up after it is released; other RouterForge processes, which     *)
(* write their own settings there; and a restore's look-up of its target.  *)
(*                                                                         *)
(* Capture is one step here: ConfigVault, which models its file operations,*)
(* shows that a published snapshot can be read back.  Its size limits are  *)
(* the choice of how many snapshots stay, its I/O errors the choice to     *)
(* fail.  LAST WORKING, file modes and the directories themselves are left *)
(* out.                                                                    *)
(***************************************************************************)
EXTENDS Integers, FiniteSets, Transaction

CONSTANTS
    Procs,         \* concurrent handlers
    Paths,         \* managed configuration files
    Temps,         \* names os.CreateTemp returns: each is used once
    Contents,
    Absent,        \* content of a file that does not exist
    None,
    MaxCaptures,   \* bound on the snapshots ever taken
    MaxSnapshots,  \* retention: Store.maxSnapshots
    MaxExternal,   \* bound on the writes of other processes
    MaxCrashes     \* bound on the restarts of routerforge-admin

Files == Paths \cup Temps
Ids   == 1..MaxCaptures

ASSUME BoundsAssumption ==
    /\ MaxCaptures \in Nat /\ MaxSnapshots \in Nat \ {0}
    /\ MaxExternal \in Nat /\ MaxCrashes \in Nat

ASSUME NamesAssumption ==
    /\ Paths \cap Temps = {}
    /\ Absent \notin Contents
    /\ None \notin Procs /\ None \notin Files /\ None \notin Ids

VARIABLES
    managed,   \* the files below the managed root
    live,      \* the snapshots in the vault
    snap,      \* their contents, per file
    nextId,
    fresh,     \* temporary names not handed out yet
    aside,     \* the root SwapPath has renamed away, or None
    mu,        \* adminConfigVaultMutationMu
    fr,        \* the stack frame of every handler
    stale,     \* p's file changed since its client observed size and mtime
    touched,   \* history: files written without the mutex since the last walk
    external,  \* counter for MaxExternal
    crashes    \* counter for MaxCrashes

vault == <<live, snap, nextId>>
bounds == <<external, crashes>>
vars == <<managed, live, snap, nextId, fresh, aside, mu, fr, stale, touched, external,
          crashes>>

Kinds  == {"capture", "edit", "create", "delete", "chmod", "move", "moveDir",
           "restore", "archive"}
Staged == {"edit", "create"}    \* kinds that publish a staging file

(* A frame: program counter; request; path (the source of a move); dest    *)
(* (the staging file, or the destination of a move); the snapshots asked   *)
(* for, captured and being applied; what the last walk of the managed root *)
(* found; the files still to handle; the result of the comparison so far;  *)
(* the transaction.                                                        *)
Blank == [pc |-> "idle", kind |-> None, path |-> None, dest |-> None,
          target |-> None, cur |-> None, goal |-> None,
          specs |-> {}, todo |-> {}, differs |-> FALSE, tx |-> None]

(* What a backup archive can hold: it is refused when it has no entry, but *)
(* a directory is one, so that it may be without a file.                   *)
Archives == [Paths -> Contents \cup {Absent}]

Exists(f) == managed[f] # Absent
Walk      == {f \in Files : Exists(f)}

Init ==
    /\ managed \in {m \in [Files -> Contents \cup {Absent}] : \A t \in Temps : m[t] = Absent}
    /\ live = {} /\ nextId = 1
    /\ snap = [id \in Ids |-> [f \in Files |-> Absent]]
    /\ fresh = Temps
    /\ aside = None
    /\ mu = None
    /\ fr = [p \in Procs |-> Blank]
    /\ stale = [p \in Procs |-> FALSE]
    /\ touched = {}
    /\ external = 0 /\ crashes = 0

(* A write gives the files F a new mtime: a client that observed one of    *)
(* them before will fail the precondition check.                           *)
Modify(F) == stale' = [p \in Procs |-> stale[p] \/ fr[p].path \in F]

(* Mutant: a capture returns without releasing the mutex. *)
FinishLocked(p) ==
    /\ fr' = [fr EXCEPT ![p] = IF fr[p].kind \in Staged
                               THEN [Blank EXCEPT !.pc = "cleanup", !.dest = fr[p].dest]
                               ELSE Blank]
    /\ mu' = IF fr[p].kind = "capture" THEN mu ELSE None

(* The handler returns, releasing the mutex; a staging file it did not     *)
(* publish is removed after that, by the deferred Cleanup.                 *)
Finish(p) ==
    /\ fr' = [fr EXCEPT ![p] = IF fr[p].kind \in Staged
                               THEN [Blank EXCEPT !.pc = "cleanup", !.dest = fr[p].dest]
                               ELSE Blank]
    /\ mu' = None

---------------------------------------------------------------------------
(* Requests, up to the lock.                                               *)

Request(p, k, f, d) ==
    /\ fr[p].pc = "idle"
    /\ nextId <= MaxCaptures
    /\ fr' = [fr EXCEPT ![p] = [Blank EXCEPT !.pc = "wait", !.kind = k,
                                             !.path = f, !.dest = d]]
    /\ stale' = [stale EXCEPT ![p] = FALSE]

(* handleAdminFileWrite up to the lock: the precondition, then the staging *)
(* file with the new content.                                              *)
StageWrite(p, k, f, content) ==
    /\ k = "create" <=> ~Exists(f)
    /\ \E t \in fresh :
        /\ Request(p, k, f, t)
        /\ fresh' = fresh \ {t}
        /\ managed' = [managed EXCEPT ![t] = content]
        /\ touched' = touched \cup {t}
    /\ UNCHANGED <<vault, aside, mu, bounds>>

(* handleAdminFileCopy, handleAdminDirectoryCopy: the staging file, or     *)
(* directory, is a copy of an existing one.                                *)
StageCopy(p, source, f) ==
    /\ Exists(source)
    /\ StageWrite(p, "create", f, managed[source])

(* Writing or syncing the staging file fails: the handler returns. *)
StageFails(p) ==
    /\ fr[p].pc = "wait" /\ fr[p].kind \in Staged
    /\ fr' = [fr EXCEPT ![p] = [Blank EXCEPT !.pc = "cleanup", !.dest = fr[p].dest]]
    /\ UNCHANGED <<managed, vault, aside, fresh, mu, stale, touched, bounds>>

(* handleAdminFileDelete, Chmod and Move up to the lock. *)
RequestMutation(p, k, f, d) ==
    /\ Exists(f)
    /\ d # None => ~Exists(d) /\ d # f
    /\ Request(p, k, f, d)
    /\ UNCHANGED <<managed, vault, aside, fresh, mu, touched, bounds>>

RequestCapture(p) ==
    /\ Request(p, "capture", None, None)
    /\ UNCHANGED <<managed, vault, aside, fresh, mu, touched, bounds>>

(* handleAdminMaintenanceRestore: the backup archive is inspected. *)
RequestArchive(p) ==
    /\ Request(p, "archive", None, None)
    /\ UNCHANGED <<managed, vault, aside, fresh, mu, touched, bounds>>

(* handleAdminConfigVaultRestore looks its target up before it locks. *)
RequestRestore(p, id) ==
    /\ fr[p].pc = "idle" /\ id \in live
    /\ nextId <= MaxCaptures
    /\ fr' = [fr EXCEPT ![p] = [Blank EXCEPT !.pc = "wait", !.kind = "restore",
                                             !.target = id, !.tx = "Precheck"]]
    /\ UNCHANGED <<managed, vault, aside, fresh, mu, stale, touched, bounds>>

---------------------------------------------------------------------------
(* Under the mutex: the second check of the precondition, then the walk.   *)

PreconditionHolds(p) ==
    CASE fr[p].kind = "create" -> ~Exists(fr[p].path)
      [] fr[p].kind \in {"edit", "delete", "chmod"} -> Exists(fr[p].path) /\ ~stale[p]
      [] fr[p].kind \in {"move", "moveDir"} ->
            Exists(fr[p].path) /\ ~stale[p] /\ ~Exists(fr[p].dest)
      [] OTHER -> TRUE

(* Mutant: a delete takes no pre-change snapshot. *)
FirstPhaseUncaptured(p) ==
    IF fr[p].kind \in {"moveDir", "delete"} THEN "mutate" ELSE "capture"

(* Everything but the move of a directory starts with a snapshot. *)
FirstPhase(p) == IF fr[p].kind = "moveDir" THEN "mutate" ELSE "capture"

(* Mutant: the check without the lock. *)
CheckUnlocked(p) ==
    /\ fr[p].pc = "wait"
    /\ \/ /\ PreconditionHolds(p)
          /\ mu' = p
          /\ touched' = {}
          /\ fr' = [fr EXCEPT ![p].specs = Walk, ![p].pc = FirstPhase(p)]
       \/ /\ ~PreconditionHolds(p)
          /\ Finish(p)
          /\ UNCHANGED touched
    /\ UNCHANGED <<managed, vault, aside, fresh, stale, bounds>>

(* Mutant: the precondition is not checked again under the lock. *)
LockWithoutCheck(p) ==
    /\ fr[p].pc = "wait" /\ mu = None
    /\ mu' = p
    /\ touched' = {}
    /\ fr' = [fr EXCEPT ![p].specs = Walk, ![p].pc = FirstPhase(p)]
    /\ UNCHANGED <<managed, vault, aside, fresh, stale, bounds>>

(* discoverAdminConfigVaultArtifacts: the walk of the managed root. *)
LockAndCheck(p) ==
    /\ fr[p].pc = "wait" /\ mu = None
    /\ \/ /\ PreconditionHolds(p)
          /\ mu' = p
          /\ touched' = {}
          /\ fr' = [fr EXCEPT ![p].specs = Walk, ![p].pc = FirstPhase(p)]
       \/ /\ ~PreconditionHolds(p)
          /\ Finish(p)
          /\ UNCHANGED touched
    /\ UNCHANGED <<managed, vault, aside, fresh, stale, bounds>>

(* The snapshots prune keeps: the newest ones, the limit on their number   *)
(* and the size of the store permitting.                                   *)
Retained(snapshots, number) ==
    {id \in snapshots : Cardinality({other \in snapshots : other > id}) < number}

AfterCapture(p) ==
    CASE fr[p].kind = "capture" -> Finish(p)
      [] fr[p].kind = "restore" ->
            /\ fr' = [fr EXCEPT ![p].cur = nextId, ![p].pc = "validate",
                                ![p].tx = Advance(@, "Snapshot")]
            /\ UNCHANGED mu
      [] OTHER ->
            /\ fr' = [fr EXCEPT ![p].cur = nextId, ![p].pc = "mutate"]
            /\ UNCHANGED mu

(* Capture reads the files of the walk and publishes the snapshot. *)
Capture(p) ==
    /\ fr[p].pc = "capture"
    /\ nextId <= MaxCaptures
    /\ fr[p].specs \subseteq Walk
    /\ snap' = [snap EXCEPT ![nextId] =
                    [f \in Files |-> IF f \in fr[p].specs THEN managed[f] ELSE Absent]]
    /\ \E number \in 1..MaxSnapshots : live' = Retained(live \cup {nextId}, number)
    /\ nextId' = nextId + 1
    /\ AfterCapture(p)
    /\ UNCHANGED <<managed, fresh, aside, stale, touched, bounds>>

(* A file of the walk has vanished, or Capture fails otherwise: the        *)
(* mutation is blocked (a restore advances to Failed and returns), but     *)
(* prune may have removed older snapshots already.                         *)
CaptureFails(p) ==
    /\ fr[p].pc = "capture"
    /\ \E number \in 0..MaxSnapshots : live' = Retained(live, number)
    /\ Finish(p)
    /\ UNCHANGED <<managed, snap, nextId, aside, fresh, stale, touched, bounds>>

---------------------------------------------------------------------------
(* The mutation itself.                                                    *)

Changed(p) == {fr[p].path} \cup (IF fr[p].kind \in {"move", "moveDir"} THEN {fr[p].dest} ELSE {})

(* Publish renames the staging file over the path; a move renames path to  *)
(* its destination; a delete removes it.  Each needs its source to exist.  *)
Mutate(p) ==
    /\ fr[p].pc = "mutate" /\ fr[p].kind # "archive"
    /\ LET f == fr[p].path
           d == fr[p].dest
       IN CASE fr[p].kind \in Staged ->
                    /\ Exists(d)
                    /\ managed' = [managed EXCEPT ![f] = managed[d], ![d] = Absent]
            [] fr[p].kind \in {"move", "moveDir"} ->
                    /\ Exists(f)
                    /\ managed' = [managed EXCEPT ![d] = managed[f], ![f] = Absent]
            [] fr[p].kind = "delete" ->
                    /\ Exists(f)
                    /\ managed' = [managed EXCEPT ![f] = Absent]
            [] fr[p].kind = "chmod" -> Exists(f) /\ UNCHANGED managed
    /\ IF fr[p].kind = "chmod" THEN UNCHANGED stale ELSE Modify(Changed(p))
    /\ Finish(p)
    /\ UNCHANGED <<vault, aside, fresh, touched, bounds>>

(* rename or remove fails, because its source is gone or otherwise; the    *)
(* safety backup or the extraction of an archive may fail, too.            *)
MutateFails(p) ==
    /\ fr[p].pc = "mutate"
    /\ Finish(p)
    /\ UNCHANGED <<managed, vault, aside, fresh, stale, touched, bounds>>

(* The deferred Cleanup runs after the deferred unlock. *)
Cleanup(p) ==
    /\ fr[p].pc = "cleanup"
    /\ managed' = [managed EXCEPT ![fr[p].dest] = Absent]
    /\ touched' = IF Exists(fr[p].dest) THEN touched \cup {fr[p].dest} ELSE touched
    /\ fr' = [fr EXCEPT ![p] = Blank]
    /\ UNCHANGED <<vault, aside, fresh, mu, stale, bounds>>

---------------------------------------------------------------------------
(* SwapPath for the content of an archive: the root is renamed away, then  *)
(* the staged directory takes its place.                                   *)

SwapAside(p) ==
    /\ fr[p].pc = "mutate" /\ fr[p].kind = "archive"
    /\ aside' = managed
    /\ managed' = [f \in Files |-> Absent]
    /\ fr' = [fr EXCEPT ![p].pc = "swap"]
    /\ UNCHANGED <<vault, fresh, mu, stale, touched, bounds>>

(* A rename cannot replace a directory in which a file has appeared. *)
SwapIn(p, archive) ==
    /\ fr[p].pc = "swap" /\ Walk = {}
    /\ managed' = [f \in Files |-> IF f \in Paths THEN archive[f] ELSE Absent]
    /\ aside' = None
    /\ Modify(Files)
    /\ Finish(p)
    /\ UNCHANGED <<vault, fresh, touched, bounds>>

(* The second rename fails: the old root is renamed back, unless that      *)
(* fails as well; then it stays where it is and nothing refers to it.      *)
SwapFails(p) ==
    /\ fr[p].pc = "swap"
    /\ \/ Walk = {} /\ managed' = aside
       \/ UNCHANGED managed
    /\ aside' = None
    /\ Finish(p)
    /\ UNCHANGED <<vault, fresh, stale, touched, bounds>>

---------------------------------------------------------------------------
(* The restore transaction after its safety snapshot.                      *)

Artifacts(id) == {f \in Files : snap[id][f] # Absent}

(* applyAdminConfigVaultSnapshot for snapshot id, from its start. *)
BeginApply(p, id, state) ==
    fr' = [fr EXCEPT ![p].pc = "apply", ![p].goal = id, ![p].todo = Artifacts(id),
                     ![p].tx = state]

(* The target's objects are read and verified.  Its manifest may be gone:  *)
(* the safety Capture, or one before this handler had the mutex, may have  *)
(* evicted it, and only the reading of an object notices: the restore of   *)
(* an empty snapshot goes on.  Reading the objects may fail as well.       *)
Validate(p) ==
    /\ fr[p].pc = "validate"
    /\ \/ /\ fr[p].target \in live \/ Artifacts(fr[p].target) = {}
          /\ BeginApply(p, fr[p].target, Advance(Advance(fr[p].tx, "Validated"), "Applied"))
          /\ UNCHANGED mu
       \/ Finish(p)
    /\ UNCHANGED <<managed, vault, aside, fresh, stale, touched, bounds>>

ApplyFile(p, f) ==
    /\ fr[p].pc = "apply" /\ f \in fr[p].todo
    /\ managed' = [managed EXCEPT ![f] = snap[fr[p].goal][f]]
    /\ Modify({f})
    /\ fr' = [fr EXCEPT ![p].todo = @ \ {f}]
    /\ UNCHANGED <<vault, aside, fresh, mu, touched, bounds>>

(* Everything is written: walk the root for files the snapshot lacks. *)
ApplyWalk(p) ==
    /\ fr[p].pc = "apply" /\ fr[p].todo = {}
    /\ fr' = [fr EXCEPT ![p].pc = "trim", ![p].todo = Walk \ Artifacts(fr[p].goal)]
    /\ UNCHANGED <<managed, vault, aside, fresh, mu, stale, touched, bounds>>

TrimFile(p, f) ==
    /\ fr[p].pc = "trim" /\ f \in fr[p].todo
    /\ Exists(f)
    /\ managed' = [managed EXCEPT ![f] = Absent]
    /\ Modify({f})
    /\ fr' = [fr EXCEPT ![p].todo = @ \ {f}]
    /\ UNCHANGED <<vault, aside, fresh, mu, touched, bounds>>

(* buildAdminConfigVaultDiff: look the snapshot up, walk the root, then    *)
(* hash file by file.                                                      *)
VerifyWalk(p) ==
    /\ fr[p].pc = "trim" /\ fr[p].todo = {} /\ fr[p].goal \in live
    /\ fr' = [fr EXCEPT ![p].pc = "verify", ![p].specs = Walk,
                        ![p].todo = Files, ![p].differs = FALSE]
    /\ touched' = {}
    /\ UNCHANGED <<managed, vault, aside, fresh, mu, stale, bounds>>

(* Mutant: files the snapshot lacks are not reported. *)
FileDiffersUnlessAdded(p, f) ==
    LET wanted == snap[fr[p].goal][f]
    IN wanted # Absent /\ managed[f] # wanted

(* "removed": in the snapshot and not found; "added": found and not in the *)
(* snapshot; "changed": another checksum; a found file that has vanished   *)
(* ends the comparison with an error.                                      *)
FileDiffers(p, f) ==
    LET wanted == snap[fr[p].goal][f]
    IN IF f \in fr[p].specs THEN managed[f] # wanted \/ ~Exists(f) ELSE wanted # Absent

VerifyFile(p, f) ==
    /\ fr[p].pc = "verify" /\ f \in fr[p].todo
    /\ fr' = [fr EXCEPT ![p].todo = @ \ {f},
                        ![p].differs = @ \/ FileDiffers(p, f)]
    /\ UNCHANGED <<managed, vault, aside, fresh, mu, stale, touched, bounds>>

RollingBack(p) == fr[p].goal = fr[p].cur

(* Mutant: the transaction is verified and never committed. *)
MatchesUncommitted(p) ==
    /\ fr[p].pc = "verify" /\ fr[p].todo = {} /\ ~fr[p].differs
    /\ fr' = [fr EXCEPT ![p].pc = "reply",
                        ![p].tx = IF RollingBack(p)
                                  THEN Advance(@, "RolledBack")
                                  ELSE Advance(@, "Verified")]
    /\ UNCHANGED <<managed, vault, aside, fresh, mu, stale, touched, bounds>>

(* The readback matches: Verified and Committed, or RolledBack. *)
Matches(p) ==
    /\ fr[p].pc = "verify" /\ fr[p].todo = {} /\ ~fr[p].differs
    /\ fr' = [fr EXCEPT ![p].pc = "reply",
                        ![p].tx = IF RollingBack(p)
                                  THEN Advance(@, "RolledBack")
                                  ELSE Advance(Advance(@, "Verified"), "Committed")]
    /\ UNCHANGED <<managed, vault, aside, fresh, mu, stale, touched, bounds>>

(* Writing, removing, walking or hashing failed, the manifest is gone, or  *)
(* the readback does not match: the safety snapshot is applied; if this    *)
(* happens to it as well, the outcome is Ambiguous.                        *)
ApplyFails(p) ==
    /\ fr[p].pc \in {"apply", "trim", "verify"}
    /\ IF RollingBack(p)
       THEN fr' = [fr EXCEPT ![p].pc = "reply", ![p].tx = Advance(@, "Ambiguous")]
       ELSE BeginApply(p, fr[p].cur, fr[p].tx)
    /\ UNCHANGED <<managed, vault, aside, fresh, mu, stale, touched, bounds>>

(* The response is written and the mutex released. *)
Reply(p) ==
    /\ fr[p].pc = "reply"
    /\ Finish(p)
    /\ UNCHANGED <<managed, vault, aside, fresh, stale, touched, bounds>>

---------------------------------------------------------------------------
(* Core and the modules write their own settings in the managed root.      *)
ExternalWrite(f, content) ==
    /\ external < MaxExternal
    /\ external' = external + 1
    /\ managed' = [managed EXCEPT ![f] = content]
    /\ Modify({f})
    /\ touched' = touched \cup {f}
    /\ UNCHANGED <<vault, aside, fresh, mu, fr, crashes>>

(* routerforge-admin is stopped and started again. *)
Crash ==
    /\ crashes < MaxCrashes
    /\ \E p \in Procs : fr[p].pc # "idle"
    /\ crashes' = crashes + 1
    /\ fr' = [p \in Procs |-> Blank]
    /\ mu' = None /\ aside' = None
    /\ UNCHANGED <<managed, vault, fresh, stale, touched, external>>

(* What a handler does once its request is accepted, I/O permitting. *)
Progress(p) ==
    \/ Capture(p)
    \/ Mutate(p)
    \/ Cleanup(p)
    \/ SwapAside(p)
    \/ \E archive \in Archives : SwapIn(p, archive)
    \/ Validate(p)
    \/ \E f \in Files : ApplyFile(p, f) \/ TrimFile(p, f) \/ VerifyFile(p, f)
    \/ ApplyWalk(p)
    \/ VerifyWalk(p)
    \/ Matches(p)
    \/ Reply(p)

UnderLockFails(p) == CaptureFails(p) \/ MutateFails(p) \/ SwapFails(p) \/ ApplyFails(p)

Next ==
    \/ \E p \in Procs :
        \/ \E f \in Paths :
            \/ \E content \in Contents, k \in Staged : StageWrite(p, k, f, content)
            \/ \E source \in Paths : StageCopy(p, source, f)
            \/ \E k \in {"delete", "chmod"} : RequestMutation(p, k, f, None)
            \/ \E d \in Paths, k \in {"move", "moveDir"} : RequestMutation(p, k, f, d)
        \/ RequestCapture(p)
        \/ RequestArchive(p)
        \/ \E id \in Ids : RequestRestore(p, id)
        \/ LockAndCheck(p)
        \/ Progress(p)
        \/ StageFails(p) \/ UnderLockFails(p)
    \/ \E f \in Paths, content \in Contents : ExternalWrite(f, content)
    \/ Crash

Spec == Init /\ [][Next]_vars

(* A handler goroutine that can run does, through its error paths too; and *)
(* sync.Mutex hands the lock over in FIFO order once a waiter starves, so  *)
(* a handler that waits for it gets it.                                    *)
Fairness ==
    \A p \in Procs :
        /\ WF_vars(Progress(p) \/ UnderLockFails(p))
        /\ SF_vars(LockAndCheck(p))

FairSpec == Spec /\ Fairness

---------------------------------------------------------------------------
(* Properties.                                                             *)

Phases == {"idle", "wait", "capture", "mutate", "cleanup", "validate",
           "swap", "apply", "trim", "verify", "reply"}

Applying == {"apply", "trim", "verify", "reply"}
Working  == {"capture", "mutate", "swap", "validate"} \cup Applying

Frames == [pc : Phases, kind : Kinds \cup {None}, path : Paths \cup {None},
           dest : Files \cup {None}, target : Ids \cup {None}, cur : Ids \cup {None},
           goal : Ids \cup {None}, specs : SUBSET Files, todo : SUBSET Files,
           differs : BOOLEAN, tx : TxStates \cup {None}]

TypeOK ==
    /\ managed \in [Files -> Contents \cup {Absent}]
    /\ live \subseteq Ids
    /\ snap \in [Ids -> [Files -> Contents \cup {Absent}]]
    /\ nextId \in 1..(MaxCaptures + 1)
    /\ fresh \subseteq Temps
    /\ aside \in [Files -> Contents \cup {Absent}] \cup {None}
    /\ mu \in Procs \cup {None}
    /\ fr \in [Procs -> Frames]
    /\ stale \in [Procs -> BOOLEAN]
    /\ touched \subseteq Files
    /\ external \in 0..MaxExternal /\ crashes \in 0..MaxCrashes

(* The mutex is held by exactly the handler between its lock and its reply. *)
HolderAtWork == \A p \in Procs : mu = p <=> fr[p].pc \in Working

(* Types, and the lock discipline of the handlers. *)
HandlersInv == TypeOK /\ HolderAtWork

(* When a handler is about to change the configuration, the vault holds a  *)
(* snapshot of exactly what is there, up to what was written without the   *)
(* mutex since the walk; while the root is renamed away the vault holds    *)
(* its content; and while a restore is rewriting files, its safety         *)
(* snapshot is not evicted.  Moving a directory takes no snapshot.         *)
PrechangeCaptured ==
    \A p \in Procs :
        /\ fr[p].pc \in {"mutate", "validate"} /\ fr[p].kind # "moveDir" =>
            /\ fr[p].cur \in live
            /\ \A f \in Files \ touched : snap[fr[p].cur][f] = managed[f]
        /\ fr[p].pc = "swap" =>
            /\ fr[p].cur \in live
            /\ \A f \in Files \ touched : snap[fr[p].cur][f] = aside[f]
        /\ fr[p].pc \in Applying => fr[p].cur \in live

(* The precondition checked under the mutex still holds when the file is   *)
(* changed, after the whole of Capture: no admin handler can make another  *)
(* one overwrite a version its client did not see.                         *)
NoLostUpdate ==
    \A p \in Procs :
        fr[p].pc = "mutate" => PreconditionHolds(p) \/ Changed(p) \cap touched # {}

(* A restore that answers Committed left exactly the target snapshot, and  *)
(* one that answers RolledBack exactly its safety snapshot, in the managed *)
(* root, up to what was written without the mutex during the readback.     *)
OutcomeTruthful ==
    \A p \in Procs :
        fr[p].pc = "reply" /\ fr[p].tx # "Ambiguous" =>
            LET wanted == IF fr[p].tx = "Committed" THEN fr[p].target ELSE fr[p].cur
            IN \A f \in Files \ touched : managed[f] = snap[wanted][f]

(* Every restore that answers after changing files has decided its         *)
(* transaction: the response never carries a state that is not terminal.   *)
OutcomeDecided ==
    \A p \in Procs : fr[p].pc = "reply" => fr[p].tx \in TxTerminal \ {"Failed"}

(* How the fields of a frame agree with its program counter. *)
Coherent(r) ==
    /\ r.pc = "cleanup" => r.dest \in Temps
    /\ r.pc \in {"wait", "capture", "mutate"} =>
        /\ r.kind \in Kinds
        /\ r.kind \in Staged => r.path \in Paths /\ r.dest \in Temps
        /\ r.kind \in {"delete", "chmod"} => r.path \in Paths
        /\ r.kind \in {"move", "moveDir"} => r.path \in Paths /\ r.dest \in Paths
        /\ r.kind = "restore" => r.target \in Ids /\ r.tx = "Precheck"
    /\ r.pc = "capture" => r.kind # "moveDir"
    /\ r.pc = "mutate" => r.kind \notin {"capture", "restore"}
    /\ r.pc = "swap" => r.kind = "archive"
    /\ r.pc \in {"validate"} \cup Applying =>
        r.kind = "restore" /\ r.target \in Ids /\ r.cur \in Ids
    /\ r.pc = "validate" => r.tx = "Snapshot"
    /\ r.pc \in {"apply", "trim", "verify"} => r.goal \in {r.target, r.cur} /\ r.tx = "Applied"
    /\ r.pc = "reply" => r.tx \in {"Committed", "RolledBack", "Ambiguous"}

(* The walk found what is there, up to writes without the mutex. *)
Walked(p) == \A f \in Files \ touched : f \in fr[p].specs <=> Exists(f)

(* The precondition held under the mutex, and still does unless the file   *)
(* was written without it.                                                 *)
Checked(p) == PreconditionHolds(p) \/ Changed(p) \cap touched # {}

(* A snapshot is what the root m holds, up to writes without the mutex. *)
Captured(id, m) == \A f \in Files \ touched : snap[id][f] = m[f]

(* What the holder of the mutex knows, phase by phase: each property above *)
(* with what makes it inductive - the freshness of the walk that Capture   *)
(* and the readback go by, the check made before Capture, and the files    *)
(* the readback has compared so far.                                       *)
HolderFacts(p) ==
    /\ fr[p].pc \in {"capture", "verify"} => Walked(p)
    /\ fr[p].pc \in {"capture", "mutate"} => Checked(p)
    /\ fr[p].pc \in {"mutate", "validate"} /\ fr[p].kind # "moveDir" =>
        fr[p].cur \in live /\ Captured(fr[p].cur, managed)
    /\ fr[p].pc = "swap" =>
        /\ aside \in [Files -> Contents \cup {Absent}]
        /\ fr[p].cur \in live /\ Captured(fr[p].cur, aside)
    /\ fr[p].pc \in Applying => fr[p].cur \in live
    /\ fr[p].pc = "verify" /\ ~fr[p].differs =>
        \A f \in Files \ (touched \cup fr[p].todo) : snap[fr[p].goal][f] = managed[f]
    /\ fr[p].pc = "reply" /\ fr[p].tx # "Ambiguous" =>
        Captured(IF fr[p].tx = "Committed" THEN fr[p].target ELSE fr[p].cur, managed)

(* The inductive invariant.  The ids in the vault have been handed out, so *)
(* that a new snapshot is the newest and survives its own prune.           *)
ManagedInv ==
    /\ HandlersInv
    /\ \A p \in Procs : Coherent(fr[p])
    /\ live \subseteq 1..(nextId - 1)
    /\ \A p \in Procs : HolderFacts(p)

(* Every request is answered, whatever the others do. *)
RequestsReturn == \A p \in Procs : fr[p].pc = "wait" ~> fr[p].pc = "idle"

(* Test files_write_test.go TestAdminFileWriteCreateIsAtomicAndMode0600,   *)
(* "atomic temp leftovers": when a restore answers Committed, no other     *)
(* handler is at work and nothing crashed before, the managed root holds   *)
(* no staging file.                                                        *)
NoTempLeftovers ==
    \A p \in Procs :
        /\ fr[p].pc = "reply" /\ fr[p].tx = "Committed"
        /\ \A q \in Procs \ {p} : fr[q].pc = "idle"
        /\ crashes = 0
        => \A t \in Temps : ~Exists(t)
====
