---- MODULE AppActions ----
(***************************************************************************)
(* components/core/app_center_jobs.go: the asynchronous install, update    *)
(* and remove actions of the App Center, and the synchronous handlers that *)
(* compete with them for opkg.                                             *)
(*                                                                         *)
(* One slot, appActions.active, admits one job at a time; the mutex        *)
(* marketplaceInstallMu keeps the job and the synchronous handlers from    *)
(* running opkg at the same time.  A job ends by cancel, by its 180 s      *)
(* deadline or by itself, is written to the history file, frees the slot   *)
(* and prunes the table of finished jobs.                                  *)
(*                                                                         *)
(* Abstractions.  A package operation is the set of those aspects of the   *)
(* request that hold when it ends: "package" - one of the packages is      *)
(* installed (a removal: none is), "files" - the same of the item's        *)
(* services and paths -, "version" - of an update: the new one.  What      *)
(* nothing looks at is left out.  The plan methods of the catalogue are    *)
(* one opkg run.  A line of the history file has size one.  A job's id is  *)
(* its sequence number: the time in front of it keeps ids distinct across  *)
(* restarts.                                                               *)
(***************************************************************************)
EXTENDS Integers, Sequences, FiniteSets

CONSTANTS
    MaxJobs,       \* bound on the jobs ever accepted
    Syncs,         \* synchronous install requests (catalogue, Entware)
    Retention,     \* appActionTerminalRetention
    HistoryMax,    \* appActionHistoryMax, in lines
    MaxRestarts,   \* bound on the restarts of Core
    Requests,      \* the package operations asked for
    SyncRequests,  \* those that synchronous requests ask for
    None

Jobs    == 1..MaxJobs
Callers == Jobs \cup Syncs

ASSUME BoundsAssumption ==
    /\ MaxJobs \in Nat /\ Retention \in Nat
    /\ HistoryMax \in Nat \ {0} /\ MaxRestarts \in Nat

ASSUME NamesAssumption == Syncs \cap Jobs = {} /\ None \notin Jobs /\ None \notin Syncs

(* An Entware package or an item of the catalogue, which may be marked     *)
(* PackageAuthoritative and may have a version to compare an update with.  *)
ASSUME RequestsAssumption ==
    Requests \subseteq [source : {"entware", "catalog"}, action : {"install", "update", "remove"},
                        authoritative : BOOLEAN, versioned : BOOLEAN]

ASSUME SyncRequestsAssumption == SyncRequests \subseteq Requests

VARIABLES
    nextJob,   \* appActionSeq
    jobs,      \* keys of appActions.jobs
    active,    \* appActions.active
    state,     \* job.State, "none" for a job that is not in memory
    pc,        \* where runAppActionJob, or a synchronous handler, is
    fr,        \* the rest of its frame
    mu,        \* marketplaceInstallMu: its holder or None
    opkg,      \* callers whose opkg process runs
    history,   \* the history file
    rotated,   \* the history file with suffix .1
    restarts

table == <<nextJob, jobs, active>>
files == <<history, rotated>>
vars  == <<nextJob, jobs, active, state, pc, fr, mu, opkg, history, rotated, restarts>>

Terminal == {"succeeded", "failed", "cancelled"}

(* The context - live, canceled or past its deadline -, whether runErr is  *)
(* set, the request, the aspects of it that hold on the router after opkg, *)
(* and what the readback of them could see.                                *)
Blank == [ctx |-> "live", failed |-> FALSE, ask |-> None, achieved |-> {}, view |-> {}]

Init ==
    /\ nextJob = 1 /\ jobs = {} /\ active = None
    /\ state = [j \in Jobs |-> "none"]
    /\ pc = [c \in Callers |-> "none"]
    /\ fr = [c \in Callers |-> Blank]
    /\ mu = None /\ opkg = {}
    /\ history = <<>> /\ rotated = <<>>
    /\ restarts = 0

GoTo(c, phase) == pc' = [pc EXCEPT ![c] = phase]

---------------------------------------------------------------------------
(* The operation under marketplaceInstallMu, for jobs and synchronous      *)
(* handlers alike.                                                         *)

(* Mutant: the mutex is not waited for. *)
TakeMutexHeld(c) ==
    /\ pc[c] = "started"
    /\ mu' = c
    /\ GoTo(c, "locked")
    /\ UNCHANGED <<table, state, fr, opkg, files, restarts>>

(* Waiting for the mutex does not watch the context. *)
TakeMutex(c) ==
    /\ pc[c] = "started" /\ mu = None
    /\ mu' = c
    /\ GoTo(c, "locked")
    /\ UNCHANGED <<table, state, fr, opkg, files, restarts>>

(* runErr is set: the rest of the frame is not looked at any more. *)
Failed(f) == [Blank EXCEPT !.ctx = f.ctx, !.failed = TRUE]

(* Mutant: a rejected request keeps the mutex. *)
RejectLocked(c) ==
    /\ pc[c] = "locked"
    /\ fr' = [fr EXCEPT ![c] = Failed(@)]
    /\ GoTo(c, "returned")
    /\ UNCHANGED <<table, state, mu, opkg, files, restarts>>

(* The item, the permission or the preflight no longer allows the action;  *)
(* or the command is not started because the context is done.              *)
Reject(c) ==
    /\ pc[c] = "locked"
    /\ fr' = [fr EXCEPT ![c] = Failed(@)]
    /\ GoTo(c, "returned")
    /\ mu' = None
    /\ UNCHANGED <<table, state, opkg, files, restarts>>

StartOpkg(c) ==
    /\ pc[c] = "locked" /\ fr[c].ctx = "live"
    /\ opkg' = opkg \cup {c}
    /\ GoTo(c, "opkg")
    /\ UNCHANGED <<table, state, fr, mu, files, restarts>>

(* What a request wants to hold when it is done. *)
Wanted(ask) ==
    {"package"} \cup (IF ask.source = "catalog" THEN {"files"} ELSE {})
                \cup (IF ask.action = "update" THEN {"version"} ELSE {})

(* opkg exits 0 - without having done all that was asked, if a package is  *)
(* held back or the plan ignores the failure of a step.                    *)
OpkgExits(c) ==
    /\ pc[c] = "opkg" /\ c \in opkg
    /\ opkg' = opkg \ {c}
    /\ \E did \in SUBSET Wanted(fr[c].ask) : fr' = [fr EXCEPT ![c].achieved = did]
    /\ GoTo(c, "verify")
    /\ UNCHANGED <<table, state, mu, files, restarts>>

(* Mutant: a failed opkg keeps the mutex. *)
OpkgFailsLocked(c) ==
    /\ pc[c] = "opkg" /\ c \in opkg
    /\ opkg' = opkg \ {c}
    /\ fr' = [fr EXCEPT ![c] = Failed(@)]
    /\ GoTo(c, "returned")
    /\ UNCHANGED <<table, state, mu, files, restarts>>

(* opkg fails, or is killed because the context is done; what it has done  *)
(* by then is not read back.                                               *)
OpkgFails(c) ==
    /\ pc[c] = "opkg" /\ c \in opkg
    /\ opkg' = opkg \ {c}
    /\ fr' = [fr EXCEPT ![c] = Failed(@)]
    /\ GoTo(c, "returned")
    /\ mu' = None
    /\ UNCHANGED <<table, state, files, restarts>>

(* The traces of a package or item that a readback looks for. *)
Detected == {"package", "files"}

(* opkg list-installed answers for an Entware package, or fails.  The      *)
(* refresh of the catalogue does not fail: a status file that cannot be    *)
(* read is one without packages, and the item may be gone from the         *)
(* catalogue.                                                              *)
Views(ask) == IF ask.source = "entware" THEN {Detected} ELSE {Detected, {"files"}, {}}

(* What is on the router of the package or item. *)
Traces(f) == IF f.ask.action = "remove" THEN Detected \ f.achieved ELSE Detected \cap f.achieved

(* finalizeCatalogItem: one package, service or path is enough, unless     *)
(* only packages count.                                                    *)
Installed(ask, seen) ==
    IF ask.source = "entware" \/ ask.authoritative THEN "package" \in seen ELSE seen # {}

(* The version after an update is compared only for the catalogue, and     *)
(* only if one was expected.                                               *)
Compared(ask) == ask.source = "catalog" /\ ask.action = "update" /\ ask.versioned

(* Mutant: the exit status of opkg is believed. *)
LooksDoneByStatus(f) == TRUE

(* What the readback says of the request. *)
LooksDone(f) ==
    LET installed == Installed(f.ask, Traces(f) \cap f.view)
    IN  IF f.ask.action = "remove"
        THEN ~installed
        ELSE installed /\ (Compared(f.ask) => "version" \in f.achieved)

(* The installed packages are read back and compared with the request; the *)
(* readback may fail, too.                                                 *)
VerifyInstalled(c) ==
    /\ pc[c] = "verify"
    /\ \/ \E view \in Views(fr[c].ask) :
            /\ LooksDone([fr[c] EXCEPT !.view = view])
            /\ fr' = [fr EXCEPT ![c].view = view]
       \/ fr' = [fr EXCEPT ![c] = Failed(@)]
    /\ GoTo(c, "returned")
    /\ mu' = None
    /\ UNCHANGED <<table, state, opkg, files, restarts>>

---------------------------------------------------------------------------
(* The life of a job.                                                      *)

(* Mutant: the slot is not looked at. *)
AcceptBusy(ask) ==
    /\ nextJob <= MaxJobs
    /\ jobs' = jobs \cup {nextJob}
    /\ active' = nextJob
    /\ nextJob' = nextJob + 1
    /\ state' = [state EXCEPT ![nextJob] = "queued"]
    /\ GoTo(nextJob, "queued")
    /\ fr' = [fr EXCEPT ![nextJob].ask = ask]
    /\ UNCHANGED <<mu, opkg, files, restarts>>

(* handleAppActions: the slot is free, so the request becomes a job. *)
Accept(ask) ==
    /\ active = None /\ nextJob <= MaxJobs
    /\ jobs' = jobs \cup {nextJob}
    /\ active' = nextJob
    /\ nextJob' = nextJob + 1
    /\ state' = [state EXCEPT ![nextJob] = "queued"]
    /\ GoTo(nextJob, "queued")
    /\ fr' = [fr EXCEPT ![nextJob].ask = ask]
    /\ UNCHANGED <<mu, opkg, files, restarts>>

StartJob(j) ==
    /\ pc[j] = "queued"
    /\ state' = [state EXCEPT ![j] = "running"]
    /\ GoTo(j, "started")
    /\ UNCHANGED <<table, fr, mu, opkg, files, restarts>>

(* Mutant: the error of the operation is forgotten. *)
VerdictByContext(j) ==
    CASE fr[j].ctx = "canceled" -> "cancelled"
      [] fr[j].ctx = "deadline" -> "failed"
      [] OTHER                  -> "succeeded"

(* The context is asked first: a cancel or a deadline that came after the  *)
(* work was done still names the outcome.                                  *)
Verdict(j) ==
    CASE fr[j].ctx = "canceled" -> "cancelled"
      [] fr[j].ctx = "deadline" -> "failed"
      [] OTHER                  -> IF fr[j].failed THEN "failed" ELSE "succeeded"

(* Mutant: the slot is freed with the final state, before the history. *)
SettleJobFrees(j) ==
    /\ pc[j] = "returned"
    /\ state' = [state EXCEPT ![j] = Verdict(j)]
    /\ fr' = [fr EXCEPT ![j].ctx = "live", ![j].failed = FALSE]
    /\ GoTo(j, "settled")
    /\ active' = None
    /\ UNCHANGED <<nextJob, jobs, mu, opkg, files, restarts>>

(* From here on the context and runErr are not looked at any more. *)
SettleJob(j) ==
    /\ pc[j] = "returned"
    /\ state' = [state EXCEPT ![j] = Verdict(j)]
    /\ fr' = [fr EXCEPT ![j].ctx = "live", ![j].failed = FALSE]
    /\ GoTo(j, "settled")
    /\ UNCHANGED <<table, mu, opkg, files, restarts>>

(* A line of the history file: the job it records - None if the line does  *)
(* not parse - and whether its newline is missing.                         *)
Lines == [job : Jobs \cup {None}, open : BOOLEAN]

(* What the encoder's write leaves of the record of j. *)
Records(j) == {[job |-> j, open |-> FALSE], [job |-> j, open |-> TRUE], [job |-> None, open |-> TRUE]}

(* The file is opened to append: a last line without newline is continued, *)
(* and the result does not parse.                                          *)
Extend(file, line) ==
    IF file # <<>> /\ file[Len(file)].open
    THEN [file EXCEPT ![Len(file)] = [job |-> None, open |-> line.open]]
    ELSE Append(file, line)

(* appendAppActionHistory.  A full file is rotated: the remove of .1 and   *)
(* the rename each may fail, which is ignored.  Then the record is         *)
(* appended, in full, cut short or not at all.  Nothing of the frame is    *)
(* used after that.                                                        *)
AppendHistory(j) ==
    /\ pc[j] = "settled"
    /\ \E kept \in {history, <<>>} :
        /\ \/ kept = history /\ rotated' = rotated
           \/ Len(history) >= HistoryMax /\ kept = history /\ rotated' = <<>>
           \/ Len(history) >= HistoryMax /\ kept = <<>> /\ rotated' = history
        /\ history' \in {kept} \cup {Extend(kept, line) : line \in Records(j)}
    /\ GoTo(j, "recorded")
    /\ fr' = [fr EXCEPT ![j] = Blank]
    /\ UNCHANGED <<table, state, mu, opkg, restarts>>

(* Mutant: a job that failed keeps the slot. *)
FreeSlotOnSuccess(j) ==
    /\ pc[j] = "recorded"
    /\ active' = IF active = j /\ state[j] = "succeeded" THEN None ELSE active
    /\ GoTo(j, "freed")
    /\ UNCHANGED <<nextJob, jobs, state, fr, mu, opkg, files, restarts>>

FreeSlot(j) ==
    /\ pc[j] = "recorded"
    /\ active' = IF active = j THEN None ELSE active
    /\ GoTo(j, "freed")
    /\ UNCHANGED <<nextJob, jobs, state, fr, mu, opkg, files, restarts>>

(* pruneAppActionJobs keeps the newest finished jobs. *)
Finished == {k \in jobs : k # active /\ state[k] \in Terminal}

(* Mutant: one finished job too many is kept. *)
PruneJobsOffByOne(j) ==
    /\ pc[j] = "freed"
    /\ jobs' = {k \in jobs : k \in Finished =>
                    Cardinality({newer \in Finished : newer > k}) <= Retention}
    /\ GoTo(j, "end")
    /\ UNCHANGED <<nextJob, active, state, fr, mu, opkg, files, restarts>>

PruneJobs(j) ==
    /\ pc[j] = "freed"
    /\ jobs' = {k \in jobs : k \in Finished =>
                    Cardinality({newer \in Finished : newer > k}) < Retention}
    /\ GoTo(j, "end")
    /\ UNCHANGED <<nextJob, active, state, fr, mu, opkg, files, restarts>>

(* DELETE on a job that is not finished. *)
Cancel(j) ==
    /\ j \in jobs /\ state[j] \notin Terminal
    /\ fr[j].ctx = "live"
    /\ fr' = [fr EXCEPT ![j].ctx = "canceled"]
    /\ UNCHANGED <<table, state, pc, mu, opkg, files, restarts>>

---------------------------------------------------------------------------
(* Synchronous handlers, deadlines, restarts.                              *)

SyncRequest(s, ask) ==
    /\ pc[s] = "none"
    /\ GoTo(s, "started")
    /\ fr' = [fr EXCEPT ![s].ask = ask]
    /\ UNCHANGED <<table, state, mu, opkg, files, restarts>>

SyncReply(s) ==
    /\ pc[s] = "returned"
    /\ GoTo(s, "end")
    /\ fr' = [fr EXCEPT ![s] = Blank]
    /\ UNCHANGED <<table, state, mu, opkg, files, restarts>>

(* The 180 s of a job or of a synchronous request, or its client leaving,  *)
(* as long as somebody looks at the context.                               *)
Deadline(c) ==
    /\ pc[c] \in {"queued", "started", "locked", "opkg", "verify", "returned"}
    /\ fr[c].ctx = "live"
    /\ fr' = [fr EXCEPT ![c].ctx = "deadline"]
    /\ UNCHANGED <<table, state, pc, mu, opkg, files, restarts>>

(* Core is restarted: the table, the slot, the mutex and the goroutines    *)
(* are gone; the history stays, and an opkg process lives on as an orphan. *)
Restart ==
    /\ restarts < MaxRestarts
    /\ restarts' = restarts + 1
    /\ jobs' = {} /\ active' = None /\ mu' = None
    /\ state' = [j \in Jobs |-> "none"]
    /\ pc' = [c \in Callers |-> IF pc[c] = "none" THEN "none" ELSE "end"]
    /\ fr' = [c \in Callers |-> Blank]
    /\ UNCHANGED <<nextJob, opkg, files>>

OrphanExits(c) ==
    /\ c \in opkg /\ pc[c] = "end"
    /\ opkg' = opkg \ {c}
    /\ UNCHANGED <<table, state, pc, fr, mu, files, restarts>>

Operate(c) ==
    \/ TakeMutex(c)
    \/ Reject(c)
    \/ StartOpkg(c)
    \/ OpkgExits(c)
    \/ OpkgFails(c)
    \/ VerifyInstalled(c)

RunJob(j) ==
    \/ StartJob(j)
    \/ SettleJob(j)
    \/ AppendHistory(j)
    \/ FreeSlot(j)
    \/ PruneJobs(j)

Next ==
    \/ \E ask \in Requests : Accept(ask)
    \/ \E c \in Callers : Operate(c) \/ Deadline(c) \/ OrphanExits(c)
    \/ \E j \in Jobs : RunJob(j) \/ Cancel(j)
    \/ \E s \in Syncs : SyncReply(s) \/ \E ask \in SyncRequests : SyncRequest(s, ask)
    \/ Restart

Spec == Init /\ [][Next]_vars

(* Goroutines run; marketplaceInstallMu is handed over to waiters; the     *)
(* deadline of a context fires; and an opkg whose context is done is       *)
(* killed.  Nothing is assumed of an opkg that has not been killed: it may *)
(* hang.  That the kill ends cmd.Run assumes that no daemon the package    *)
(* started keeps the output pipe open.                                     *)
OpkgKilled(c) == fr[c].ctx # "live" /\ OpkgFails(c)

Fairness ==
    /\ \A c \in Callers :
        /\ SF_vars(TakeMutex(c))
        /\ WF_vars(Reject(c) \/ StartOpkg(c) \/ VerifyInstalled(c))
        /\ WF_vars(Deadline(c))
        /\ WF_vars(OpkgKilled(c))
    /\ \A j \in Jobs : WF_vars(RunJob(j))
    /\ \A s \in Syncs : WF_vars(SyncReply(s))

FairSpec == Spec /\ Fairness

---------------------------------------------------------------------------
(* Properties.                                                             *)

Holding   == {"locked", "opkg", "verify"}
Unsettled == {"queued", "started", "returned"} \cup Holding
Owning    == {"settled", "recorded"} \cup Unsettled
Phases    == {"none", "freed", "end"} \cup Owning

Frames == [ctx : {"live", "canceled", "deadline"}, failed : BOOLEAN,
           ask : Requests \cup {None}, achieved : SUBSET {"package", "files", "version"},
           view : SUBSET Detected]

TypeOK ==
    /\ nextJob \in 1..(MaxJobs + 1)
    /\ jobs \subseteq Jobs
    /\ active \in Jobs \cup {None}
    /\ state \in [Jobs -> {"none", "queued", "running"} \cup Terminal]
    /\ pc \in [Callers -> Phases]
    /\ fr \in [Callers -> Frames]
    /\ mu \in Callers \cup {None}
    /\ opkg \subseteq Callers
    /\ restarts \in 0..MaxRestarts

(* marketplaceInstallMu is held by exactly the caller that is inside it. *)
HolderAtWork == \A c \in Callers : mu = c <=> pc[c] \in Holding

(* At most one opkg that this Core started runs at a time, and only for    *)
(* the caller that holds marketplaceInstallMu: jobs exclude each other by  *)
(* the slot, but the synchronous handlers do not use the slot.             *)
OneInstaller == \A c \in opkg : pc[c] = "end" \/ (mu = c /\ pc[c] = "opkg")

(* Every job that is not finished owns the slot, and the slot is owned by  *)
(* a job of the table: the slot cannot be leaked or freed early.           *)
SlotOwned ==
    /\ active # None => active \in jobs
    /\ \A j \in jobs : state[j] \notin Terminal => active = j

(* How the phase of a job's goroutine, the slot and the job's state agree. *)
JobsCoherent ==
    \A j \in Jobs :
        /\ pc[j] = "none" <=> j >= nextJob
        /\ pc[j] = "none" => j \notin jobs
        /\ pc[j] \in Owning => active = j
        /\ active = j => pc[j] \in Owning
        /\ j \in jobs /\ state[j] \notin Terminal => pc[j] \in Unsettled

(* A readback has found the request done. *)
ShownDone(f) == f.ask \in Requests /\ f.view \in Views(f.ask) /\ LooksDone(f)

(* What the verdict of a job rests on. *)
EffectsCoherent ==
    /\ \A c \in Callers : pc[c] \in {"queued", "started"} \cup Holding => fr[c].ask \in Requests
    /\ \A j \in Jobs :
        /\ pc[j] = "returned" /\ ~fr[j].failed => ShownDone(fr[j])
        /\ pc[j] = "settled" /\ state[j] = "succeeded" => ShownDone(fr[j])

(* The inductive invariant. *)
ActionsInv ==
    TypeOK /\ HolderAtWork /\ OneInstaller /\ SlotOwned /\ JobsCoherent /\ EffectsCoherent

(* A job that ends as succeeded did what a client may take that for,       *)
(* whatever opkg's exit status was and whenever a cancel or the deadline   *)
(* arrived.  An Entware package is there, or gone; a compared update has   *)
(* the new version; of an installed item something is there, its package   *)
(* if that is what counts; a removed item shows no trace.  The exceptions  *)
(* of the code: an uncompared update may have left the old version, a      *)
(* catalogue item may be installed in part only, and a removal passes when *)
(* the status file cannot be read or the item has left the catalogue.      *)
SucceededIsDone ==
    \A j \in Jobs :
        LET ask == fr[j].ask
            did == fr[j].achieved
        IN  pc[j] = "settled" /\ state[j] = "succeeded" =>
            /\ ask.source = "entware" => "package" \in did
            /\ Compared(ask) => "version" \in did
            /\ ask.action # "remove" =>
                did \cap Detected # {} /\ (ask.authoritative => "package" \in did)
            /\ ask.source = "catalog" /\ ask.action = "remove" /\ fr[j].view = Detected =>
                (IF ask.authoritative THEN {"package"} ELSE Detected) \subseteq did

(* The jobs that are newer than j and have finished, pruned or not. *)
NewerFinished(j) == {k \in (j + 1)..(nextJob - 1) : state[k] \in Terminal}

(* A job leaves the table only when Retention newer jobs have finished; a  *)
(* restart forgets all.                                                    *)
PrunedLate ==
    restarts = 0 =>
        \A j \in 1..(nextJob - 1) : j \notin jobs => Cardinality(NewerFinished(j)) >= Retention

(* The table stays bounded although new jobs may start and finish before   *)
(* earlier ones have pruned - each job above Retention is owed to a prune  *)
(* still to come - and a job leaves it only when Retention newer jobs have *)
(* finished.                                                               *)
TableBounded ==
    /\ Cardinality(Finished) <=
            Retention + Cardinality({j \in Jobs : pc[j] \in {"settled", "recorded", "freed"}})
    /\ PrunedLate

(* Reading the rotated file and then the history file gives the jobs in    *)
(* the order in which they ran, without duplicates, whatever step of the   *)
(* rotation or the append failed; lines that do not parse are skipped.     *)
HistoryInOrder ==
    LET lines == rotated \o history
    IN \A i, k \in 1..Len(lines) :
        i < k /\ lines[i].job # None /\ lines[k].job # None => lines[i].job < lines[k].job

(* Why the history is in order: the slot's job is the newest one, and no   *)
(* record is newer than it or, before it is recorded, the same.            *)
HistoryInv ==
    LET older(j) == j < nextJob /\ (active # None /\ pc[active] # "recorded" => j < active)
        Before(a, b) == a.job # None /\ b.job # None => a.job < b.job
    IN  /\ history \in Seq(Lines) /\ rotated \in Seq(Lines)
        /\ active # None => active = nextJob - 1
        /\ \A i \in 1..Len(history) : history[i].job # None => older(history[i].job)
        /\ \A i \in 1..Len(rotated) : rotated[i].job # None => older(rotated[i].job)
        /\ \A i, k \in 1..Len(history) : i < k => Before(history[i], history[k])
        /\ \A i, k \in 1..Len(rotated) : i < k => Before(rotated[i], rotated[k])
        /\ \A i \in 1..Len(rotated), k \in 1..Len(history) : Before(rotated[i], history[k])

(* Why the table is bounded: only a job that has freed the slot and has    *)
(* not pruned yet is counted twice, and what has finished stays finished.  *)
TableInv ==
    /\ Cardinality(Finished) <= Retention + Cardinality({j \in Jobs : pc[j] = "freed"})
    /\ \A j \in Jobs : pc[j] = "queued" => state[j] \notin Terminal
    /\ PrunedLate

(* What a client is shown follows the phase of the job's goroutine. *)
ShownCoherent ==
    \A j \in Jobs :
        /\ pc[j] = "queued" => state[j] = "queued"
        /\ pc[j] \in Unsettled \ {"queued"} => state[j] = "running"

(* The abstract queue: a job is accepted, judged, freed and forgotten as   *)
(* JobQueue says, whatever the goroutine, its context, opkg and the        *)
(* synchronous requests do in between.                                     *)
Shown  == [j \in Jobs |-> IF j \in jobs THEN state[j] ELSE "none"]
Passed == {j \in Jobs : pc[j] = "returned" /\ ~fr[j].failed}

Queue == INSTANCE JobQueue WITH
    Others <- Syncs, issued <- nextJob - 1, shown <- Shown, slot <- active, installer <- mu,
    passed <- Passed

ImplementsJobQueue == Queue!QSpec

(* The slot is always freed, even if opkg hangs. *)
SlotFreed == \A j \in Jobs : active = j ~> active # j

(* Every synchronous request is answered, even if opkg hangs in a job that *)
(* holds the mutex.                                                        *)
SyncAnswered == \A s \in Syncs : pc[s] = "started" ~> pc[s] = "end"
====
