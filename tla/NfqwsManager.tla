---- MODULE NfqwsManager ----
(***************************************************************************)
(* modules/nfqws-manager-runtime: the handlers that change the active      *)
(* config, the saved configs and the lists they name, and restart nfqws2.  *)
(*                                                                         *)
(* Only renames exclude each other (nf5g2RenameMu); every other handler    *)
(* runs beside them and beside its own kind, protected by comparisons of   *)
(* digests.  Here a config is the set of lists it names, which is all that *)
(* a list's rename or deletion depends on, and a list is its payload.      *)
(* os.SameFile is subsumed by the comparison of contents: a file replaced  *)
(* by an equal one is refused by the code and accepted here.               *)
(***************************************************************************)
EXTENDS Integers, FiniteSets

CONSTANTS
    Procs,      \* requests that run at once
    Lists,      \* names of lists
    Active,     \* nfqws2.conf
    Saved,      \* names in the config library
    Contents,   \* what users write in configs: sets of lists
    Payloads,   \* what a list may hold
    Empty,      \* the payload of a list just created
    Absent,     \* a file that does not exist
    None,
    MaxOps,     \* bound on the requests ever served
    MaxFaults   \* bound on writes and restarts that fail, and crashes

Configs == Saved \cup {Active}
Answers == {"ok", "error", "rolled_back"}

ASSUME NfqwsAssumption ==
    /\ Contents \subseteq SUBSET Lists
    /\ Active \notin Saved /\ Empty \in Payloads
    /\ Absent \notin Payloads /\ None \notin Procs \cup Lists \cup Payloads \cup Answers
    /\ Absent # None /\ \A x \in SUBSET Lists : x # Absent /\ x # None
    /\ MaxOps \in Nat /\ MaxFaults \in Nat

VARIABLES
    conf,      \* contents of the config files
    list,      \* payloads of the list files
    loaded,    \* the config nfqws2 was last started with, None when it is down
    mu,        \* nf5g2RenameMu
    op,        \* what each request is doing
    alone,     \* history: no other request ran beside this one
    since,     \* history: configs others wrote since a request last looked for references
    excused,   \* history: configs whose writer, or a writer racing an unlink, broke them
    ops, faults

vars == <<conf, list, loaded, mu, op, alone, since, excused, ops, faults>>
files == <<conf, list, excused>>

Blank == [kind |-> "none", phase |-> "idle", old |-> None, new |-> None,
          pay |-> None, want |-> {}, snap |-> [c \in {} |-> {}], before |-> None,
          left |-> {}, mod |-> {}, was |-> FALSE, bad |-> FALSE, answer |-> None]

Exists(l)        == list[l] # Absent
References(l)    == {c \in Configs : conf[c] # Absent /\ l \in conf[c]}
Renamed(x, l, k) == (x \ {l}) \cup {k}
Updated(o, c)    == IF o.kind = "rename" THEN Renamed(o.snap[c], o.old, o.new) ELSE o.want

Init ==
    /\ conf \in [Configs -> Contents \cup {Absent}] /\ conf[Active] # Absent
    /\ list \in [Lists -> Payloads \cup {Absent}]
    /\ \A c \in Configs : conf[c] # Absent => \A l \in conf[c] : Exists(l)
    /\ loaded \in {conf[Active], None}
    /\ mu = None
    /\ op = [p \in Procs |-> Blank]
    /\ alone = [p \in Procs |-> TRUE]
    /\ since = [p \in Procs |-> {}]
    /\ excused = {}
    /\ ops = 0 /\ faults = 0

---------------------------------------------------------------------------
(* Steps of requests.                                                      *)

Begin(p, o) ==
    /\ op[p] = Blank /\ ops < MaxOps
    /\ ops' = ops + 1
    /\ op' = [op EXCEPT ![p] = o]
    /\ alone' = [q \in Procs |-> IF q = p THEN \A r \in Procs : op[r] = Blank
                                 ELSE alone[q] /\ op[q] = Blank]
    /\ UNCHANGED <<files, loaded, mu, since, faults>>

At(p, phase) == op[p].phase = phase
Set(p, o)    == op' = [op EXCEPT ![p] = o] /\ UNCHANGED <<alone, ops>>
Go(p, phase) == Set(p, [op[p] EXCEPT !.phase = phase])
Undo(p)      == Set(p, [op[p] EXCEPT !.phase = "undo", !.left = op[p].mod])

(* The handler answers; a rename's deferred Unlock runs. *)
Answer(p, answer) ==
    /\ Set(p, [op[p] EXCEPT !.phase = "done", !.answer = answer])
    /\ mu' = IF mu = p THEN None ELSE mu

Works == UNCHANGED faults
Fails == faults < MaxFaults /\ faults' = faults + 1

(* safety.WriteFileAtomic of a config: all or nothing.  Whoever writes a   *)
(* config that names a missing list has broken it himself.                 *)
Put(p, c, x) ==
    /\ conf' = [conf EXCEPT ![c] = x]
    /\ excused' = IF x # Absent /\ \E l \in x : ~Exists(l) THEN excused \cup {c} ELSE excused \ {c}
    /\ since' = [q \in Procs |-> IF q # p /\ op[q].phase \in {"unlink", "unlinkNew"}
                                 THEN since[q] \cup {c} ELSE since[q]]
    /\ UNCHANGED list

(* os.Remove of a list: configs that gained a reference after the request  *)
(* looked are broken by the race.                                          *)
Unlink(p, l) ==
    /\ list' = [list EXCEPT ![l] = Absent]
    /\ excused' = excused \cup (References(l) \cap since[p])
    /\ since' = [since EXCEPT ![p] = {}]
    /\ UNCHANGED conf

(* runInit: nfqws2 starts with the config it finds; a restart that fails   *)
(* may leave it down; one that is reported as done may be followed by its  *)
(* death.                                                                  *)
RestartOk   == loaded' = conf[Active] /\ Works
RestartFail == loaded' \in {loaded, None} /\ Fails
RestartDies == loaded' = None /\ Fails

---------------------------------------------------------------------------
(* handleNF5G2RenameApply.                                                 *)

Snapshots(l) == [c \in References(l) |-> conf[c]]

(* nf5gPreviewRenameInRoots: the plan the user confirms. *)
Previewed(l, k) == l # k /\ Exists(l) /\ ~Exists(k) /\ References(k) = {}

Rename(p, l, k) ==
    /\ Previewed(l, k)
    /\ Begin(p, [Blank EXCEPT !.kind = "rename", !.phase = "plan", !.old = l, !.new = k,
                              !.pay = list[l], !.snap = Snapshots(l)])

(* Mutant: a backup that fails leaves the lock held. *)
PlanLocked(p) ==
    /\ At(p, "plan") /\ mu = None
    /\ LET o  == op[p]
           ok == list[o.old] = o.pay /\ Previewed(o.old, o.new) /\ Snapshots(o.old) = o.snap
       IN \/ /\ ok /\ Works /\ mu' = p
             /\ Set(p, [o EXCEPT !.phase = "copy", !.was = loaded # None])
          \/ ~ok /\ Works /\ Answer(p, "error")
          \/ Fails /\ Set(p, [o EXCEPT !.phase = "done", !.answer = "error"]) /\ mu' = p
    /\ UNCHANGED <<files, loaded, since>>

(* The lock, the state of the service and nf5g2MakeSnapshots, before and   *)
(* again after the backups, one of which may fail.                         *)
Plan(p) ==
    /\ At(p, "plan") /\ mu = None
    /\ LET o  == op[p]
           ok == list[o.old] = o.pay /\ Previewed(o.old, o.new) /\ Snapshots(o.old) = o.snap
       IN \/ /\ ok /\ Works /\ mu' = p
             /\ Set(p, [o EXCEPT !.phase = "copy", !.was = loaded # None])
          \/ ~ok /\ Works /\ Answer(p, "error")
          \/ Fails /\ Answer(p, "error")
    /\ UNCHANGED <<files, loaded, since>>

(* nf5g2ExclusiveCopy. *)
Copy(p) ==
    /\ At(p, "copy")
    /\ LET o == op[p] IN
       \/ /\ ~Exists(o.new) /\ Works
          /\ list' = [list EXCEPT ![o.new] = o.pay]
          /\ Set(p, [o EXCEPT !.phase = IF DOMAIN o.snap = {} THEN "verify" ELSE "check",
                              !.left = DOMAIN o.snap])
          /\ UNCHANGED mu
       \/ Exists(o.new) /\ Works /\ Answer(p, "error") /\ UNCHANGED list
       \/ Fails /\ Answer(p, "error") /\ UNCHANGED list
    /\ UNCHANGED <<conf, excused, loaded, since>>

(* Saved configs are written before the active one, and put back after it. *)
NextConfig(o) == CHOOSE c \in o.left : c = Active => o.left = {Active}
LastConfig(o) == IF Active \in o.left THEN Active ELSE CHOOSE c \in o.left : TRUE

Check(p) ==
    /\ At(p, "check")
    /\ LET c == NextConfig(op[p]) IN
       IF conf[c] = op[p].snap[c] THEN Go(p, "write") ELSE Undo(p)
    /\ UNCHANGED <<files, loaded, mu, since, faults>>

(* WriteConfig; shared with the handlers that replace the active config. *)
Write(p) ==
    /\ At(p, "write")
    /\ LET o  == op[p]
           c  == NextConfig(o)
           o2 == [o EXCEPT !.left = @ \ {c}, !.mod = @ \cup {c},
                           !.phase = IF o.left = {c} THEN "restart" ELSE "check"]
       IN \/ /\ Works /\ Put(p, c, Updated(o, c))
             /\ IF o.kind = "store" THEN Answer(p, "ok") ELSE Set(p, o2) /\ UNCHANGED mu
          \/ /\ Fails /\ UNCHANGED <<files, since>>
             /\ IF o.kind \in {"rename", "smart"}
                THEN Set(p, [o2 EXCEPT !.phase = "undo", !.left = o2.mod]) /\ UNCHANGED mu
                ELSE Answer(p, "error")
    /\ UNCHANGED loaded

(* A service that ran is restarted with the new active config.  A rename   *)
(* looks at once whether it runs, so that its death counts as a failure.   *)
Restarts(o) == o.was /\ Active \in o.mod

Restart(p) ==
    /\ At(p, "restart") /\ op[p].kind # "save"
    /\ \/ ~Restarts(op[p]) /\ Go(p, "verify") /\ UNCHANGED <<loaded, faults>>
       \/ Restarts(op[p]) /\ RestartOk /\ Go(p, "verify")
       \/ Restarts(op[p]) /\ RestartDies /\ op[p].kind # "rename" /\ Go(p, "verify")
       \/ Restarts(op[p]) /\ RestartFail /\ Undo(p)
    /\ UNCHANGED <<files, mu, since>>

(* Mutant: the old list goes without another look at the configs. *)
GateTrusting(p) ==
    /\ At(p, "verify") /\ op[p].kind = "rename"
    /\ LET o == op[p] IN
       IF list[o.old] = o.pay /\ list[o.new] = o.pay
       THEN Go(p, "unlink") /\ since' = [since EXCEPT ![p] = {}]
       ELSE Undo(p) /\ UNCHANGED since
    /\ UNCHANGED <<files, loaded, mu, faults>>

(* The source, the copy and nf5g5AllowOldSourceRemoval. *)
Gate(p) ==
    /\ At(p, "verify") /\ op[p].kind = "rename"
    /\ LET o  == op[p]
           ok == /\ list[o.old] = o.pay /\ list[o.new] = o.pay
                 /\ \A c \in DOMAIN o.snap : conf[c] = Updated(o, c)
                 /\ References(o.old) = {}
       IN IF ok THEN Go(p, "unlink") /\ since' = [since EXCEPT ![p] = {}]
                ELSE Undo(p) /\ UNCHANGED since
    /\ UNCHANGED <<files, loaded, mu, faults>>

(* The last step of a rename and of a deletion. *)
RemoveOld(p) ==
    /\ At(p, "unlink")
    /\ LET o == op[p] IN
       \/ Exists(o.old) /\ Works /\ Unlink(p, o.old) /\ Answer(p, "ok")
       \/ /\ IF Exists(o.old) THEN Fails ELSE Works
          /\ IF o.kind = "rename" THEN Undo(p) /\ UNCHANGED mu ELSE Answer(p, "error")
          /\ UNCHANGED <<files, since>>
    /\ UNCHANGED loaded

(* nf5g2RestoreConfigs: only what this rename wrote is put back. *)
UndoCheck(p) ==
    /\ At(p, "undo") /\ op[p].kind = "rename"
    /\ LET o == op[p]
           c == LastConfig(o)
       IN \/ o.left = {} /\ Go(p, "rerestart")
          \/ o.left # {} /\ Set(p,
                IF conf[c] = o.snap[c]          THEN [o EXCEPT !.left = @ \ {c}]
                ELSE IF conf[c] = Updated(o, c) THEN [o EXCEPT !.phase = "undoWrite"]
                ELSE [o EXCEPT !.left = @ \ {c}, !.bad = TRUE])
    /\ UNCHANGED <<files, loaded, mu, since, faults>>

UndoWrite(p) ==
    /\ At(p, "undoWrite")
    /\ LET o == op[p]
           c == LastConfig(o)
           o2 == [o EXCEPT !.left = @ \ {c}, !.phase = IF o.kind = "rename" THEN "undo" ELSE "rerestart"]
       IN \/ Works /\ Put(p, c, o.snap[c]) /\ Set(p, o2) /\ UNCHANGED mu
          \/ /\ Fails /\ UNCHANGED <<files, since>>
             /\ IF o.kind \in {"rename", "smart"}
                THEN Set(p, [o2 EXCEPT !.bad = TRUE]) /\ UNCHANGED mu
                ELSE Answer(p, "error")
    /\ UNCHANGED loaded

(* The old config is started again, unless a rename could not bring it     *)
(* back.  handleConfig reloads always and ignores the outcome.             *)
RestartsAgain(o) ==
    \/ o.kind = "save"
    \/ o.was /\ (o.kind = "smart" \/ Active \in o.mod) /\ ~(o.kind = "rename" /\ o.bad)

Rerestart(p) ==
    /\ At(p, "rerestart")
    /\ LET o == op[p]
           Next2(bad) == IF o.kind = "rename" /\ ~bad THEN Go(p, "recheck") /\ UNCHANGED mu
                         ELSE Answer(p, IF bad THEN "error" ELSE "rolled_back")
       IN \/ ~RestartsAgain(o) /\ UNCHANGED <<loaded, faults>> /\ Next2(o.bad)
          \/ RestartsAgain(o) /\ RestartOk /\ Next2(o.bad)
          \/ RestartsAgain(o) /\ RestartDies /\ o.kind # "rename" /\ Next2(o.bad)
          \/ RestartsAgain(o) /\ RestartFail /\ Next2(o.kind # "save" \/ o.bad)
    /\ UNCHANGED <<files, since>>

(* nf5g4CanRemoveAfterRollback. *)
Recheck(p) ==
    /\ At(p, "recheck")
    /\ LET o == op[p] IN
       IF (\A c \in DOMAIN o.snap : conf[c] = o.snap[c]) /\ References(o.new) = {}
       THEN /\ Go(p, "unlinkNew") /\ UNCHANGED mu
            /\ since' = [since EXCEPT ![p] = {}]
       ELSE Answer(p, "error") /\ UNCHANGED since
    /\ UNCHANGED <<files, loaded, faults>>

(* The copy goes again, if nobody has changed it. *)
RemoveNew(p) ==
    /\ At(p, "unlinkNew")
    /\ LET o == op[p] IN
       \/ list[o.new] = o.pay /\ Works /\ Unlink(p, o.new) /\ Answer(p, "rolled_back")
       \/ list[o.new] = Absent /\ Works /\ Answer(p, "rolled_back") /\ UNCHANGED <<files, since>>
       \/ list[o.new] \notin {o.pay, Absent} /\ Works /\ Answer(p, "error") /\ UNCHANGED <<files, since>>
       \/ list[o.new] = o.pay /\ Fails /\ Answer(p, "error") /\ UNCHANGED <<files, since>>
    /\ UNCHANGED loaded

---------------------------------------------------------------------------
(* The handlers that replace the active config.                            *)

Switch(p, kind, x) ==
    Begin(p, [Blank EXCEPT !.kind = kind, !.phase = "write", !.want = x, !.left = {Active},
                           !.snap = [c \in {Active} |-> conf[Active]], !.was = loaded # None])

(* handleConfig, handleConfigLibraryActivate and, for a backup of the      *)
(* active config, handleBackupCenterRestore.                               *)
SaveConfig(p, x) == Switch(p, "save", x)
Activate(p, c)   == conf[c] # Absent /\ conf[c] # conf[Active] /\ Switch(p, "activate", conf[c])
Restore(p, x)    == Switch(p, "restore", x)

(* handleSmartApply: the active config is the one planned for, and every   *)
(* list the new one names exists or is provided (l).                       *)
SmartApply(p, x, l, v) ==
    /\ l \in x \/ (l = None /\ v = Empty)
    /\ \A k \in x \ {l} : Exists(k)
    /\ Begin(p, [Blank EXCEPT !.kind = "smart", !.phase = "guards", !.want = x,
                              !.new = l, !.pay = v, !.was = loaded # None])

(* The regression guards answer; the active config is read again. *)
Guards(p) ==
    /\ At(p, "guards")
    /\ Set(p, [op[p] EXCEPT !.phase = "dependency", !.left = {Active},
                            !.snap = [c \in {Active} |-> conf[Active]]])
    /\ UNCHANGED <<files, loaded, mu, since, faults>>

(* writeDep. *)
WriteDep(p) ==
    /\ At(p, "dependency")
    /\ LET o == op[p] IN
       IF o.new = None \/ (o.new # None /\ list[o.new] = o.pay)
       THEN Works /\ Go(p, "write") /\ UNCHANGED list
       ELSE \/ /\ Works /\ list' = [list EXCEPT ![o.new] = o.pay]
               /\ Set(p, [o EXCEPT !.phase = "write", !.before = list[o.new]])
            \/ Fails /\ Set(p, [o EXCEPT !.phase = "undo"]) /\ UNCHANGED list
    /\ UNCHANGED <<conf, excused, loaded, mu, since>>

(* handleConfig's reload; a service that is down may stay down. *)
Reload(p) ==
    /\ At(p, "restart") /\ op[p].kind = "save"
    /\ \/ RestartOk /\ Answer(p, "ok")
       \/ loaded = None /\ UNCHANGED loaded /\ Works /\ Answer(p, "ok")
       \/ RestartDies /\ Answer(p, "ok")
       \/ RestartFail /\ Undo(p) /\ UNCHANGED mu
    /\ UNCHANGED <<files, since>>

(* Mutant: only the config is compared, not the service. *)
VerifyFile(p) ==
    /\ At(p, "verify") /\ op[p].kind \in {"activate", "restore", "smart"}
    /\ LET o == op[p] IN
       IF conf[Active] = o.want THEN Answer(p, "ok") ELSE Undo(p) /\ UNCHANGED mu
    /\ UNCHANGED <<files, loaded, since, faults>>

(* The config, the service and the provided list; after a smart apply the  *)
(* live checks, which may fail.                                            *)
Verify(p) ==
    /\ At(p, "verify") /\ op[p].kind \in {"activate", "restore", "smart"}
    /\ LET o  == op[p]
           ok == /\ conf[Active] = o.want /\ (o.was => loaded # None)
                 /\ o.kind = "smart" /\ o.new # None => list[o.new] = o.pay
       IN \/ ok /\ Works /\ Answer(p, "ok")
          \/ ~ok /\ Works /\ Undo(p) /\ UNCHANGED mu
          \/ o.kind = "smart" /\ Fails /\ Undo(p) /\ UNCHANGED mu
    /\ UNCHANGED <<files, loaded, since>>

(* smartApplyRollback: first the list, which is removed when it was        *)
(* created, whoever names it.                                              *)
UndoDep(p) ==
    /\ At(p, "undo") /\ op[p].kind # "rename"
    /\ LET o  == op[p]
           o2 == [o EXCEPT !.phase = "undoWrite", !.left = {Active}]
       IN \/ /\ o.before = None /\ Works /\ Set(p, o2) /\ UNCHANGED files
          \/ /\ o.before # None /\ Works /\ Set(p, o2)
             /\ list' = [list EXCEPT ![o.new] = o.before]
             /\ excused' = IF o.before = Absent THEN excused \cup References(o.new) ELSE excused
             /\ UNCHANGED conf
          \/ o.before # None /\ Fails /\ Set(p, [o2 EXCEPT !.bad = TRUE]) /\ UNCHANGED files
    /\ UNCHANGED <<loaded, mu, since>>

---------------------------------------------------------------------------
(* Lists, the library of saved configs and the service.                    *)

(* handleListCreate: O_EXCL decides. *)
CreateList(p, l) == Begin(p, [Blank EXCEPT !.kind = "create", !.phase = "create", !.old = l])

CreateExclusive(p) ==
    /\ At(p, "create")
    /\ LET l == op[p].old IN
       IF Exists(l) THEN Answer(p, "error") /\ UNCHANGED list
       ELSE Answer(p, "ok") /\ list' = [list EXCEPT ![l] = Empty]
    /\ UNCHANGED <<conf, excused, loaded, since, faults>>

(* handleListSave: the expected digest is compared before and after the    *)
(* backup, then the list is replaced.                                      *)
SaveList(p, l, v) ==
    /\ Exists(l)
    /\ Begin(p, [Blank EXCEPT !.kind = "list", !.phase = "preimage", !.old = l,
                              !.before = list[l], !.pay = v])

Preimage(p) ==
    /\ At(p, "preimage")
    /\ IF list[op[p].old] = op[p].before THEN Go(p, "replace") /\ UNCHANGED mu ELSE Answer(p, "error")
    /\ UNCHANGED <<files, loaded, since, faults>>

Replace(p) ==
    /\ At(p, "replace")
    /\ \/ Works /\ list' = [list EXCEPT ![op[p].old] = op[p].pay] /\ Answer(p, "ok")
       \/ Fails /\ UNCHANGED list /\ Answer(p, "error")
    /\ UNCHANGED <<conf, excused, loaded, since>>

(* handleListDelete: identity and references, before the backup and again  *)
(* after it.                                                               *)
DeleteList(p, l) ==
    /\ Exists(l) /\ References(l) = {}
    /\ Begin(p, [Blank EXCEPT !.kind = "delete", !.phase = "verify", !.old = l, !.pay = list[l]])

AllowDelete(p) ==
    /\ At(p, "verify") /\ op[p].kind = "delete"
    /\ IF list[op[p].old] = op[p].pay /\ References(op[p].old) = {}
       THEN Go(p, "unlink") /\ UNCHANGED mu /\ since' = [since EXCEPT ![p] = {}]
       ELSE Answer(p, "error") /\ UNCHANGED since
    /\ UNCHANGED <<files, loaded, faults>>

(* handleConfigLibraryCreate, Save and Duplicate: whether the name is      *)
(* taken is not looked at again.                                           *)
Store(p, c, x) ==
    Begin(p, [Blank EXCEPT !.kind = "store", !.phase = "write", !.left = {c}, !.want = x])

(* handleConfigLibraryDelete. *)
Drop(p, c) ==
    /\ conf[c] # Absent
    /\ Begin(p, [Blank EXCEPT !.kind = "drop", !.phase = "drop", !.left = {c}])

Discard(p) ==
    /\ At(p, "drop")
    /\ LET c == NextConfig(op[p]) IN
       \/ conf[c] # Absent /\ Works /\ Put(p, c, Absent) /\ Answer(p, "ok")
       \/ /\ IF conf[c] # Absent THEN Fails ELSE Works
          /\ Answer(p, "error") /\ UNCHANGED <<files, since>>
    /\ UNCHANGED loaded

(* handleAction. *)
Action(p) == Begin(p, [Blank EXCEPT !.kind = "action", !.phase = "init"])

RunInit(p) ==
    /\ At(p, "init")
    /\ \/ RestartOk /\ Answer(p, "ok")
       \/ loaded' = None /\ Works /\ Answer(p, "ok")
       \/ RestartDies /\ Answer(p, "ok")
       \/ RestartFail /\ Answer(p, "error")
    /\ UNCHANGED <<files, since>>

---------------------------------------------------------------------------

Request(p) ==
    \/ \E l, k \in Lists : Rename(p, l, k)
    \/ \E x \in Contents : SaveConfig(p, x) \/ Restore(p, x)
    \/ \E c \in Saved : Activate(p, c) \/ Drop(p, c)
    \/ \E x \in Contents, l \in Lists \cup {None}, v \in Payloads : SmartApply(p, x, l, v)
    \/ \E l \in Lists : CreateList(p, l) \/ DeleteList(p, l)
    \/ \E l \in Lists, v \in Payloads : SaveList(p, l, v)
    \/ \E c \in Saved, x \in Contents : Store(p, c, x)
    \/ Action(p)

Step(p) ==
    \/ Plan(p) \/ Copy(p) \/ Check(p) \/ Write(p) \/ Restart(p) \/ Gate(p) \/ RemoveOld(p)
    \/ UndoCheck(p) \/ UndoWrite(p) \/ Rerestart(p) \/ Recheck(p) \/ RemoveNew(p)
    \/ Guards(p) \/ WriteDep(p) \/ Reload(p) \/ Verify(p) \/ UndoDep(p)
    \/ CreateExclusive(p) \/ Preimage(p) \/ Replace(p) \/ AllowDelete(p) \/ Discard(p) \/ RunInit(p)

Return(p) ==
    /\ At(p, "done")
    /\ Set(p, Blank)
    /\ UNCHANGED <<files, loaded, mu, since, faults>>

(* The process dies with the requests it serves. *)
Crash ==
    /\ Fails /\ \E p \in Procs : op[p] # Blank
    /\ op' = [p \in Procs |-> Blank] /\ alone' = [p \in Procs |-> TRUE]
    /\ since' = [p \in Procs |-> {}]
    /\ mu' = None
    /\ UNCHANGED <<files, loaded, ops>>

Next == Crash \/ \E p \in Procs : Request(p) \/ Step(p) \/ Return(p)

Spec == Init /\ [][Next]_vars

---------------------------------------------------------------------------

(* In every state, of a transaction, of its rollback or after a crash,     *)
(* every config names existing lists only, unless it was written with a    *)
(* name that did not exist, or gained it in the moment between a last look *)
(* for references and the unlink, or a smart apply took its list back.     *)
RefsResolve ==
    \A c \in Configs \ excused : conf[c] # Absent => \A l \in conf[c] : Exists(l)

Kept(o) == \A c \in DOMAIN o.snap : conf[c] = o.snap[c]

(* The files and the service are what the answer says. *)
Truthful(o) ==
    /\ o.answer = "ok" /\ o.kind = "rename" =>
          /\ ~Exists(o.old) /\ list[o.new] = o.pay
          /\ References(o.old) = {} /\ References(o.new) = DOMAIN o.snap
    /\ o.answer = "rolled_back" /\ o.kind = "rename" =>
          list[o.old] = o.pay /\ ~Exists(o.new)
    /\ o.answer = "ok" /\ o.kind \in {"save", "activate", "restore", "smart"} =>
          /\ conf[Active] = o.want
          /\ o.kind = "smart" => \A l \in o.want : Exists(l)
    /\ o.answer = "ok" /\ o.kind # "save" /\ Restarts(o) => loaded = conf[Active]
    /\ o.answer = "rolled_back" =>
          /\ Kept(o)
          /\ o.kind # "save" /\ RestartsAgain(o) => loaded \in {conf[Active], None}
          /\ o.kind = "rename" /\ RestartsAgain(o) => loaded = conf[Active]
          /\ o.before \notin {None, Absent} => list[o.new] = o.before
          /\ o.before = Absent => ~Exists(o.new)

(* What a request that ran alone answers is the case: after "ok" the files *)
(* are what was asked for and the service runs with them; after            *)
(* "rolled_back" the files are what they were and the service does not run *)
(* with the rejected config; a rename has looked that it runs.             *)
(* handleConfig, which looks at neither, speaks of the file only.          *)
AnswersTruthful == \A p \in Procs : At(p, "done") /\ alone[p] => Truthful(op[p])

(* No request is stuck: each can take its next step, or waits for a rename *)
(* that can; the lock is never left behind by a handler that returned.     *)
NobodyStuck ==
    \A p \in Procs : op[p] # Blank =>
       \/ ENABLED (Step(p) \/ Return(p))
       \/ \E q \in Procs : mu = q /\ ENABLED Step(q)

---------------------------------------------------------------------------
(* The inductive invariant.                                                *)

Switching == {"save", "activate", "restore", "smart"}
Kinds     == Switching \cup {"none", "rename", "create", "list", "delete", "store", "drop", "action"}
Phases    == {"idle", "plan", "copy", "check", "write", "restart", "verify", "unlink", "undo",
              "undoWrite", "rerestart", "recheck", "unlinkNew", "guards", "dependency", "create",
              "preimage", "replace", "drop", "init", "done"}

Snaps  == UNION {[S -> SUBSET Lists] : S \in SUBSET Configs}
Frames ==
    [kind : Kinds, phase : Phases, old : Lists \cup {None}, new : Lists \cup {None},
     pay : Payloads \cup {None}, want : SUBSET Lists, snap : Snaps,
     before : Payloads \cup {Absent, None}, left : SUBSET Configs, mod : SUBSET Configs,
     was : BOOLEAN, bad : BOOLEAN, answer : Answers \cup {None}]

TypeOK ==
    /\ conf \in [Configs -> (SUBSET Lists) \cup {Absent}] /\ conf[Active] # Absent
    /\ list \in [Lists -> Payloads \cup {Absent}]
    /\ loaded \in (SUBSET Lists) \cup {Absent, None}
    /\ mu \in Procs \cup {None}
    /\ op \in [Procs -> Frames] /\ alone \in [Procs -> BOOLEAN]
    /\ since \in [Procs -> SUBSET Configs] /\ excused \in SUBSET Configs
    /\ ops \in 0..MaxOps /\ faults \in 0..MaxFaults

(* How the fields of a frame agree with its kind and phase. *)
Coherent(o) ==
    /\ o.kind = "rename" =>
        /\ o.old \in Lists /\ o.new \in Lists /\ o.pay \in Payloads /\ o.before = None
        /\ o.mod \subseteq DOMAIN o.snap
        /\ o.phase \in {"plan", "copy", "check", "write", "restart", "verify", "unlink", "undo",
                        "undoWrite", "rerestart", "recheck", "unlinkNew", "done"}
        /\ o.phase \in {"check", "write", "undo", "undoWrite"} => o.left \subseteq DOMAIN o.snap
        /\ o.phase \in {"plan", "copy"} => o.mod = {}
        /\ o.phase = "rerestart" => o.left = {}
    /\ o.kind \in Switching =>
        /\ o.phase \in {"guards", "dependency", "write", "restart", "verify", "undo",
                        "undoWrite", "rerestart", "done"}
        /\ o.phase \notin {"guards", "done"} => DOMAIN o.snap = {Active}
        /\ o.phase \in {"dependency", "write", "undoWrite"} => o.left = {Active}
        /\ o.phase \in {"guards", "dependency"} => o.kind = "smart" /\ o.before = None
        /\ o.kind = "smart" => o.pay \in Payloads /\ (o.new # None => o.new \in o.want)
        /\ o.before # None => o.kind = "smart" /\ o.new \in Lists
    /\ o.kind \notin Switching \cup {"rename"} =>
        /\ o.phase \in {"idle", "create", "preimage", "replace", "verify", "unlink", "write",
                        "drop", "init", "done"}
        /\ ~o.was /\ o.answer # "rolled_back"
        /\ o.phase = "create" => o.kind = "create" /\ o.old \in Lists
        /\ o.phase \in {"preimage", "replace"} => o.kind = "list" /\ o.old \in Lists /\ o.pay \in Payloads
        /\ o.phase \in {"verify", "unlink"} => o.kind = "delete" /\ o.old \in Lists /\ o.pay \in Payloads
        /\ o.phase = "write" => o.kind = "store"
        /\ o.phase = "drop" => o.kind = "drop" /\ o.left \subseteq Saved
    /\ o.phase \in {"check", "write", "undoWrite", "drop"} => o.left # {}
    /\ o.phase # "done" => o.answer = None

(* nf5g2RenameMu is held by the rename at work, and by nobody else. *)
Locked(o) == o.kind = "rename" /\ o.phase \notin {"plan", "done"}
LockHeld  == \A p \in Procs : mu = p <=> Locked(op[p])

(* Whoever is about to unlink a list found no reference to it. *)
Looked ==
    \A p \in Procs :
        /\ At(p, "unlink") => References(op[p].old) \subseteq since[p]
        /\ At(p, "unlinkNew") => References(op[p].new) \subseteq since[p]

(* Requests that run by themselves. *)
Solo == \A p \in Procs : alone[p] /\ op[p] # Blank => \A q \in Procs \ {p} : op[q] = Blank

(* What a rename that runs alone knows. *)
RenameFacts(o) ==
    o.kind = "rename" =>
    /\ o.phase \in {"plan", "copy"} =>
        list[o.old] = o.pay /\ Previewed(o.old, o.new) /\ Snapshots(o.old) = o.snap
    /\ o.phase \notin {"plan", "copy", "done"} =>
        /\ o.old # o.new /\ list[o.old] = o.pay /\ list[o.new] = o.pay
        /\ References(o.old) \cup References(o.new) \subseteq DOMAIN o.snap
        /\ \A c \in DOMAIN o.snap :
            o.old \in o.snap[c] /\ o.new \notin o.snap[c] /\ conf[c] \in {o.snap[c], Updated(o, c)}
    /\ o.phase \in {"check", "write"} =>
        \A c \in DOMAIN o.snap : conf[c] = IF c \in o.left THEN o.snap[c] ELSE Updated(o, c)
    /\ o.phase \in {"check", "write"} => o.mod = DOMAIN o.snap \ o.left
    /\ o.phase \in {"restart", "verify", "unlink"} =>
        o.mod = DOMAIN o.snap /\ \A c \in DOMAIN o.snap : conf[c] = Updated(o, c)
    /\ o.phase \in {"verify", "unlink"} /\ Restarts(o) => loaded = conf[Active]
    /\ o.phase \in {"undo", "undoWrite", "rerestart"} /\ ~o.bad =>
        \A c \in DOMAIN o.snap \ o.left : conf[c] = o.snap[c]
    /\ o.phase \in {"recheck", "unlinkNew"} =>
        Kept(o) /\ (RestartsAgain(o) => loaded = conf[Active])

(* What a handler that replaces the active config knows when it runs alone. *)
SwitchFacts(o) ==
    o.kind \in Switching =>
    /\ o.phase \in {"restart", "verify"} => conf[Active] = o.want
    /\ o.phase = "verify" /\ Restarts(o) => loaded \in {conf[Active], None}
    /\ o.kind = "smart" /\ o.phase \in {"guards", "dependency", "write", "restart", "verify"} =>
        \A k \in o.want \ {o.new} : Exists(k)
    /\ o.phase = "rerestart" /\ ~o.bad => Kept(o)
    /\ o.phase \in {"undoWrite", "rerestart"} /\ ~o.bad /\ o.before # None => list[o.new] = o.before

Facts(o) == RenameFacts(o) /\ SwitchFacts(o) /\ (o.phase = "done" => Truthful(o))

FilesInv == TypeOK /\ (\A p \in Procs : Coherent(op[p])) /\ LockHeld /\ Looked /\ RefsResolve
NfqwsInv == FilesInv /\ Solo /\ \A p \in Procs : alone[p] => Facts(op[p])
====
