---- MODULE JobQueue ----
(***************************************************************************)
(* What the App Center promises about its jobs, with the goroutines, their *)
(* contexts, opkg, the readback and the history file hidden.               *)
(*                                                                         *)
(* Jobs are numbered in the order in which they are accepted.  One slot    *)
(* admits one job at a time; the installer serves one user at a time, the  *)
(* slot's job or a synchronous request.  A job is judged once, after it    *)
(* has left the installer, and succeeds only if it passed there; only then *)
(* the slot becomes free.  A final state is shown until the job is         *)
(* forgotten, and jobs are forgotten oldest first.  Only a restart forgets *)
(* a job that has not been judged.                                         *)
(***************************************************************************)
EXTENDS Integers

CONSTANTS
    MaxJobs,  \* bound on the jobs ever accepted
    Others,   \* the other users of the installer
    None      \* no job, nobody

VARIABLES
    issued,     \* the number of the last job
    shown,      \* the state a client is shown of a job, "none" for an unknown one
    slot,       \* the job that has not been judged, or not left, yet
    installer,  \* who uses the installer
    passed      \* jobs that did what was asked and have not been judged

qvars == <<issued, shown, slot, installer, passed>>

Numbers == 1..MaxJobs
Final   == {"succeeded", "failed", "cancelled"}

QInit ==
    /\ issued = 0
    /\ shown = [j \in Numbers |-> "none"]
    /\ slot = None /\ installer = None /\ passed = {}

QAccept(j) ==
    /\ slot = None /\ shown[j] = "none" /\ j = issued + 1
    /\ issued' = j /\ slot' = j
    /\ shown' = [shown EXCEPT ![j] = "queued"]
    /\ UNCHANGED <<installer, passed>>

Begin(j) ==
    /\ slot = j /\ shown[j] = "queued"
    /\ shown' = [shown EXCEPT ![j] = "running"]
    /\ UNCHANGED <<issued, slot, installer, passed>>

Use(user) ==
    /\ installer = None
    /\ user \in Numbers => slot = user /\ shown[user] = "running"
    /\ installer' = user
    /\ UNCHANGED <<issued, shown, slot, passed>>

Leave(user) ==
    /\ installer = user
    /\ installer' = None
    /\ passed' = passed \/ (user \in Numbers /\ passed' = passed \cup {user})
    /\ UNCHANGED <<issued, shown, slot>>

Judge(j, verdict) ==
    /\ slot = j /\ shown[j] = "running" /\ installer # j
    /\ verdict = "succeeded" => j \in passed
    /\ shown' = [shown EXCEPT ![j] = verdict]
    /\ passed' = passed \ {j}
    /\ UNCHANGED <<issued, slot, installer>>

Free(j) ==
    /\ slot = j /\ shown[j] \in Final
    /\ slot' = None
    /\ UNCHANGED <<issued, shown, installer, passed>>

(* Every job that is kept is newer than every one that is forgotten. *)
Forget(gone) ==
    /\ \A j \in gone : j # slot /\ shown[j] \in Final
    /\ \A j \in gone : \A k \in Numbers \ gone : k # slot /\ shown[k] \in Final => k > j
    /\ shown' = [j \in Numbers |-> IF j \in gone THEN "none" ELSE shown[j]]
    /\ UNCHANGED <<issued, slot, installer, passed>>

ForgetAll ==
    /\ shown' = [j \in Numbers |-> "none"]
    /\ slot' = None /\ installer' = None /\ passed' = {}
    /\ UNCHANGED issued

QNext ==
    \/ \E j \in Numbers :
        QAccept(j) \/ Begin(j) \/ Free(j) \/ \E verdict \in Final : Judge(j, verdict)
    \/ \E user \in Numbers \cup Others : Use(user) \/ Leave(user)
    \/ \E gone \in SUBSET Numbers : Forget(gone)
    \/ ForgetAll

QSpec == QInit /\ [][QNext]_qvars
====
