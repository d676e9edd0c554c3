---- MODULE AppActionsProofs ----
(***************************************************************************)
(* Proofs about the App Center jobs: the slot, the installer mutex and the *)
(* verdict of a job, the history, the table and the abstract queue they    *)
(* implement, for every number of jobs, of synchronous handlers and of     *)
(* restarts.                                                               *)
(***************************************************************************)
EXTENDS AppActions, FiniteSetTheorems, SequenceTheorems, TLAPS

(* Core starts with no job, no holder and no opkg. *)
LEMMA InitEstablishesInv == Init => ActionsInv
BY BoundsAssumption, NamesAssumption
DEF Init, ActionsInv, TypeOK, HolderAtWork, OneInstaller, SlotOwned, JobsCoherent,
    EffectsCoherent, Blank, Frames, Holding, Unsettled, Owning, Phases, Terminal, Jobs, Callers

(* Jobs are numbers and callers, and None is no caller. *)
LEMMA Names ==
    /\ Jobs \subseteq Callers /\ Syncs \subseteq Callers
    /\ None \notin Callers
    /\ \A j \in Jobs : j \in Int
    /\ \A s \in Syncs : s \notin Jobs
BY NamesAssumption, BoundsAssumption DEF Jobs, Callers

(* Frames stay frames, and what a readback has found does not depend on    *)
(* the context or on runErr.                                               *)
LEMMA FrameFacts ==
    /\ Blank \in Frames
    /\ \A f \in Frames : Failed(f) \in Frames /\ Failed(f).failed
    /\ \A f, g \in Frames :
        f.ask = g.ask /\ f.achieved = g.achieved /\ f.view = g.view =>
            (ShownDone(f) <=> ShownDone(g))
<1>1. Blank \in Frames
    BY DEF Blank, Frames
<1>2. \A f \in Frames : Failed(f) \in Frames /\ Failed(f).failed
    BY <1>1 DEF Failed, Blank, Frames
<1>3. ASSUME NEW f \in Frames, NEW g \in Frames,
             f.ask = g.ask, f.achieved = g.achieved, f.view = g.view
      PROVE  ShownDone(f) <=> ShownDone(g)
    BY <1>3 DEF ShownDone, LooksDone, Traces
<1> QED
    BY <1>1, <1>2, <1>3

(* What a change of the context or of the request makes of a frame. *)
LEMMA FrameUpdates ==
    ASSUME NEW f \in Frames
    PROVE  /\ \A x \in {"canceled", "deadline"} :
                /\ [f EXCEPT !.ctx = x] \in Frames
                /\ [f EXCEPT !.ctx = x].ask = f.ask
                /\ [f EXCEPT !.ctx = x].failed = f.failed
                /\ ShownDone([f EXCEPT !.ctx = x]) <=> ShownDone(f)
           /\ [f EXCEPT !.ctx = "live", !.failed = FALSE] \in Frames
           /\ ShownDone([f EXCEPT !.ctx = "live", !.failed = FALSE]) <=> ShownDone(f)
           /\ \A ask \in Requests : [f EXCEPT !.ask = ask] \in Frames /\ [f EXCEPT !.ask = ask].ask = ask
<1>1. ASSUME NEW x \in {"canceled", "deadline"}
      PROVE  /\ [f EXCEPT !.ctx = x] \in Frames
             /\ [f EXCEPT !.ctx = x].ask = f.ask
             /\ [f EXCEPT !.ctx = x].failed = f.failed
             /\ ShownDone([f EXCEPT !.ctx = x]) <=> ShownDone(f)
    <2>1. PICK g : g = [f EXCEPT !.ctx = x]
        OBVIOUS
    <2>2. /\ g \in Frames /\ g.ask = f.ask /\ g.failed = f.failed
          /\ g.achieved = f.achieved /\ g.view = f.view
        BY <2>1 DEF Frames
    <2> QED
        BY <2>1, <2>2, FrameFacts
<1>2. /\ [f EXCEPT !.ctx = "live", !.failed = FALSE] \in Frames
      /\ ShownDone([f EXCEPT !.ctx = "live", !.failed = FALSE]) <=> ShownDone(f)
    <2>1. PICK g : g = [f EXCEPT !.ctx = "live", !.failed = FALSE]
        OBVIOUS
    <2>2. g \in Frames
        BY <2>1 DEF Frames
    <2>3. g.ask = f.ask /\ g.achieved = f.achieved /\ g.view = f.view
        BY <2>1 DEF Frames
    <2> QED
        BY <2>1, <2>2, <2>3, FrameFacts
<1>3. ASSUME NEW ask \in Requests
      PROVE  [f EXCEPT !.ask = ask] \in Frames /\ [f EXCEPT !.ask = ask].ask = ask
    BY DEF Frames
<1> QED
    BY <1>1, <1>2, <1>3

(* A step of the operation under marketplaceInstallMu keeps the invariant. *)
LEMMA OperatePreservesInv ==
    ASSUME ActionsInv, NEW c \in Callers, Operate(c)
    PROVE  ActionsInv'
<1> USE Names DEF Holding, Unsettled, Owning, Phases, Terminal, GoTo, table, files
<1>1. CASE TakeMutex(c)
    <2> USE <1>1 DEF ActionsInv, TakeMutex
    <2>1. TypeOK'
        BY DEF TypeOK, Frames
    <2>2. HolderAtWork' /\ OneInstaller'
        BY DEF TypeOK, HolderAtWork, OneInstaller
    <2>3. SlotOwned' /\ JobsCoherent'
        BY DEF TypeOK, SlotOwned, JobsCoherent
    <2>4. EffectsCoherent'
        BY DEF TypeOK, Frames, EffectsCoherent
    <2> QED
        BY <2>1, <2>2, <2>3, <2>4
<1>2. CASE Reject(c)
    <2> USE <1>2 DEF ActionsInv, Reject
    <2>1. fr' \in [Callers -> Frames] /\ fr'[c].failed /\ \A d \in Callers \ {c} : fr'[d] = fr[d]
        BY FrameFacts DEF TypeOK
    <2>2. TypeOK'
        BY <2>1 DEF TypeOK
    <2>3. HolderAtWork' /\ OneInstaller'
        BY DEF TypeOK, HolderAtWork, OneInstaller
    <2>4. SlotOwned' /\ JobsCoherent'
        BY DEF TypeOK, SlotOwned, JobsCoherent
    <2>5. EffectsCoherent'
        BY <2>1 DEF TypeOK, EffectsCoherent
    <2> QED
        BY <2>2, <2>3, <2>4, <2>5
<1>3. CASE StartOpkg(c)
    <2> USE <1>3 DEF ActionsInv, StartOpkg
    <2>1. TypeOK'
        BY DEF TypeOK, Frames
    <2>2. HolderAtWork' /\ OneInstaller'
        BY DEF TypeOK, HolderAtWork, OneInstaller
    <2>3. SlotOwned' /\ JobsCoherent'
        BY DEF TypeOK, SlotOwned, JobsCoherent
    <2>4. EffectsCoherent'
        BY DEF TypeOK, Frames, EffectsCoherent
    <2> QED
        BY <2>1, <2>2, <2>3, <2>4
<1>4. CASE OpkgExits(c)
    <2> USE <1>4 DEF ActionsInv, OpkgExits
    <2>1. fr' \in [Callers -> Frames] /\ \A d \in Callers \ {c} : fr'[d] = fr[d]
        <3>1. PICK did \in SUBSET Wanted(fr[c].ask) : fr' = [fr EXCEPT ![c].achieved = did]
            OBVIOUS
        <3>2. [fr[c] EXCEPT !.achieved = did] \in Frames
            BY <3>1 DEF TypeOK, Frames, Wanted
        <3> QED
            BY <3>1, <3>2 DEF TypeOK
    <2>2. TypeOK'
        BY <2>1 DEF TypeOK
    <2>3. HolderAtWork' /\ OneInstaller'
        BY DEF TypeOK, HolderAtWork, OneInstaller
    <2>4. SlotOwned' /\ JobsCoherent'
        BY DEF TypeOK, SlotOwned, JobsCoherent
    <2>5. EffectsCoherent'
        BY <2>1 DEF TypeOK, EffectsCoherent
    <2> QED
        BY <2>2, <2>3, <2>4, <2>5
<1>5. CASE OpkgFails(c)
    <2> USE <1>5 DEF ActionsInv, OpkgFails
    <2>1. fr' \in [Callers -> Frames] /\ fr'[c].failed /\ \A d \in Callers \ {c} : fr'[d] = fr[d]
        BY FrameFacts DEF TypeOK
    <2>2. TypeOK'
        BY <2>1 DEF TypeOK
    <2>3. HolderAtWork' /\ OneInstaller'
        BY DEF TypeOK, HolderAtWork, OneInstaller
    <2>4. SlotOwned' /\ JobsCoherent'
        BY DEF TypeOK, SlotOwned, JobsCoherent
    <2>5. EffectsCoherent'
        BY <2>1 DEF TypeOK, EffectsCoherent
    <2> QED
        BY <2>2, <2>3, <2>4, <2>5
<1>6. CASE VerifyInstalled(c)
    <2> USE <1>6 DEF ActionsInv, VerifyInstalled
    <2>0. fr[c].ask \in Requests
        BY DEF TypeOK, EffectsCoherent
    <2>1. /\ fr' \in [Callers -> Frames] /\ \A d \in Callers \ {c} : fr'[d] = fr[d]
          /\ fr'[c].failed \/ ShownDone(fr'[c])
        <3>1. CASE fr' = [fr EXCEPT ![c] = Failed(@)]
            BY <3>1, FrameFacts DEF TypeOK
        <3>2. ASSUME NEW view \in Views(fr[c].ask), LooksDone([fr[c] EXCEPT !.view = view]),
                     fr' = [fr EXCEPT ![c].view = view]
              PROVE  fr' \in [Callers -> Frames] /\ ShownDone(fr'[c])
            <4>1. PICK f : f = [fr[c] EXCEPT !.view = view]
                OBVIOUS
            <4>2. f \in Frames /\ f.ask = fr[c].ask /\ f.view = view
                BY <3>2, <4>1 DEF TypeOK, Frames, Views, Detected
            <4>3. ShownDone(f)
                BY <2>0, <3>2, <4>1, <4>2 DEF ShownDone
            <4>4. fr' = [fr EXCEPT ![c] = f]
                BY <3>2, <4>1
            <4> QED
                BY <4>2, <4>3, <4>4 DEF TypeOK
        <3> QED
            BY <3>1, <3>2 DEF TypeOK
    <2>2. TypeOK'
        BY <2>1 DEF TypeOK
    <2>3. HolderAtWork' /\ OneInstaller'
        BY DEF TypeOK, HolderAtWork, OneInstaller
    <2>4. SlotOwned' /\ JobsCoherent'
        BY DEF TypeOK, SlotOwned, JobsCoherent
    <2>5. EffectsCoherent'
        BY <2>1 DEF TypeOK, EffectsCoherent
    <2> QED
        BY <2>2, <2>3, <2>4, <2>5
<1> QED
    BY <1>1, <1>2, <1>3, <1>4, <1>5, <1>6 DEF Operate

(* A step of a job's goroutine outside the mutex keeps the invariant. *)
LEMMA RunJobPreservesInv ==
    ASSUME ActionsInv, NEW j \in Jobs, RunJob(j)
    PROVE  ActionsInv'
<1> USE Names DEF Holding, Unsettled, Owning, Phases, Terminal, GoTo, table, files
<1>1. CASE StartJob(j)
    <2> USE <1>1 DEF ActionsInv, StartJob
    <2>1. TypeOK'
        BY DEF TypeOK, Frames
    <2>2. HolderAtWork' /\ OneInstaller'
        BY DEF TypeOK, HolderAtWork, OneInstaller
    <2>3. SlotOwned' /\ JobsCoherent'
        BY DEF TypeOK, SlotOwned, JobsCoherent
    <2>4. EffectsCoherent'
        BY DEF TypeOK, Frames, EffectsCoherent
    <2> QED
        BY <2>1, <2>2, <2>3, <2>4
<1>2. CASE SettleJob(j)
    <2> USE <1>2 DEF ActionsInv, SettleJob, Verdict
    <2>1. /\ fr' \in [Callers -> Frames] /\ \A d \in Callers \ {j} : fr'[d] = fr[d]
          /\ ShownDone(fr'[j]) <=> ShownDone(fr[j])
        <3>1. PICK f : f = [fr[j] EXCEPT !.ctx = "live", !.failed = FALSE]
            OBVIOUS
        <3>2. f \in Frames /\ (ShownDone(f) <=> ShownDone(fr[j]))
            BY <3>1, FrameUpdates DEF TypeOK
        <3>3. fr' = [fr EXCEPT ![j] = f]
            BY <3>1
        <3> QED
            BY <3>2, <3>3 DEF TypeOK
    <2>2. TypeOK'
        BY <2>1 DEF TypeOK
    <2>3. HolderAtWork' /\ OneInstaller'
        BY DEF TypeOK, HolderAtWork, OneInstaller
    <2>4. SlotOwned' /\ JobsCoherent'
        BY DEF TypeOK, SlotOwned, JobsCoherent
    <2>5. EffectsCoherent'
        BY <2>1 DEF TypeOK, EffectsCoherent
    <2> QED
        BY <2>2, <2>3, <2>4, <2>5
<1>3. CASE AppendHistory(j)
    <2> USE <1>3 DEF ActionsInv, AppendHistory
    <2>1. fr' \in [Callers -> Frames] /\ \A d \in Callers \ {j} : fr'[d] = fr[d]
        BY FrameFacts DEF TypeOK
    <2>2. TypeOK'
        BY <2>1 DEF TypeOK
    <2>3. HolderAtWork' /\ OneInstaller'
        BY DEF TypeOK, HolderAtWork, OneInstaller
    <2>4. SlotOwned' /\ JobsCoherent'
        BY DEF TypeOK, SlotOwned, JobsCoherent
    <2>5. EffectsCoherent'
        BY <2>1 DEF TypeOK, EffectsCoherent
    <2> QED
        BY <2>2, <2>3, <2>4, <2>5
<1>4. CASE FreeSlot(j)
    <2> USE <1>4 DEF ActionsInv, FreeSlot
    <2>1. TypeOK'
        BY DEF TypeOK, Frames
    <2>2. HolderAtWork' /\ OneInstaller'
        BY DEF TypeOK, HolderAtWork, OneInstaller
    <2>3. SlotOwned' /\ JobsCoherent'
        BY DEF TypeOK, SlotOwned, JobsCoherent
    <2>4. EffectsCoherent'
        BY DEF TypeOK, Frames, EffectsCoherent
    <2> QED
        BY <2>1, <2>2, <2>3, <2>4
<1>5. CASE PruneJobs(j)
    <2> DEFINE kept == {k \in jobs : k \in Finished =>
                            Cardinality({newer \in Finished : newer > k}) < Retention}
    <2>0. /\ kept \subseteq jobs
          /\ active \in jobs => active \in kept
          /\ jobs' = kept
        BY <1>5 DEF Finished, PruneJobs
    <2> HIDE DEF kept
    <2> USE <1>5, <2>0 DEF ActionsInv, PruneJobs
    <2>1. TypeOK'
        BY DEF TypeOK, Frames
    <2>2. HolderAtWork' /\ OneInstaller'
        BY DEF TypeOK, HolderAtWork, OneInstaller
    <2>3. SlotOwned' /\ JobsCoherent'
        BY DEF TypeOK, SlotOwned, JobsCoherent
    <2>4. EffectsCoherent'
        BY DEF TypeOK, Frames, EffectsCoherent
    <2> QED
        BY <2>1, <2>2, <2>3, <2>4
<1> QED
    BY <1>1, <1>2, <1>3, <1>4, <1>5 DEF RunJob

(* Every step of Core keeps the invariant. *)
LEMMA NextPreservesInv == ActionsInv /\ [Next]_vars => ActionsInv'
<1> SUFFICES ASSUME ActionsInv, [Next]_vars PROVE ActionsInv'
    OBVIOUS
<1>1. ASSUME NEW c \in Callers, Operate(c) PROVE ActionsInv'
    BY <1>1, OperatePreservesInv
<1>2. ASSUME NEW j \in Jobs, RunJob(j) PROVE ActionsInv'
    BY <1>2, RunJobPreservesInv
<1> USE Names DEF Holding, Unsettled, Owning, Phases, Terminal, GoTo, table, files
<1>3. ASSUME NEW ask \in Requests, Accept(ask) PROVE ActionsInv'
    <2> USE <1>3 DEF ActionsInv, Accept
    <2>1. TypeOK'
        <3>1. nextJob \in Jobs /\ nextJob' \in 1..(MaxJobs + 1)
            BY BoundsAssumption DEF TypeOK, Jobs
        <3>2. [fr[nextJob] EXCEPT !.ask = ask] \in Frames
            BY <3>1, FrameUpdates DEF TypeOK
        <3>3. fr' \in [Callers -> Frames]
            BY <3>1, <3>2 DEF TypeOK
        <3> QED
            BY <3>1, <3>3 DEF TypeOK
    <2>2. HolderAtWork' /\ OneInstaller'
        <3>1. nextJob \in Jobs /\ nextJob >= nextJob
            BY BoundsAssumption DEF TypeOK, Jobs
        <3>2. pc[nextJob] = "none"
            BY <3>1 DEF JobsCoherent
        <3> QED
            BY <3>1, <3>2 DEF TypeOK, HolderAtWork, OneInstaller
    <2>3. SlotOwned' /\ JobsCoherent'
        BY BoundsAssumption DEF TypeOK, Jobs, SlotOwned, JobsCoherent
    <2>4. EffectsCoherent'
        <3>1. nextJob \in Jobs
            BY BoundsAssumption DEF TypeOK, Jobs
        <3>2. fr'[nextJob].ask = ask /\ \A d \in Callers \ {nextJob} : fr'[d] = fr[d]
            BY <3>1 DEF TypeOK, Frames
        <3> QED
            BY <3>1, <3>2 DEF TypeOK, EffectsCoherent
    <2> QED
        BY <2>1, <2>2, <2>3, <2>4
<1>4. ASSUME NEW c \in Callers, Deadline(c) PROVE ActionsInv'
    <2> USE <1>4 DEF ActionsInv, Deadline
    <2>1. /\ fr' \in [Callers -> Frames] /\ \A d \in Callers \ {c} : fr'[d] = fr[d]
          /\ fr'[c].ask = fr[c].ask /\ fr'[c].failed = fr[c].failed
          /\ ShownDone(fr'[c]) <=> ShownDone(fr[c])
        <3>1. PICK x \in {"canceled", "deadline"} : fr' = [fr EXCEPT ![c].ctx = x]
            OBVIOUS
        <3>2. PICK f : f = [fr[c] EXCEPT !.ctx = x]
            OBVIOUS
        <3>3. /\ f \in Frames /\ f.failed = fr[c].failed /\ f.ask = fr[c].ask
              /\ ShownDone(f) <=> ShownDone(fr[c])
            BY <3>2, FrameUpdates DEF TypeOK
        <3>4. fr' = [fr EXCEPT ![c] = f]
            BY <3>1, <3>2
        <3> QED
            BY <3>3, <3>4 DEF TypeOK
    <2>2. TypeOK'
        BY <2>1 DEF TypeOK
    <2>3. HolderAtWork' /\ OneInstaller'
        BY DEF TypeOK, HolderAtWork, OneInstaller
    <2>4. SlotOwned' /\ JobsCoherent'
        BY DEF TypeOK, SlotOwned, JobsCoherent
    <2>5. EffectsCoherent'
        BY <2>1 DEF TypeOK, EffectsCoherent
    <2> QED
        BY <2>2, <2>3, <2>4, <2>5
<1>5. ASSUME NEW c \in Callers, OrphanExits(c) PROVE ActionsInv'
    <2> USE <1>5 DEF ActionsInv, OrphanExits
    <2>1. TypeOK'
        BY DEF TypeOK, Frames
    <2>2. HolderAtWork' /\ OneInstaller'
        BY DEF TypeOK, HolderAtWork, OneInstaller
    <2>3. SlotOwned' /\ JobsCoherent'
        BY DEF TypeOK, SlotOwned, JobsCoherent
    <2>4. EffectsCoherent'
        BY DEF TypeOK, Frames, EffectsCoherent
    <2> QED
        BY <2>1, <2>2, <2>3, <2>4
<1>6. ASSUME NEW j \in Jobs, Cancel(j) PROVE ActionsInv'
    <2> USE <1>6 DEF ActionsInv, Cancel
    <2>1. /\ fr' \in [Callers -> Frames] /\ \A d \in Callers \ {j} : fr'[d] = fr[d]
          /\ fr'[j].ask = fr[j].ask /\ fr'[j].failed = fr[j].failed
          /\ ShownDone(fr'[j]) <=> ShownDone(fr[j])
        <3>1. PICK x \in {"canceled", "deadline"} : fr' = [fr EXCEPT ![j].ctx = x]
            OBVIOUS
        <3>2. PICK f : f = [fr[j] EXCEPT !.ctx = x]
            OBVIOUS
        <3>3. /\ f \in Frames /\ f.failed = fr[j].failed /\ f.ask = fr[j].ask
              /\ ShownDone(f) <=> ShownDone(fr[j])
            BY <3>2, FrameUpdates DEF TypeOK
        <3>4. fr' = [fr EXCEPT ![j] = f]
            BY <3>1, <3>2
        <3> QED
            BY <3>3, <3>4 DEF TypeOK
    <2>2. TypeOK'
        BY <2>1 DEF TypeOK
    <2>3. HolderAtWork' /\ OneInstaller'
        BY DEF TypeOK, HolderAtWork, OneInstaller
    <2>4. SlotOwned' /\ JobsCoherent'
        BY DEF TypeOK, SlotOwned, JobsCoherent
    <2>5. EffectsCoherent'
        BY <2>1 DEF TypeOK, EffectsCoherent
    <2> QED
        BY <2>2, <2>3, <2>4, <2>5
<1>7. ASSUME NEW s \in Syncs, NEW ask \in SyncRequests, SyncRequest(s, ask) PROVE ActionsInv'
    <2> USE <1>7, SyncRequestsAssumption DEF ActionsInv, SyncRequest
    <2>1. /\ fr' \in [Callers -> Frames] /\ \A d \in Callers \ {s} : fr'[d] = fr[d]
          /\ fr'[s].ask \in Requests
        BY DEF TypeOK, Frames
    <2>2. TypeOK'
        BY <2>1 DEF TypeOK
    <2>3. HolderAtWork' /\ OneInstaller'
        BY DEF TypeOK, HolderAtWork, OneInstaller
    <2>4. SlotOwned' /\ JobsCoherent'
        BY DEF TypeOK, SlotOwned, JobsCoherent
    <2>5. EffectsCoherent'
        BY <2>1 DEF TypeOK, EffectsCoherent
    <2> QED
        BY <2>2, <2>3, <2>4, <2>5
<1>8. ASSUME NEW s \in Syncs, SyncReply(s) PROVE ActionsInv'
    <2> USE <1>8 DEF ActionsInv, SyncReply, Blank
    <2>1. TypeOK'
        BY DEF TypeOK, Frames
    <2>2. HolderAtWork' /\ OneInstaller'
        BY DEF TypeOK, HolderAtWork, OneInstaller
    <2>3. SlotOwned' /\ JobsCoherent'
        BY DEF TypeOK, SlotOwned, JobsCoherent
    <2>4. EffectsCoherent'
        BY DEF TypeOK, Frames, EffectsCoherent
    <2> QED
        BY <2>1, <2>2, <2>3, <2>4
<1>9. CASE Restart
    <2> USE <1>9 DEF ActionsInv, Restart, Blank
    <2>1. TypeOK'
        BY BoundsAssumption DEF TypeOK, Frames
    <2>2. HolderAtWork' /\ OneInstaller'
        BY BoundsAssumption DEF TypeOK, HolderAtWork, OneInstaller
    <2>3. SlotOwned' /\ JobsCoherent'
        BY BoundsAssumption DEF TypeOK, SlotOwned, JobsCoherent
    <2>4. EffectsCoherent'
        BY BoundsAssumption DEF TypeOK, Frames, EffectsCoherent
    <2> QED
        BY <2>1, <2>2, <2>3, <2>4
<1>10. CASE UNCHANGED vars
    BY <1>10 DEF vars, ActionsInv, TypeOK, HolderAtWork, OneInstaller, SlotOwned,
        JobsCoherent, EffectsCoherent
<1> QED
    BY <1>1, <1>2, <1>3, <1>4, <1>5, <1>6, <1>7, <1>8, <1>9, <1>10 DEF Next

(* The slot, the mutex, the goroutines and the verdicts of the App Center  *)
(* agree in every reachable state, across restarts of Core.                *)
THEOREM ActionsInvariant == Spec => []ActionsInv
<1>1. Init => ActionsInv
    BY InitEstablishesInv
<1>2. ActionsInv /\ [Next]_vars => ActionsInv'
    BY NextPreservesInv
<1> QED
    BY <1>1, <1>2, PTL DEF Spec

(* Only the holder of marketplaceInstallMu has an opkg running, apart from *)
(* the orphans of a Core that was restarted.                               *)
THEOREM OneInstallerAlways == Spec => []OneInstaller
BY ActionsInvariant, PTL DEF ActionsInv

(* The slot is never leaked and never freed while its job is unfinished. *)
THEOREM SlotOwnedAlways == Spec => []SlotOwned
BY ActionsInvariant, PTL DEF ActionsInv

(* No job is reported as succeeded when the readback could have shown that *)
(* the operation did not take effect, whatever request it ran: what the    *)
(* code looks at after opkg holds on the router, and what it does not look *)
(* at - the rest of a catalogue item, an uncompared version, anything when *)
(* a removed item cannot be seen - is not promised.                        *)
THEOREM SucceededIsDoneAlways == Spec => []SucceededIsDone
<1>1. ActionsInv => SucceededIsDone
    BY RequestsAssumption
    DEF ActionsInv, TypeOK, EffectsCoherent, SucceededIsDone, ShownDone, LooksDone, Traces,
        Installed, Compared, Detected, Views
<1> QED
    BY <1>1, ActionsInvariant, PTL

---------------------------------------------------------------------------
(* The history.                                                            *)

(* No step but AppendHistory writes the history, and the slot goes from    *)
(* free to the next job and back.                                          *)
LEMMA NextHistory ==
    ASSUME ActionsInv, Next, ~\E j \in Jobs : AppendHistory(j)
    PROVE  /\ UNCHANGED files
           /\ \/ active = None /\ active' = nextJob /\ nextJob' = nextJob + 1
              \/ nextJob' = nextJob /\ active' = None
              \/ /\ nextJob' = nextJob /\ active' = active
                 /\ active # None => (pc'[active] = "recorded" <=> pc[active] = "recorded")
<1> USE Names DEF ActionsInv, TypeOK, GoTo, table, files
<1>1. ASSUME NEW c \in Callers, Operate(c) \/ Deadline(c) \/ OrphanExits(c)
      PROVE  UNCHANGED <<history, rotated, nextJob, active>>
    BY <1>1 DEF Operate, TakeMutex, Reject, StartOpkg, OpkgExits, OpkgFails, VerifyInstalled,
        Deadline, OrphanExits
<1>2. ASSUME NEW c \in Callers, Operate(c) \/ Deadline(c) \/ OrphanExits(c), active # None
      PROVE  pc'[active] = "recorded" <=> pc[active] = "recorded"
    BY <1>2 DEF Operate, TakeMutex, Reject, StartOpkg, OpkgExits, OpkgFails, VerifyInstalled,
        Deadline, OrphanExits
<1>3. ASSUME NEW j \in Jobs, RunJob(j) \/ Cancel(j)
      PROVE  /\ UNCHANGED <<history, rotated, nextJob>>
             /\ \/ active' = None
                \/ active' = active /\ (active # None =>
                        (pc'[active] = "recorded" <=> pc[active] = "recorded"))
    <2>1. CASE FreeSlot(j)
        BY <2>1 DEF FreeSlot, JobsCoherent, Owning
    <2>2. CASE StartJob(j) \/ SettleJob(j) \/ PruneJobs(j) \/ Cancel(j)
        BY <2>2 DEF StartJob, SettleJob, PruneJobs, Cancel
    <2> QED
        BY <1>3, <2>1, <2>2 DEF RunJob
<1>4. ASSUME NEW s \in Syncs,
             SyncReply(s) \/ \E ask \in SyncRequests : SyncRequest(s, ask)
      PROVE  /\ UNCHANGED <<history, rotated, nextJob, active>>
             /\ active # None => (pc'[active] = "recorded" <=> pc[active] = "recorded")
    BY <1>4 DEF SyncRequest, SyncReply
<1> QED
    BY <1>1, <1>2, <1>3, <1>4 DEF Next, Accept, Restart

(* The lines of a file, and those a record may leave. *)
LEMMA LineFacts ==
    /\ \A file \in Seq(Lines) : \A i \in 1..Len(file) :
            file[i].job # None => file[i].job \in Jobs /\ file[i].job \in Nat
    /\ \A j \in Jobs : \A line \in Records(j) : line \in Lines /\ line.job \in {None, j}
<1>1. \A line \in Lines : line.job # None => line.job \in Jobs /\ line.job \in Nat
    BY BoundsAssumption DEF Lines, Jobs
<1>2. ASSUME NEW file \in Seq(Lines), NEW i \in 1..Len(file) PROVE file[i] \in Lines
    OBVIOUS
<1>3. ASSUME NEW j \in Jobs, NEW line \in Records(j)
      PROVE  line \in Lines /\ line.job \in {None, j}
    <2>1. CASE line = [job |-> j, open |-> FALSE]
        BY <2>1 DEF Lines
    <2>2. CASE line = [job |-> j, open |-> TRUE]
        BY <2>2 DEF Lines
    <2>3. CASE line = [job |-> None, open |-> TRUE]
        BY <2>3 DEF Lines
    <2> QED
        BY <2>1, <2>2, <2>3, Zenon DEF Records
<1> QED
    BY <1>1, <1>2, <1>3

(* A record is appended, after the rotation of a full file: whatever fails *)
(* on the way, the readable lines are a part of those before, and the new  *)
(* one comes last.                                                         *)
LEMMA AppendKeepsOrder ==
    ASSUME ActionsInv, HistoryInv, NEW j \in Jobs, AppendHistory(j)
    PROVE  HistoryInv'
<1> USE Names DEF GoTo, table, files
<1>0. active = j /\ pc[active] # "recorded" /\ pc'[active] = "recorded"
      /\ UNCHANGED <<nextJob, active>> /\ j = nextJob - 1 /\ nextJob \in Nat
    BY BoundsAssumption
    DEF AppendHistory, ActionsInv, TypeOK, JobsCoherent, Owning, HistoryInv
<1>1. PICK kept \in {history, <<>>} :
        /\ \/ kept = history /\ rotated' = rotated
           \/ kept = history /\ rotated' = <<>>
           \/ kept = <<>> /\ rotated' = history
        /\ history' \in {kept} \cup {Extend(kept, line) : line \in Records(j)}
    BY DEF AppendHistory
<1> DEFINE Before(a, b) == a.job # None /\ b.job # None => a.job < b.job
<1>2. /\ kept \in Seq(Lines) /\ rotated' \in Seq(Lines)
      /\ \A i \in 1..Len(kept) : kept[i].job # None => kept[i].job < j
      /\ \A i \in 1..Len(rotated') : rotated'[i].job # None => rotated'[i].job < j
      /\ \A i, k \in 1..Len(kept) : i < k => Before(kept[i], kept[k])
      /\ \A i, k \in 1..Len(rotated') : i < k => Before(rotated'[i], rotated'[k])
      /\ \A i \in 1..Len(rotated'), k \in 1..Len(kept) : Before(rotated'[i], kept[k])
    <2>1. CASE kept = history /\ rotated' = rotated
        BY <1>0, <2>1 DEF HistoryInv
    <2>2. CASE kept = history /\ rotated' = <<>>
        BY <1>0, <2>2 DEF HistoryInv
    <2>3. CASE kept = <<>> /\ rotated' = history
        BY <1>0, <2>3 DEF HistoryInv
    <2> QED
        BY <1>1, <2>1, <2>2, <2>3
<1>3. /\ history' \in Seq(Lines) /\ Len(kept) <= Len(history')
      /\ \A i \in 1..Len(history') :
            \/ i <= Len(kept) /\ history'[i] = kept[i]
            \/ i = Len(history') /\ history'[i].job \in {None, j}
    <2>1. CASE history' = kept
        BY <1>2, <2>1
    <2>2. ASSUME NEW line \in Records(j), history' = Extend(kept, line)
          PROVE  <1>3
        <3>1. line \in Lines /\ line.job \in {None, j}
            BY LineFacts
        <3>2. CASE kept # <<>> /\ kept[Len(kept)].open
            <4>1. PICK last : last = [job |-> None, open |-> line.open]
                OBVIOUS
            <4>2. last \in Lines /\ last.job = None
                BY <3>1, <4>1 DEF Lines
            <4>3. history' = [kept EXCEPT ![Len(kept)] = last]
                BY <2>2, <3>2, <4>1 DEF Extend
            <4>4. history' \in Seq(Lines) /\ Len(history') = Len(kept) /\ Len(kept) \in Nat
                BY <1>2, <3>2, <4>2, <4>3
            <4>5. \A i \in 1..Len(kept) : history'[i] = IF i = Len(kept) THEN last ELSE kept[i]
                BY <1>2, <4>3
            <4> QED
                BY <4>2, <4>4, <4>5
        <3>3. CASE ~(kept # <<>> /\ kept[Len(kept)].open)
            <4>1. history' = Append(kept, line)
                BY <2>2, <3>3 DEF Extend
            <4>2. /\ history' \in Seq(Lines) /\ Len(history') = Len(kept) + 1 /\ Len(kept) \in Nat
                  /\ \A i \in 1..Len(kept) : history'[i] = kept[i]
                  /\ history'[Len(kept) + 1] = line
                BY <1>2, <3>1, <4>1
            <4> QED
                BY <3>1, <4>2
        <3> QED
            BY <3>2, <3>3
    <2> QED
        BY <1>1, <2>1, <2>2
<1>4. \A i \in 1..Len(history') : history'[i].job # None =>
        history'[i].job \in Int /\ history'[i].job <= j
    <2> SUFFICES ASSUME NEW i \in 1..Len(history'), history'[i].job # None
                 PROVE  history'[i].job \in Int /\ history'[i].job <= j
        OBVIOUS
    <2>1. history'[i].job \in Nat /\ j \in Nat
        BY <1>3, LineFacts, BoundsAssumption DEF Jobs
    <2>2. history'[i].job = j \/ (i \in 1..Len(kept) /\ history'[i] = kept[i])
        BY <1>2, <1>3
    <2> QED
        BY <1>2, <2>1, <2>2
<1>5. ASSUME NEW i \in 1..Len(history'), NEW k \in 1..Len(history'), i < k
      PROVE  Before(history'[i], history'[k])
    <2>1. i <= Len(kept) /\ i \in 1..Len(kept) /\ history'[i] = kept[i] /\ Len(kept) \in Nat
        BY <1>2, <1>3, <1>5
    <2>2. CASE history'[k].job \in {None, j}
        BY <1>2, <2>1, <2>2
    <2>3. CASE k <= Len(kept) /\ history'[k] = kept[k]
        BY <1>2, <1>5, <2>1, <2>3
    <2> QED
        BY <1>3, <2>2, <2>3
<1>6. ASSUME NEW i \in 1..Len(rotated'), NEW k \in 1..Len(history')
      PROVE  Before(rotated'[i], history'[k])
    <2>1. CASE history'[k].job \in {None, j}
        BY <1>2, <2>1
    <2>2. CASE k <= Len(kept) /\ history'[k] = kept[k]
        BY <1>2, <2>2
    <2> QED
        BY <1>3, <2>1, <2>2
<1>7. \A i \in 1..Len(history') : history'[i].job # None => history'[i].job < nextJob
    BY <1>0, <1>4
<1>8. \A i \in 1..Len(rotated') : rotated'[i].job # None => rotated'[i].job < nextJob
    <2>1. \A i \in 1..Len(rotated') : rotated'[i].job # None => rotated'[i].job \in Int
        BY <1>2, LineFacts
    <2> QED
        BY <1>0, <1>2, <2>1
<1> QED
    BY <1>0, <1>2, <1>3, <1>5, <1>6, <1>7, <1>8 DEF HistoryInv

(* Every step keeps the history in order. *)
LEMMA NextKeepsOrder == ActionsInv /\ HistoryInv /\ [Next]_vars => HistoryInv'
<1> SUFFICES ASSUME ActionsInv, HistoryInv, [Next]_vars PROVE HistoryInv'
    OBVIOUS
<1>1. CASE \E j \in Jobs : AppendHistory(j)
    BY <1>1, AppendKeepsOrder
<1>2. CASE Next /\ ~\E j \in Jobs : AppendHistory(j)
    <2>1. nextJob \in Nat /\ None \notin Jobs /\ \A j \in Jobs : j \in Nat
        BY Names, BoundsAssumption DEF ActionsInv, TypeOK, Jobs
    <2>2. history \in Seq(Lines) /\ rotated \in Seq(Lines)
        BY DEF HistoryInv
    <2>3. history' = history /\ rotated' = rotated
        BY <1>2, NextHistory DEF files
    <2>4. CASE active = None /\ active' = nextJob /\ nextJob' = nextJob + 1
        <3>1. \A i \in 1..Len(history) : history[i].job # None =>
                history[i].job \in Nat /\ history[i].job < nextJob
            BY <2>1, <2>2, LineFacts DEF HistoryInv
        <3>2. \A i \in 1..Len(rotated) : rotated[i].job # None =>
                rotated[i].job \in Nat /\ rotated[i].job < nextJob
            BY <2>1, <2>2, LineFacts DEF HistoryInv
        <3>3. \A n \in Nat : n < nextJob => n < nextJob' /\ n < active'
            BY <2>1, <2>4
        <3>4. active' # None => active' = nextJob' - 1
            BY <2>1, <2>4
        <3> QED
            BY <2>2, <2>3, <3>1, <3>2, <3>3, <3>4, Zenon DEF HistoryInv
    <2>5. CASE nextJob' = nextJob /\ active' = None
        BY <2>1, <2>2, <2>3, <2>5 DEF HistoryInv
    <2>6. CASE /\ nextJob' = nextJob /\ active' = active
               /\ active # None => (pc'[active] = "recorded" <=> pc[active] = "recorded")
        BY <2>1, <2>2, <2>3, <2>6 DEF HistoryInv
    <2> QED
        BY <1>2, <2>4, <2>5, <2>6, NextHistory
<1>3. CASE UNCHANGED vars
    BY <1>3 DEF vars, HistoryInv
<1> QED
    BY <1>1, <1>2, <1>3

(* The history lists jobs in the order in which they ran, without          *)
(* duplicates, across the rotation of the file and restarts of Core, and   *)
(* whichever of the remove, the rename, the open and the write failed.     *)
THEOREM HistoryInOrderAlways == Spec => []HistoryInOrder
<1>1. Init => HistoryInv
    BY BoundsAssumption DEF Init, HistoryInv
<1>2. ActionsInv /\ HistoryInv /\ [Next]_vars => HistoryInv'
    BY NextKeepsOrder
<1>3. HistoryInv => HistoryInOrder
    <2> SUFFICES ASSUME HistoryInv,
                        NEW i \in 1..Len(rotated \o history), NEW k \in 1..Len(rotated \o history),
                        i < k, (rotated \o history)[i].job # None,
                        (rotated \o history)[k].job # None
                 PROVE  (rotated \o history)[i].job < (rotated \o history)[k].job
        BY DEF HistoryInOrder
    <2>1. /\ rotated \in Seq(Lines) /\ history \in Seq(Lines)
          /\ Len(rotated \o history) = Len(rotated) + Len(history)
        BY DEF HistoryInv
    <2>2. \A m \in 1..Len(rotated \o history) :
            (rotated \o history)[m] = IF m <= Len(rotated) THEN rotated[m]
                                      ELSE history[m - Len(rotated)]
        BY <2>1
    <2> QED
        BY <2>1, <2>2 DEF HistoryInv
<1> QED
    BY <1>1, <1>2, <1>3, ActionsInvariant, PTL DEF Spec

---------------------------------------------------------------------------
(* The table.                                                              *)

(* A set of naturals has a smallest element. *)
LEMMA Smallest ==
    ASSUME NEW S \in SUBSET Nat, S # {}
    PROVE  \E m \in S : \A n \in S : m <= n
<1>1. PICK m \in S : \A n \in S : ~(<<n, m>> \in OpToRel(<, Nat))
    BY NatLessThanWellFounded, WFMin, Zenon
<1>2. \A n \in S : ~(n < m)
    BY <1>1 DEF OpToRel
<1> QED
    BY <1>2

(* At most R elements of a set have fewer than R larger ones: what         *)
(* pruneAppActionJobs keeps.                                               *)
LEMMA FewNewest ==
    ASSUME NEW S \in SUBSET Nat, IsFiniteSet(S), NEW R \in Nat, NEW T \in SUBSET S,
           \A k \in T : Cardinality({n \in S : n > k}) < R
    PROVE  Cardinality(T) <= R
<1>1. IsFiniteSet(T) /\ Cardinality(T) \in Nat
    BY FS_Subset, FS_CardinalityType
<1>2. CASE T = {}
    <2>1. Cardinality(T) = 0
        BY <1>2, FS_EmptySet
    <2> QED
        BY <2>1
<1>3. CASE T # {}
    <2>1. PICK m \in T : \A n \in T : m <= n
        BY <1>3, Smallest
    <2>2. PICK Larger : Larger = {n \in S : n > m}
        OBVIOUS
    <2>3. Cardinality(Larger) < R
        BY <2>2
    <2>4. IsFiniteSet(Larger) /\ Cardinality(Larger) \in Nat
        BY <2>2, FS_Subset, FS_CardinalityType
    <2>5. T \ {m} \in SUBSET Larger
        <3>1. \A n \in T : n # m => n > m
            BY <2>1
        <3> QED
            BY <2>2, <3>1
    <2>6. Cardinality(T \ {m}) <= Cardinality(Larger)
        BY <2>4, <2>5, FS_Subset
    <2>7. Cardinality(T \ {m}) = Cardinality(T) - 1
        BY <1>1, <2>1, FS_RemoveElement
    <2> QED
        BY <1>1, <2>3, <2>4, <2>6, <2>7
<1> QED
    BY <1>2, <1>3

(* Sets of jobs are finite. *)
LEMMA JobsFinite ==
    ASSUME NEW S, S \subseteq Jobs
    PROVE  IsFiniteSet(S) /\ Cardinality(S) \in Nat
<1>1. IsFiniteSet(Jobs)
    BY BoundsAssumption, FS_Interval DEF Jobs
<1> QED
    BY <1>1, FS_Subset, FS_CardinalityType

(* What has finished stays finished, so that a job that was pruned in time *)
(* stays so.                                                               *)
LEMMA PrunedStaysLate ==
    ASSUME TypeOK, PrunedLate, jobs \subseteq jobs',
           nextJob' = nextJob \/ (nextJob' = nextJob + 1 /\ nextJob \in jobs' /\ nextJob \in Jobs),
           \A k \in Jobs : k < nextJob /\ state[k] \in Terminal => state'[k] \in Terminal,
           restarts' = restarts
    PROVE  PrunedLate'
<1> SUFFICES ASSUME restarts = 0, NEW j \in 1..(nextJob' - 1), j \notin jobs'
             PROVE  Cardinality(NewerFinished(j)') >= Retention
    BY DEF PrunedLate
<1>1. nextJob \in Nat /\ j \in 1..(nextJob - 1) /\ j \notin jobs
    BY DEF TypeOK
<1>2. NewerFinished(j) \subseteq NewerFinished(j)' /\ NewerFinished(j)' \subseteq Jobs
    BY <1>1, BoundsAssumption DEF NewerFinished, TypeOK, Jobs
<1>3. /\ Cardinality(NewerFinished(j)) \in Nat /\ Cardinality(NewerFinished(j)') \in Nat
      /\ Cardinality(NewerFinished(j)) <= Cardinality(NewerFinished(j)')
    BY <1>2, JobsFinite, FS_Subset
<1>4. Cardinality(NewerFinished(j)) >= Retention
    BY <1>1 DEF PrunedLate
<1> QED
    BY <1>3, <1>4, BoundsAssumption

(* A step that finishes no job for good and prunes none keeps the bound. *)
LEMMA TableKept ==
    ASSUME TypeOK, TableInv, Finished' \subseteq Finished, Finished \subseteq Jobs,
           \A j \in Jobs : pc[j] = "freed" => pc'[j] = "freed",
           \A j \in Jobs : pc'[j] = "queued" => state'[j] \notin Terminal,
           PrunedLate'
    PROVE  TableInv'
<1> DEFINE Freed == {j \in Jobs : pc[j] = "freed"}
<1>1. PICK F, G : F = Freed /\ G = Freed'
    OBVIOUS
<1>2. F \in SUBSET G /\ G \subseteq Jobs
    BY <1>1
<1>3. Cardinality(F) \in Nat /\ Cardinality(G) \in Nat /\ Cardinality(F) <= Cardinality(G)
    BY <1>2, JobsFinite, FS_Subset
<1>4. /\ Cardinality(Finished) \in Nat /\ Cardinality(Finished') \in Nat
      /\ Cardinality(Finished') <= Cardinality(Finished)
    BY JobsFinite, FS_Subset
<1>5. Cardinality(Finished) <= Retention + Cardinality(F)
    BY <1>1 DEF TableInv
<1>6. Cardinality(Finished') <= Retention + Cardinality(G)
    BY <1>3, <1>4, <1>5, BoundsAssumption
<1> QED
    BY <1>1, <1>6 DEF TableInv

(* The slot is freed: its job counts as finished and still has to prune.   *)
LEMMA FreeSlotKeepsTable ==
    ASSUME ActionsInv, TableInv, NEW j \in Jobs, FreeSlot(j)
    PROVE  TableInv'
<1> USE Names DEF GoTo
<1>1. /\ pc[j] = "recorded" /\ active = j /\ active' = None
      /\ pc' = [pc EXCEPT ![j] = "freed"]
      /\ UNCHANGED <<nextJob, jobs, state, restarts>>
    BY DEF FreeSlot, ActionsInv, JobsCoherent, Owning
<1>2. PICK F, G : F = {k \in Jobs : pc[k] = "freed"} /\ G = {k \in Jobs : pc'[k] = "freed"}
    OBVIOUS
<1>3. PICK P, Q : P = Finished /\ Q = Finished'
    OBVIOUS
<1>4. G = F \cup {j} /\ j \notin F /\ F \subseteq Jobs
    BY <1>1, <1>2 DEF ActionsInv, TypeOK
<1>5. P \subseteq Jobs /\ Q \in SUBSET (P \cup {j}) /\ j \notin P
    BY <1>1, <1>3 DEF Finished, ActionsInv, TypeOK
<1>6. Cardinality(G) = Cardinality(F) + 1 /\ Cardinality(F) \in Nat
    BY <1>4, JobsFinite, FS_AddElement
<1>7. /\ IsFiniteSet(P \cup {j}) /\ Cardinality(P) \in Nat
      /\ Cardinality(P \cup {j}) = Cardinality(P) + 1
    BY <1>5, JobsFinite, FS_AddElement
<1>8. Cardinality(Q) <= Cardinality(P) + 1
    BY <1>5, <1>7, FS_Subset
<1>9. Cardinality(Q) \in Nat
    BY <1>5, JobsFinite
<1>10. Cardinality(P) <= Retention + Cardinality(F)
    BY <1>2, <1>3 DEF TableInv
<1>11. Cardinality(Q) <= Retention + Cardinality(G)
    BY <1>6, <1>7, <1>8, <1>9, <1>10, BoundsAssumption
<1>12. PrunedLate'
    BY <1>1, PrunedStaysLate DEF ActionsInv, TableInv
<1>13. \A k \in Jobs : pc'[k] = "queued" => state'[k] \notin Terminal
    BY <1>1 DEF ActionsInv, TypeOK, TableInv
<1> QED
    BY <1>2, <1>3, <1>11, <1>12, <1>13 DEF TableInv

(* pruneAppActionJobs leaves at most Retention finished jobs, and every    *)
(* job it takes has Retention newer ones that have finished.               *)
LEMMA PruneKeepsTable ==
    ASSUME ActionsInv, TableInv, NEW j \in Jobs, PruneJobs(j)
    PROVE  TableInv'
<1> USE Names DEF GoTo
<1>1. PICK P : P = Finished
    OBVIOUS
<1>2. /\ jobs' = {k \in jobs : k \in P => Cardinality({n \in P : n > k}) < Retention}
      /\ pc' = [pc EXCEPT ![j] = "end"]
      /\ UNCHANGED <<nextJob, active, state, restarts>>
    BY <1>1 DEF PruneJobs
<1>3. P = {k \in jobs : k # active /\ state[k] \in Terminal} /\ P \subseteq Jobs
    BY <1>1 DEF Finished, ActionsInv, TypeOK
<1>4. Jobs \subseteq Nat /\ IsFiniteSet(P)
    BY <1>3, JobsFinite DEF Jobs
<1>5. PICK Q : Q = Finished'
    OBVIOUS
<1>6. /\ Q \in SUBSET P
      /\ \A k \in Q : Cardinality({n \in P : n > k}) < Retention
    BY <1>2, <1>3, <1>5 DEF Finished
<1>7. Cardinality(Q) <= Retention /\ Cardinality(Q) \in Nat
    <2>1. P \in SUBSET Nat /\ Retention \in Nat
        BY <1>3, <1>4, BoundsAssumption
    <2>2. Cardinality(Q) <= Retention
        BY ONLY <1>4, <1>6, <2>1, FewNewest
    <2>3. Q \subseteq Jobs
        BY <1>3, <1>6
    <2> QED
        BY <2>2, <2>3, JobsFinite
<1>8. PICK G : G = {k \in Jobs : pc'[k] = "freed"}
    OBVIOUS
<1>9. Cardinality(G) \in Nat
    BY <1>8, JobsFinite
<1>10. Cardinality(Q) <= Retention + Cardinality(G)
    BY <1>7, <1>9, BoundsAssumption
<1>11. \A k \in Jobs : pc'[k] = "queued" => state'[k] \notin Terminal
    BY <1>2 DEF ActionsInv, TypeOK, TableInv
<1>12. PrunedLate'
    <2> SUFFICES ASSUME restarts = 0, NEW k \in 1..(nextJob - 1), k \notin jobs'
                 PROVE  Cardinality(NewerFinished(k)) >= Retention
        BY <1>2 DEF PrunedLate, NewerFinished
    <2>1. CASE k \notin jobs
        BY <2>1 DEF TableInv, PrunedLate
    <2>2. CASE k \in jobs
        <3>1. PICK L : L = {n \in P : n > k}
            OBVIOUS
        <3>2. ~(Cardinality(L) < Retention)
            BY <1>2, <2>2, <3>1
        <3>3. L \in SUBSET NewerFinished(k) /\ NewerFinished(k) \subseteq Jobs
            <4>1. \A n \in jobs : n < nextJob /\ n \in Nat
                BY BoundsAssumption DEF ActionsInv, TypeOK, JobsCoherent, Jobs
            <4>2. nextJob \in 1..(MaxJobs + 1)
                BY DEF ActionsInv, TypeOK
            <4>3. L \in SUBSET NewerFinished(k)
                BY <1>3, <3>1, <4>1, <4>2, BoundsAssumption DEF NewerFinished
            <4>4. NewerFinished(k) \subseteq Jobs
                BY <4>2, BoundsAssumption DEF NewerFinished, Jobs
            <4> QED
                BY <4>3, <4>4
        <3>4. /\ Cardinality(L) \in Nat /\ Cardinality(NewerFinished(k)) \in Nat
              /\ Cardinality(L) <= Cardinality(NewerFinished(k))
            BY <3>3, JobsFinite, FS_Subset
        <3> QED
            BY <3>2, <3>4, BoundsAssumption
    <2> QED
        BY <2>1, <2>2
<1> QED
    BY <1>5, <1>8, <1>10, <1>11, <1>12 DEF TableInv

(* A step that settles no job and leaves the slot and the table alone. *)
LEMMA QuietKeepsTable ==
    ASSUME ActionsInv, TableInv, UNCHANGED <<table, state, restarts>>,
           \A j \in Jobs : pc[j] = "freed" => pc'[j] = "freed",
           \A j \in Jobs : pc'[j] = "queued" => pc[j] = "queued"
    PROVE  TableInv'
<1> USE DEF table
<1>1. Finished' = Finished /\ Finished \subseteq Jobs
    BY DEF Finished, ActionsInv, TypeOK
<1>2. PrunedLate'
    BY PrunedStaysLate DEF ActionsInv, TableInv
<1>3. \A j \in Jobs : pc'[j] = "queued" => state'[j] \notin Terminal
    BY DEF TableInv
<1> QED
    BY <1>1, <1>2, <1>3, TableKept DEF ActionsInv

(* A new job takes the slot, so that it does not count as finished.        *)
LEMMA AcceptKeepsTable ==
    ASSUME ActionsInv, TableInv, NEW ask \in Requests, Accept(ask)
    PROVE  TableInv'
<1> USE Names DEF GoTo, ActionsInv, TypeOK
<1>1. nextJob \in Jobs /\ nextJob \in Nat /\ pc[nextJob] = "none"
    BY BoundsAssumption DEF Accept, JobsCoherent, Jobs
<1>2. /\ active = None /\ active' = nextJob /\ nextJob' = nextJob + 1
      /\ jobs' = jobs \cup {nextJob}
      /\ state' = [state EXCEPT ![nextJob] = "queued"]
      /\ pc' = [pc EXCEPT ![nextJob] = "queued"]
      /\ restarts' = restarts
    BY DEF Accept
<1>3. Finished' \subseteq Finished /\ Finished \subseteq Jobs
    BY <1>1, <1>2 DEF Finished
<1>4. \A k \in Jobs : k < nextJob /\ state[k] \in Terminal => state'[k] \in Terminal
    BY <1>1, <1>2
<1>5. PrunedLate'
    BY <1>1, <1>2, <1>4, PrunedStaysLate DEF TableInv
<1>6. \A j \in Jobs : pc[j] = "freed" => pc'[j] = "freed"
    BY <1>1, <1>2
<1>7. \A j \in Jobs : pc'[j] = "queued" => state'[j] \notin Terminal
    BY <1>1, <1>2 DEF TableInv, Terminal
<1> QED
    BY <1>3, <1>5, <1>6, <1>7, TableKept

(* A job that starts or settles owns the slot: it is not among the         *)
(* finished ones.                                                          *)
LEMMA OwnerKeepsTable ==
    ASSUME ActionsInv, TableInv, NEW j \in Jobs, StartJob(j) \/ SettleJob(j)
    PROVE  TableInv'
<1> USE Names DEF GoTo, ActionsInv, TypeOK, table
<1>1. Verdict(j) \in Terminal
    BY DEF Verdict, Terminal
<1>2. /\ active = j /\ pc[j] # "freed"
      /\ UNCHANGED <<nextJob, jobs, active, restarts>>
      /\ \A k \in Jobs : k # j => state'[k] = state[k] /\ pc'[k] = pc[k]
      /\ pc'[j] # "queued"
    BY DEF StartJob, SettleJob, JobsCoherent, Owning, Unsettled
<1>3. state[j] \in Terminal => state'[j] \in Terminal
    BY <1>1 DEF StartJob, SettleJob, TableInv
<1>4. Finished' \subseteq Finished /\ Finished \subseteq Jobs
    BY <1>2 DEF Finished
<1>5. PrunedLate'
    BY <1>2, <1>3, PrunedStaysLate DEF TableInv
<1>6. \A k \in Jobs : pc[k] = "freed" => pc'[k] = "freed"
    BY <1>2
<1>7. \A k \in Jobs : pc'[k] = "queued" => state'[k] \notin Terminal
    BY <1>2 DEF TableInv
<1> QED
    BY <1>4, <1>5, <1>6, <1>7, TableKept

(* A restart empties the table. *)
LEMMA RestartKeepsTable ==
    ASSUME ActionsInv, Restart
    PROVE  TableInv'
<1>1. restarts' # 0
    BY BoundsAssumption DEF Restart, ActionsInv, TypeOK
<1>2. PICK G : G = {k \in Jobs : pc'[k] = "freed"}
    OBVIOUS
<1>3. Cardinality(G) \in Nat
    BY <1>2, JobsFinite
<1>4. Finished' = {}
    BY DEF Restart, Finished
<1>5. Cardinality(Finished') = 0
    BY <1>4, FS_EmptySet
<1>6. Cardinality(Finished') <= Retention + Cardinality(G)
    BY <1>3, <1>5, BoundsAssumption
<1>7. \A k \in Jobs : pc'[k] # "queued"
    BY Names DEF Restart
<1> QED
    BY <1>1, <1>2, <1>6, <1>7 DEF TableInv, PrunedLate

(* Every step keeps the table bounded. *)
LEMMA NextKeepsTable == ActionsInv /\ TableInv /\ [Next]_vars => TableInv'
<1> SUFFICES ASSUME ActionsInv, TableInv, [Next]_vars PROVE TableInv'
    OBVIOUS
<1> USE Names DEF GoTo, table, files
<1>1. ASSUME NEW c \in Callers, Operate(c) \/ Deadline(c) \/ OrphanExits(c)
      PROVE  TableInv'
    <2>1. UNCHANGED <<table, state, restarts>>
        BY <1>1 DEF Operate, TakeMutex, Reject, StartOpkg, OpkgExits, OpkgFails,
            VerifyInstalled, Deadline, OrphanExits
    <2>2. \A j \in Jobs : (pc[j] = "freed" => pc'[j] = "freed")
                       /\ (pc'[j] = "queued" => pc[j] = "queued")
        BY <1>1 DEF Operate, TakeMutex, Reject, StartOpkg, OpkgExits, OpkgFails,
            VerifyInstalled, Deadline, OrphanExits, ActionsInv, TypeOK
    <2> QED
        BY <2>1, <2>2, QuietKeepsTable
<1>2. ASSUME NEW j \in Jobs, AppendHistory(j) \/ Cancel(j)
      PROVE  TableInv'
    BY <1>2, QuietKeepsTable DEF AppendHistory, Cancel, ActionsInv, TypeOK
<1>3. ASSUME NEW s \in Syncs,
             SyncReply(s) \/ \E ask \in SyncRequests : SyncRequest(s, ask)
      PROVE  TableInv'
    BY <1>3, QuietKeepsTable DEF SyncRequest, SyncReply, ActionsInv, TypeOK
<1>4. CASE UNCHANGED vars
    BY <1>4, QuietKeepsTable DEF vars
<1> QED
    BY <1>1, <1>2, <1>3, <1>4, AcceptKeepsTable, OwnerKeepsTable, FreeSlotKeepsTable,
        PruneKeepsTable, RestartKeepsTable
    DEF Next, RunJob

(* The table of jobs stays bounded - every job above Retention is owed to  *)
(* a prune still to come - and a job leaves it only when Retention newer   *)
(* ones have finished, however jobs and their prunes overlap.              *)
THEOREM TableBoundedAlways == Spec => []TableBounded
<1>1. Init => TableInv
    <2> SUFFICES ASSUME Init PROVE TableInv
        OBVIOUS
    <2>1. PICK G : G = {k \in Jobs : pc[k] = "freed"}
        OBVIOUS
    <2>2. Cardinality(G) \in Nat
        BY <2>1, JobsFinite
    <2>3. Finished = {}
        BY DEF Init, Finished
    <2>4. Cardinality(Finished) = 0
        BY <2>3, FS_EmptySet
    <2>5. Cardinality(Finished) <= Retention + Cardinality(G)
        BY <2>2, <2>4, BoundsAssumption
    <2>6. \A k \in Jobs : pc[k] # "queued"
        BY Names DEF Init
    <2>7. PrunedLate
        BY DEF Init, PrunedLate
    <2> QED
        BY <2>1, <2>5, <2>6, <2>7 DEF TableInv
<1>2. ActionsInv /\ TableInv /\ [Next]_vars => TableInv'
    BY NextKeepsTable
<1>3. ActionsInv /\ TableInv => TableBounded
    <2> SUFFICES ASSUME ActionsInv, TableInv PROVE TableBounded
        OBVIOUS
    <2>1. PICK F, G : /\ F = {j \in Jobs : pc[j] = "freed"}
                      /\ G = {j \in Jobs : pc[j] \in {"settled", "recorded", "freed"}}
        OBVIOUS
    <2>2. F \in SUBSET G /\ F \subseteq Jobs /\ G \subseteq Jobs
        BY <2>1
    <2>3. Cardinality(F) \in Nat /\ Cardinality(G) \in Nat /\ Cardinality(F) <= Cardinality(G)
        BY <2>2, JobsFinite, FS_Subset
    <2>4. Finished \subseteq Jobs
        BY DEF Finished, ActionsInv, TypeOK
    <2>5. Cardinality(Finished) \in Nat
        BY <2>4, JobsFinite
    <2>6. Cardinality(Finished) <= Retention + Cardinality(F)
        BY <2>1 DEF TableInv
    <2>7. Cardinality(Finished) <= Retention + Cardinality(G)
        BY <2>3, <2>5, <2>6, BoundsAssumption
    <2> QED
        BY <2>1, <2>7 DEF TableBounded, TableInv
<1> QED
    BY <1>1, <1>2, <1>3, ActionsInvariant, PTL DEF Spec

---------------------------------------------------------------------------
(* The abstract queue.                                                     *)

(* What a client is shown follows the goroutine of the job. *)
LEMMA NextKeepsShown == ActionsInv /\ ShownCoherent /\ [Next]_vars => ShownCoherent'
<1> SUFFICES ASSUME ActionsInv, ShownCoherent, [Next]_vars PROVE ShownCoherent'
    OBVIOUS
<1> USE Names DEF GoTo, table, files, ActionsInv, TypeOK, ShownCoherent, Unsettled, Holding
<1>1. ASSUME NEW c \in Callers, Operate(c) PROVE ShownCoherent'
    BY <1>1 DEF Operate, TakeMutex, Reject, StartOpkg, OpkgExits, OpkgFails, VerifyInstalled
<1>2. ASSUME NEW j \in Jobs, RunJob(j) PROVE ShownCoherent'
    BY <1>2 DEF RunJob, StartJob, SettleJob, AppendHistory, FreeSlot, PruneJobs
<1>3. ASSUME NEW ask \in Requests, Accept(ask) PROVE ShownCoherent'
    <2>1. nextJob \in Jobs
        BY <1>3, BoundsAssumption DEF Accept, Jobs
    <2> QED
        BY <1>3, <2>1 DEF Accept
<1>4. ASSUME NEW c \in Callers, Deadline(c) \/ OrphanExits(c) PROVE ShownCoherent'
    BY <1>4 DEF Deadline, OrphanExits
<1>5. ASSUME NEW j \in Jobs, Cancel(j) PROVE ShownCoherent'
    BY <1>5 DEF Cancel
<1>6. ASSUME NEW s \in Syncs,
             SyncReply(s) \/ \E ask \in SyncRequests : SyncRequest(s, ask) PROVE ShownCoherent'
    BY <1>6 DEF SyncRequest, SyncReply
<1>7. CASE Restart
    BY <1>7 DEF Restart
<1>8. CASE UNCHANGED vars
    BY <1>8 DEF vars
<1> QED
    BY <1>1, <1>2, <1>3, <1>4, <1>5, <1>6, <1>7, <1>8 DEF Next

(* A step that changes neither the table nor what any job has passed. *)
LEMMA PassedKept ==
    ASSUME \A j \in Jobs : /\ pc'[j] = "returned" <=> pc[j] = "returned"
                           /\ pc[j] = "returned" => fr'[j].failed = fr[j].failed
    PROVE  Passed' = Passed
BY DEF Passed

(* Core starts with the empty queue. *)
LEMMA QueueInit == Init => Queue!QInit
<1> SUFFICES ASSUME Init PROVE Queue!QInit
    OBVIOUS
<1>1. Passed = {}
    BY Names DEF Init, Passed
<1>2. Shown = [j \in Jobs |-> "none"]
    BY DEF Init, Shown
<1>3. Queue!Numbers = Jobs
    BY DEF Queue!Numbers, Jobs
<1>4. nextJob - 1 = 0
    BY DEF Init
<1> QED
    BY <1>1, <1>2, <1>3, <1>4 DEF Init, Queue!QInit

(* The steps the queue does not see. *)
LEMMA QueueStutters ==
    ASSUME ActionsInv, UNCHANGED <<nextJob, jobs, active, state, mu>>, Passed' = Passed
    PROVE  UNCHANGED Queue!qvars
<1>1. Shown' = Shown
    BY DEF Shown
<1> QED
    BY <1>1 DEF Queue!qvars

(* opkg, the contexts, the history and the synchronous requests outside    *)
(* the mutex do not show.                                                  *)
LEMMA QuietStutters ==
    ASSUME ActionsInv,
           \/ \E c \in Callers : StartOpkg(c) \/ OpkgExits(c) \/ Deadline(c) \/ OrphanExits(c)
           \/ \E j \in Jobs : AppendHistory(j) \/ Cancel(j)
           \/ \E s \in Syncs : SyncReply(s) \/ \E ask \in SyncRequests : SyncRequest(s, ask)
           \/ UNCHANGED vars
    PROVE  UNCHANGED Queue!qvars
<1> USE Names DEF GoTo, table, files, ActionsInv, TypeOK, Frames
<1>1. UNCHANGED <<nextJob, jobs, active, state, mu>>
    BY DEF StartOpkg, OpkgExits, Deadline, OrphanExits, AppendHistory, Cancel, SyncRequest,
        SyncReply, vars
<1>2. Passed' = Passed
    <2>1. ASSUME NEW c \in Callers, StartOpkg(c) \/ OpkgExits(c) PROVE Passed' = Passed
        BY <2>1, PassedKept DEF StartOpkg, OpkgExits
    <2>2. ASSUME NEW c \in Callers, Deadline(c) \/ OrphanExits(c) PROVE Passed' = Passed
        <3>1. CASE Deadline(c)
            <4>1. \A j \in Jobs : j # c => fr'[j] = fr[j]
                BY <3>1 DEF Deadline
            <4>2. fr'[c].failed = fr[c].failed
                BY <3>1 DEF Deadline
            <4>3. pc' = pc
                BY <3>1 DEF Deadline
            <4> QED
                BY <4>1, <4>2, <4>3, PassedKept
        <3>2. CASE OrphanExits(c)
            BY <3>2, PassedKept DEF OrphanExits
        <3> QED
            BY <2>2, <3>1, <3>2
    <2>3. ASSUME NEW j \in Jobs, AppendHistory(j) \/ Cancel(j) PROVE Passed' = Passed
        BY <2>3, PassedKept DEF AppendHistory, Cancel
    <2>4. ASSUME NEW s \in Syncs,
             SyncReply(s) \/ \E ask \in SyncRequests : SyncRequest(s, ask) PROVE Passed' = Passed
        BY <2>4, PassedKept DEF SyncRequest, SyncReply
    <2>5. CASE UNCHANGED vars
        BY <2>5, PassedKept DEF vars
    <2> QED
        BY <2>1, <2>2, <2>3, <2>4, <2>5
<1> QED
    BY <1>1, <1>2, QueueStutters

(* handleAppActions accepts the next job into the free slot. *)
LEMMA AcceptIsAccept ==
    ASSUME ActionsInv, NEW ask \in Requests, Accept(ask)
    PROVE  Queue!QAccept(nextJob) /\ nextJob \in Jobs
<1> USE Names DEF GoTo, table, files, ActionsInv, TypeOK
<1>1. nextJob \in Jobs /\ nextJob \in Nat
    BY BoundsAssumption DEF Accept, Jobs
<1>2. pc[nextJob] = "none" /\ nextJob \notin jobs
    BY <1>1 DEF JobsCoherent
<1>3. Passed' = Passed
    BY <1>1, <1>2, PassedKept DEF Accept, Frames
<1>4. Shown[nextJob] = "none"
    BY <1>1, <1>2 DEF Shown
<1>5. Shown' = [Shown EXCEPT ![nextJob] = "queued"]
    BY <1>1, <1>2 DEF Accept, Shown
<1>6. nextJob = (nextJob - 1) + 1 /\ nextJob' - 1 = nextJob
    BY <1>1 DEF Accept
<1> QED
    BY <1>1, <1>3, <1>4, <1>5, <1>6 DEF Accept, Queue!QAccept

(* The goroutine of the slot's job begins it. *)
LEMMA StartIsBegin ==
    ASSUME ActionsInv, ShownCoherent, NEW j \in Jobs, StartJob(j)
    PROVE  Queue!Begin(j)
<1> USE Names DEF GoTo, table, files, ActionsInv, TypeOK
<1>1. active = j /\ j \in jobs /\ state[j] = "queued"
    BY DEF StartJob, JobsCoherent, SlotOwned, ShownCoherent, Owning, Unsettled
<1>2. Passed' = Passed
    BY PassedKept DEF StartJob
<1>3. Shown[j] = "queued"
    BY <1>1 DEF Shown
<1>4. Shown' = [Shown EXCEPT ![j] = "running"]
    BY <1>1 DEF StartJob, Shown
<1> QED
    BY <1>1, <1>2, <1>3, <1>4 DEF StartJob, Queue!Begin

(* marketplaceInstallMu is the use of the installer: a job that takes it is *)
(* the slot's.                                                             *)
LEMMA TakeIsUse ==
    ASSUME ActionsInv, ShownCoherent, NEW c \in Callers, TakeMutex(c)
    PROVE  Queue!Use(c)
<1> USE Names DEF GoTo, table, files, ActionsInv, TypeOK
<1>1. c \in Jobs => active = c /\ c \in jobs /\ state[c] = "running"
    BY DEF TakeMutex, JobsCoherent, SlotOwned, ShownCoherent, Owning, Unsettled
<1>2. Passed' = Passed
    BY PassedKept DEF TakeMutex
<1>3. c \in Queue!Numbers => active = c /\ Shown[c] = "running"
    BY <1>1 DEF Shown, Queue!Numbers, Jobs
<1>4. Shown' = Shown
    BY DEF TakeMutex, Shown
<1> QED
    BY <1>2, <1>3, <1>4 DEF TakeMutex, Queue!Use

(* Every way out of the mutex leaves the installer, passed or not. *)
LEMMA ReturnIsLeave ==
    ASSUME ActionsInv, NEW c \in Callers, Reject(c) \/ OpkgFails(c) \/ VerifyInstalled(c)
    PROVE  Queue!Leave(c)
<1> USE Names DEF GoTo, table, files, ActionsInv, TypeOK
<1>1. mu = c /\ mu' = None /\ pc[c] # "returned"
    BY DEF Reject, OpkgFails, VerifyInstalled, HolderAtWork, Holding
<1>2. \A j \in Jobs \ {c} : pc'[j] = pc[j] /\ fr'[j] = fr[j]
    BY DEF Reject, OpkgFails, VerifyInstalled
<1>3. Passed' = Passed \/ (c \in Jobs /\ Passed' = Passed \cup {c})
    <2>1. c \notin Passed
        BY <1>1 DEF Passed
    <2>2. \A j \in Jobs \ {c} : j \in Passed' <=> j \in Passed
        BY <1>2 DEF Passed
    <2>3. Passed \subseteq Jobs /\ Passed' \subseteq Jobs
        BY DEF Passed
    <2> QED
        BY <2>1, <2>2, <2>3
<1>4. Shown' = Shown
    BY DEF Reject, OpkgFails, VerifyInstalled, Shown
<1>5. UNCHANGED <<nextJob, active>>
    BY DEF Reject, OpkgFails, VerifyInstalled
<1>6. Queue!Numbers = Jobs
    BY DEF Queue!Numbers, Jobs
<1> QED
    BY <1>1, <1>3, <1>4, <1>5, <1>6 DEF Queue!Leave

(* A job succeeds only by what it passed. *)
LEMMA SettleIsJudge ==
    ASSUME ActionsInv, ShownCoherent, NEW j \in Jobs, SettleJob(j)
    PROVE  Queue!Judge(j, Verdict(j)) /\ Verdict(j) \in Terminal
<1> USE Names DEF GoTo, table, files, ActionsInv, TypeOK
<1>1. active = j /\ j \in jobs /\ state[j] = "running"
    BY DEF SettleJob, JobsCoherent, SlotOwned, ShownCoherent, Owning, Unsettled
<1>2. mu # j
    BY DEF SettleJob, HolderAtWork, Holding
<1>3. Verdict(j) \in Terminal
    BY DEF Verdict, Terminal
<1>4. Verdict(j) = "succeeded" => j \in Passed
    BY DEF Verdict, Passed, SettleJob
<1>5. Passed' = Passed \ {j}
    <2>1. pc'[j] = "settled" /\ \A k \in Jobs \ {j} : pc'[k] = pc[k] /\ fr'[k] = fr[k]
        BY DEF SettleJob
    <2> QED
        BY <2>1 DEF Passed
<1>6. Shown[j] = "running"
    BY <1>1 DEF Shown
<1>7. Shown' = [Shown EXCEPT ![j] = Verdict(j)]
    <2>1. PICK v : v = Verdict(j)
        OBVIOUS
    <2>2. state' = [state EXCEPT ![j] = v] /\ jobs' = jobs
        BY <2>1 DEF SettleJob
    <2>3. Shown' = [Shown EXCEPT ![j] = v]
        BY <1>1, <2>2 DEF Shown
    <2> QED
        BY <2>1, <2>3
<1>8. UNCHANGED <<nextJob, active, mu>>
    BY DEF SettleJob
<1> QED
    BY <1>1, <1>2, <1>3, <1>4, <1>5, <1>6, <1>7, <1>8 DEF Queue!Judge

(* The slot is freed by its own job, after it has been judged. *)
LEMMA FreeIsFree ==
    ASSUME ActionsInv, NEW j \in Jobs, FreeSlot(j)
    PROVE  Queue!Free(j)
<1> USE Names DEF GoTo, table, files, ActionsInv, TypeOK
<1>1. active = j /\ j \in jobs /\ state[j] \in Terminal
    BY DEF FreeSlot, JobsCoherent, SlotOwned, Owning, Unsettled, Holding
<1>2. Passed' = Passed
    BY PassedKept DEF FreeSlot
<1>3. Shown' = Shown /\ Shown[j] \in Queue!Final
    BY <1>1 DEF FreeSlot, Shown, Queue!Final, Terminal
<1> QED
    BY <1>1, <1>2, <1>3 DEF FreeSlot, Queue!Free

(* pruneAppActionJobs forgets the oldest finished jobs: the fewer newer     *)
(* ones a job has, the longer it stays.                                    *)
LEMMA PruneIsForget ==
    ASSUME ActionsInv, NEW j \in Jobs, PruneJobs(j)
    PROVE  Queue!Forget(jobs \ jobs') /\ jobs \ jobs' \in SUBSET Jobs
<1> USE Names DEF GoTo, table, files, ActionsInv, TypeOK
<1>1. PICK F \in SUBSET Jobs : F = Finished
    BY DEF Finished
<1>2. PICK gone \in SUBSET Jobs : gone = jobs \ jobs'
    OBVIOUS
<1>3. /\ jobs' = {k \in jobs : k \in F => Cardinality({newer \in F : newer > k}) < Retention}
      /\ UNCHANGED <<nextJob, active, state, mu>>
    BY <1>1, Zenon DEF PruneJobs
<1>4. \A k \in gone : k \in F /\ ~(Cardinality({newer \in F : newer > k}) < Retention)
    BY <1>2, <1>3
<1>5. ASSUME NEW k \in gone, NEW m \in Jobs \ gone, m \in F PROVE m > k
    <2>1. m \in Int /\ k \in Int /\ m # k
        BY <1>5
    <2>2. SUFFICES ASSUME m < k PROVE FALSE
        BY <2>1
    <2>3. Cardinality({newer \in F : newer > m}) < Retention
        BY <1>1, <1>2, <1>3, <1>5 DEF Finished
    <2>4. PICK A, B : A = {newer \in F : newer > k} /\ B = {newer \in F : newer > m}
        OBVIOUS
    <2>5. A \subseteq B
        <3>1. \A x \in F : x \in Int
            OBVIOUS
        <3>2. \A x \in Int : x > k => x > m
            BY <2>1, <2>2
        <3> QED
            BY <2>4, <3>1, <3>2, Zenon
    <2>6. IsFiniteSet(Jobs)
        BY BoundsAssumption, FS_Interval DEF Jobs
    <2>7. IsFiniteSet(B)
        BY <2>4, <2>6, FS_Subset
    <2>8. Cardinality(A) <= Cardinality(B) /\ Cardinality(A) \in Nat /\ Cardinality(B) \in Nat
        BY <2>5, <2>7, FS_Subset, FS_CardinalityType
    <2>9. Cardinality(B) < Retention /\ ~(Cardinality(A) < Retention)
        BY <1>4, <1>5, <2>3, <2>4
    <2> QED
        BY <2>8, <2>9, BoundsAssumption
<1>6. \A k \in gone : k # active /\ Shown[k] \in Queue!Final
    BY <1>1, <1>4 DEF Finished, Shown, Queue!Final, Terminal
<1>7. \A m \in Jobs : m # active /\ Shown[m] \in Queue!Final => m \in F
    BY <1>1 DEF Finished, Shown, Queue!Final, Terminal
<1>8. Shown' = [m \in Jobs |-> IF m \in gone THEN "none" ELSE Shown[m]]
    BY <1>2, <1>3 DEF Shown
<1>9. Passed' = Passed
    <2>1. \A k \in Jobs : (pc'[k] = "returned" <=> pc[k] = "returned")
                       /\ (pc[k] = "returned" => fr'[k] = fr[k])
        BY DEF PruneJobs
    <2> QED
        BY <2>1, PassedKept
<1>10. Queue!Numbers = Jobs
    BY DEF Queue!Numbers, Jobs
<1>11. Queue!Forget(gone)
    BY <1>3, <1>5, <1>6, <1>7, <1>8, <1>9, <1>10 DEF Queue!Forget
<1> QED
    BY <1>2, <1>11, Zenon

(* A restart of Core forgets everything. *)
LEMMA RestartIsForgetAll ==
    ASSUME ActionsInv, Restart
    PROVE  Queue!ForgetAll
<1>1. Passed' = {}
    BY Names DEF Restart, Passed
<1>2. Shown' = [j \in Jobs |-> "none"]
    BY DEF Restart, Shown
<1>3. Queue!Numbers = Jobs
    BY DEF Queue!Numbers, Jobs
<1> QED
    BY <1>1, <1>2, <1>3 DEF Restart, Queue!ForgetAll

(* Every step of Core is one of the queue or does not show. *)
LEMMA QueueStep == ActionsInv /\ ShownCoherent /\ [Next]_vars => [Queue!QNext]_(Queue!qvars)
<1> SUFFICES ASSUME ActionsInv, ShownCoherent, [Next]_vars PROVE Queue!QNext \/ UNCHANGED Queue!qvars
    OBVIOUS
<1>1. Queue!Numbers = Jobs /\ Queue!Numbers \cup Syncs = Callers /\ Queue!Final = Terminal
    BY DEF Queue!Numbers, Jobs, Callers, Queue!Final, Terminal
<1>2. ASSUME NEW ask \in Requests, Accept(ask) PROVE Queue!QNext
    BY <1>1, <1>2, AcceptIsAccept, Zenon DEF Queue!QNext
<1>3. ASSUME NEW c \in Callers, Operate(c) PROVE Queue!QNext \/ UNCHANGED Queue!qvars
    <2>1. CASE TakeMutex(c)
        BY <1>1, <2>1, TakeIsUse, Zenon DEF Queue!QNext
    <2>2. CASE Reject(c) \/ OpkgFails(c) \/ VerifyInstalled(c)
        BY <1>1, <2>2, ReturnIsLeave, Zenon DEF Queue!QNext
    <2>3. CASE StartOpkg(c) \/ OpkgExits(c)
        BY <2>3, QuietStutters
    <2> QED
        BY <1>3, <2>1, <2>2, <2>3 DEF Operate
<1>4. ASSUME NEW j \in Jobs, RunJob(j) PROVE Queue!QNext \/ UNCHANGED Queue!qvars
    <2>1. CASE StartJob(j)
        BY <1>1, <2>1, StartIsBegin, Zenon DEF Queue!QNext
    <2>2. CASE SettleJob(j)
        BY <1>1, <2>2, SettleIsJudge, Zenon DEF Queue!QNext
    <2>3. CASE AppendHistory(j)
        BY <2>3, QuietStutters
    <2>4. CASE FreeSlot(j)
        BY <1>1, <2>4, FreeIsFree, Zenon DEF Queue!QNext
    <2>5. CASE PruneJobs(j)
        BY <1>1, <2>5, PruneIsForget, Zenon DEF Queue!QNext
    <2> QED
        BY <1>4, <2>1, <2>2, <2>3, <2>4, <2>5 DEF RunJob
<1>5. CASE Restart
    BY <1>5, RestartIsForgetAll DEF Queue!QNext
<1>6. CASE \/ \E c \in Callers : Deadline(c) \/ OrphanExits(c)
           \/ \E j \in Jobs : Cancel(j)
           \/ \E s \in Syncs : SyncReply(s) \/ \E ask \in SyncRequests : SyncRequest(s, ask)
           \/ UNCHANGED vars
    BY <1>6, QuietStutters
<1> QED
    BY <1>2, <1>3, <1>4, <1>5, <1>6 DEF Next

(* Every behaviour of the App Center is one of the abstract queue: one job *)
(* at a time, success only for a job that did what was asked while it had  *)
(* the installer for itself, final states that stay until the job is       *)
(* forgotten, oldest first - whatever cancels, deadlines, synchronous      *)
(* requests and restarts do in between.                                    *)
THEOREM ActionsImplementQueue == Spec => ImplementsJobQueue
<1>1. Init => ShownCoherent
    BY Names DEF Init, ShownCoherent, Unsettled, Holding
<1>2. ActionsInv /\ ShownCoherent /\ [Next]_vars => ShownCoherent'
    BY NextKeepsShown
<1>3. Init => Queue!QInit
    BY QueueInit
<1>4. ActionsInv /\ ShownCoherent /\ [Next]_vars => [Queue!QNext]_(Queue!qvars)
    BY QueueStep
<1>5. Spec => []ShownCoherent
    BY <1>1, <1>2, ActionsInvariant, PTL DEF Spec
<1> QED
    BY <1>3, <1>4, <1>5, ActionsInvariant, PTL DEF Spec, ImplementsJobQueue, Queue!QSpec
====
