---- MODULE ManagedConfigProofs ----
(***************************************************************************)
(* Proofs about the handlers of the managed configuration, for every       *)
(* number of handlers, files, snapshots, foreign writes and restarts: the  *)
(* pre-change snapshot, the checked precondition and the truth of the      *)
(* restore's answer.                                                       *)
(***************************************************************************)
EXTENDS ManagedConfig, FiniteSetTheorems, TLAPS

(* Managed files and staging files are different files; None is neither. *)
LEMMA Names ==
    /\ Paths \subseteq Files /\ Temps \subseteq Files
    /\ \A t \in Temps : t \notin Paths
    /\ None \notin Procs /\ None \notin Files /\ None \notin Ids
    /\ \A id \in Ids : id \in Nat
BY NamesAssumption, BoundsAssumption DEF Files, Ids

(* The types of everything but the frames and the mutex. *)
Shared ==
    /\ managed \in [Files -> Contents \cup {Absent}]
    /\ live \subseteq Ids /\ live \subseteq 1..(nextId - 1)
    /\ snap \in [Ids -> [Files -> Contents \cup {Absent}]]
    /\ nextId \in 1..(MaxCaptures + 1)
    /\ fresh \subseteq Temps
    /\ aside \in [Files -> Contents \cup {Absent}] \cup {None}
    /\ stale \in [Procs -> BOOLEAN]
    /\ touched \subseteq Files
    /\ external \in 0..MaxExternal /\ crashes \in 0..MaxCrashes

(* The inductive invariant, sorted by what a step can change. *)
LEMMA InvSplit ==
    ManagedInv <=>
        /\ Shared
        /\ mu \in Procs \cup {None}
        /\ fr \in [Procs -> Frames]
        /\ \A p \in Procs : mu = p <=> fr[p].pc \in Working
        /\ \A p \in Procs : Coherent(fr[p])
        /\ \A p \in Procs : HolderFacts(p)
BY DEF ManagedInv, HandlersInv, TypeOK, HolderAtWork, Shared

(* Who does not hold the mutex claims nothing about the files. *)
LEMMA NoFacts ==
    ASSUME NEW p \in Procs, fr[p].pc \notin Working
    PROVE  HolderFacts(p)
BY DEF HolderFacts, Working, Applying

(* The handler p takes a step under the mutex, takes it or releases it.    *)
(* The others are outside, and so is what they claim.                      *)
LEMMA HolderStep ==
    ASSUME ManagedInv, NEW p \in Procs, mu \in {p, None},
           NEW r \in Frames, Coherent(r), fr' = [fr EXCEPT ![p] = r],
           mu' = IF r.pc \in Working THEN p ELSE None,
           Shared', r.pc \in Working => HolderFacts(p)'
    PROVE  ManagedInv'
<1>1. /\ Shared /\ mu \in Procs \cup {None} /\ fr \in [Procs -> Frames]
      /\ \A q \in Procs : mu = q <=> fr[q].pc \in Working
      /\ \A q \in Procs : Coherent(fr[q])
    BY InvSplit
<1>2. mu' \in Procs \cup {None} /\ fr' \in [Procs -> Frames]
    BY <1>1
<1>3. fr'[p] = r /\ \A q \in Procs \ {p} : fr'[q] = fr[q]
    BY <1>1
<1>4. \A q \in Procs \ {p} : fr'[q].pc \notin Working
    BY <1>1, <1>3, Names
<1>5. \A q \in Procs : mu' = q <=> fr'[q].pc \in Working
    BY <1>3, <1>4, Names
<1>6. \A q \in Procs : Coherent(fr'[q])
    BY <1>1, <1>3
<1>7. ASSUME NEW q \in Procs, fr'[q].pc \notin Working
      PROVE  HolderFacts(q)'
    BY <1>7 DEF HolderFacts, Working, Applying
<1>8. \A q \in Procs : HolderFacts(q)'
    BY <1>3, <1>4, <1>7
<1> QED
    BY <1>2, <1>5, <1>6, <1>8 DEF ManagedInv, HandlersInv, TypeOK, HolderAtWork, Shared

(* What a handler knows is kept when files change that are recorded as     *)
(* written without the mutex, and no others.                               *)
LEMMA FactsKept ==
    ASSUME ManagedInv, NEW q \in Procs, HolderFacts(q), fr'[q] = fr[q],
           UNCHANGED <<live, snap, aside>>,
           touched \subseteq touched', touched' \subseteq Files,
           \A f \in Files \ touched' : managed'[f] = managed[f],
           stale'[q] => stale[q] \/ fr[q].path \in touched'
    PROVE  HolderFacts(q)'
<1>1. fr \in [Procs -> Frames] /\ Coherent(fr[q])
    BY InvSplit
<1>2. \A f \in Files \ touched' : Exists(f)' <=> Exists(f)
    BY DEF Exists
<1>3. Walked(q) => Walked(q)'
    BY <1>2 DEF Walked
<1>4. ASSUME fr[q].pc \in {"capture", "mutate"}, Checked(q)
      PROVE  Checked(q)'
    <2>1. Changed(q)' = Changed(q)
        BY DEF Changed
    <2>2. CASE Changed(q) \cap touched' # {}
        BY <2>1, <2>2 DEF Checked
    <2>3. CASE Changed(q) \cap touched' = {}
        <3>1. PreconditionHolds(q)
            BY <1>4, <2>3 DEF Checked
        <3>2. fr[q].path \in Changed(q) /\
              (fr[q].kind \in {"move", "moveDir"} => fr[q].dest \in Changed(q))
            BY DEF Changed
        <3>3. fr[q].path \notin touched' /\ (stale'[q] => stale[q])
            BY <2>3, <3>2
        <3>4. PreconditionHolds(q)'
            <4>1. /\ fr[q].kind = "create" => fr[q].path \in Files
                  /\ fr[q].kind \in {"edit", "delete", "chmod"} => fr[q].path \in Files
                  /\ fr[q].kind \in {"move", "moveDir"} => fr[q].path \in Files /\ fr[q].dest \in Files
                BY <1>1, <1>4, Names DEF Coherent, Staged
            <4> QED
                BY <1>2, <2>3, <3>1, <3>2, <3>3, <4>1 DEF PreconditionHolds
        <3> QED
            BY <3>4 DEF Checked
    <2> QED
        BY <2>2, <2>3
<1>5. \A id : Captured(id, managed) => Captured(id, managed)'
    BY DEF Captured
<1>6. \A id : Captured(id, aside) => Captured(id, aside)'
    BY DEF Captured
<1> QED
    BY <1>3, <1>4, <1>5, <1>6 DEF HolderFacts

(* The handler p takes a step without the mutex. *)
LEMMA QuietStep ==
    ASSUME ManagedInv, NEW p \in Procs, fr[p].pc \notin Working,
           NEW r \in Frames, r.pc \notin Working, Coherent(r), fr' = [fr EXCEPT ![p] = r],
           Shared', UNCHANGED <<live, snap, aside, mu>>, touched \subseteq touched',
           \A f \in Files \ touched' : managed'[f] = managed[f],
           \A q \in Procs \ {p} : stale'[q] = stale[q]
    PROVE  ManagedInv'
<1>1. /\ mu \in Procs \cup {None} /\ fr \in [Procs -> Frames]
      /\ \A q \in Procs : mu = q <=> fr[q].pc \in Working
      /\ \A q \in Procs : Coherent(fr[q])
      /\ \A q \in Procs : HolderFacts(q)
    BY InvSplit
<1>2. fr' \in [Procs -> Frames] /\ fr'[p] = r /\ \A q \in Procs \ {p} : fr'[q] = fr[q]
    BY <1>1
<1>3. \A q \in Procs : mu' = q <=> fr'[q].pc \in Working
    BY <1>1, <1>2
<1>4. \A q \in Procs : Coherent(fr'[q])
    BY <1>1, <1>2
<1>5. touched' \subseteq Files
    BY DEF Shared
<1>6. ASSUME NEW q \in Procs \ {p} PROVE HolderFacts(q)'
    BY <1>1, <1>2, <1>5, FactsKept
<1>7. HolderFacts(p)'
    BY <1>2 DEF HolderFacts, Working, Applying
<1>8. \A q \in Procs : HolderFacts(q)'
    BY <1>6, <1>7
<1> QED
    BY <1>1, <1>2, <1>3, <1>4, <1>8 DEF ManagedInv, HandlersInv, TypeOK, HolderAtWork, Shared

---------------------------------------------------------------------------
(* Frames.                                                                 *)

(* A handler that has returned, or has only to clean up its staging file. *)
LEMMA RestingFrames ==
    /\ Blank \in Frames /\ Coherent(Blank) /\ Blank.pc = "idle"
    /\ \A t \in Temps : LET r == [Blank EXCEPT !.pc = "cleanup", !.dest = t]
                        IN r \in Frames /\ Coherent(r) /\ r.pc = "cleanup"
BY Names DEF Blank, Frames, Coherent, Phases, Applying

(* A handler that waits for the mutex. *)
LEMMA WaitingFrame ==
    ASSUME NEW k \in Kinds, NEW f \in Paths \cup {None}, NEW d \in Files \cup {None},
           k # "restore", k \in Staged => f \in Paths /\ d \in Temps,
           k \in {"delete", "chmod"} => f \in Paths,
           k \in {"move", "moveDir"} => f \in Paths /\ d \in Paths
    PROVE  LET r == [Blank EXCEPT !.pc = "wait", !.kind = k, !.path = f, !.dest = d]
           IN r \in Frames /\ Coherent(r) /\ r.pc = "wait"
BY DEF Blank, Frames, Coherent, Phases, Applying

(* The handler returns. *)
LEMMA FinishStep ==
    ASSUME ManagedInv, NEW p \in Procs, Finish(p), mu \in {p, None},
           fr[p].pc \in Working \cup {"wait"}, Shared'
    PROVE  ManagedInv'
<1>1. fr \in [Procs -> Frames] /\ Coherent(fr[p])
    BY InvSplit
<1>2. PICK r : r = IF fr[p].kind \in Staged
                   THEN [Blank EXCEPT !.pc = "cleanup", !.dest = fr[p].dest] ELSE Blank
    OBVIOUS
<1>3. fr[p].kind \in Staged => fr[p].dest \in Temps
    BY <1>1 DEF Coherent, Working, Applying, Staged
<1>4. r \in Frames /\ Coherent(r) /\ r.pc \in {"idle", "cleanup"}
    BY <1>2, <1>3, RestingFrames
<1>5. r.pc \notin Working
    BY <1>4 DEF Working, Applying
<1>6. fr' = [fr EXCEPT ![p] = r] /\ mu' = None
    BY <1>2 DEF Finish
<1> QED
    BY <1>4, <1>5, <1>6, HolderStep

(* The holder goes on: its new frame differs in the fields a step sets. *)
LEMMA WorkStep ==
    ASSUME ManagedInv, NEW p \in Procs, mu \in {p, None}, mu' = p,
           NEW r \in Frames, Coherent(r), r.pc \in Working, fr' = [fr EXCEPT ![p] = r],
           Shared', HolderFacts(p)'
    PROVE  ManagedInv'
BY HolderStep

---------------------------------------------------------------------------
(* Steps without the mutex.                                                *)

LEMMA StageWritePreserves ==
    ASSUME ManagedInv, NEW p \in Procs, NEW k \in Staged, NEW f \in Paths,
           NEW content \in Contents, StageWrite(p, k, f, content)
    PROVE  ManagedInv'
<1> USE DEF vault, bounds
<1>1. Shared /\ fr \in [Procs -> Frames]
    BY InvSplit
<1>2. PICK t \in fresh :
        /\ Request(p, k, f, t) /\ fresh' = fresh \ {t}
        /\ managed' = [managed EXCEPT ![t] = content] /\ touched' = touched \cup {t}
    BY DEF StageWrite
<1>3. t \in Temps /\ t \in Files /\ UNCHANGED <<live, snap, nextId, aside, mu, external, crashes>>
    BY <1>1, Names DEF StageWrite, Shared
<1>4. PICK r : r = [Blank EXCEPT !.pc = "wait", !.kind = k, !.path = f, !.dest = t]
    OBVIOUS
<1>5. r \in Frames /\ Coherent(r) /\ r.pc = "wait"
    <2>1. k \in Kinds /\ k \notin {"restore", "delete", "chmod", "move", "moveDir"}
        BY DEF Staged, Kinds
    <2>2. f \in Paths \cup {None} /\ t \in Files \cup {None}
        BY <1>3
    <2> QED
        BY <1>3, <1>4, <2>1, <2>2, WaitingFrame
<1>6. fr[p].pc = "idle" /\ fr' = [fr EXCEPT ![p] = r] /\ stale' = [stale EXCEPT ![p] = FALSE]
    BY <1>2, <1>4 DEF Request
<1>7. Shared'
    BY <1>1, <1>2, <1>3, <1>6 DEF Shared
<1>8. /\ \A g \in Files \ touched' : managed'[g] = managed[g]
      /\ \A q \in Procs \ {p} : stale'[q] = stale[q]
    BY <1>1, <1>2, <1>6 DEF Shared
<1>9. fr[p].pc \notin Working /\ r.pc \notin Working
    BY <1>5, <1>6 DEF Working, Applying
<1> QED
    BY <1>2, <1>3, <1>5, <1>6, <1>7, <1>8, <1>9, QuietStep

(* A request that stages nothing. *)
LEMMA RequestPreserves ==
    ASSUME ManagedInv, NEW p \in Procs, NEW k \in Kinds, NEW f \in Paths \cup {None},
           NEW d \in Paths \cup {None}, Request(p, k, f, d), k \notin Staged, k # "restore",
           k \in {"delete", "chmod"} => f \in Paths,
           k \in {"move", "moveDir"} => f \in Paths /\ d \in Paths,
           UNCHANGED <<managed, vault, aside, fresh, mu, touched, bounds>>
    PROVE  ManagedInv'
<1> USE DEF vault, bounds
<1>1. Shared /\ fr \in [Procs -> Frames]
    BY InvSplit
<1>2. PICK r : r = [Blank EXCEPT !.pc = "wait", !.kind = k, !.path = f, !.dest = d]
    OBVIOUS
<1>3. r \in Frames /\ Coherent(r) /\ r.pc = "wait"
    <2>1. d \in Files \cup {None}
        BY Names
    <2> QED
        BY <1>2, <2>1, WaitingFrame
<1>4. fr[p].pc = "idle" /\ fr' = [fr EXCEPT ![p] = r] /\ stale' = [stale EXCEPT ![p] = FALSE]
    BY <1>2 DEF Request
<1>5. Shared' /\ \A q \in Procs \ {p} : stale'[q] = stale[q]
    BY <1>1, <1>4 DEF Shared
<1>6. fr[p].pc \notin Working /\ r.pc \notin Working
    BY <1>3, <1>4 DEF Working, Applying
<1> QED
    BY <1>3, <1>4, <1>5, <1>6, QuietStep

LEMMA RequestRestorePreserves ==
    ASSUME ManagedInv, NEW p \in Procs, NEW id \in Ids, RequestRestore(p, id)
    PROVE  ManagedInv'
<1> USE DEF vault, bounds
<1>1. Shared /\ fr \in [Procs -> Frames]
    BY InvSplit
<1>2. PICK r : r = [Blank EXCEPT !.pc = "wait", !.kind = "restore", !.target = id,
                                 !.tx = "Precheck"]
    OBVIOUS
<1>3. r \in Frames /\ Coherent(r) /\ r.pc = "wait"
    BY <1>2 DEF Blank, Frames, Coherent, Phases, Applying, Kinds, TxStates, Staged
<1>4. /\ fr[p].pc = "idle" /\ fr' = [fr EXCEPT ![p] = r]
      /\ UNCHANGED <<managed, live, snap, nextId, aside, fresh, mu, stale, touched, external, crashes>>
    BY <1>2 DEF RequestRestore
<1>5. Shared'
    BY <1>1, <1>4 DEF Shared
<1>6. fr[p].pc \notin Working /\ r.pc \notin Working
    BY <1>3, <1>4 DEF Working, Applying
<1> QED
    BY <1>3, <1>4, <1>5, <1>6, QuietStep

(* The staging file is given up, and removed after the mutex is released.  *)
LEMMA CleanupPreserves ==
    ASSUME ManagedInv, NEW p \in Procs, StageFails(p) \/ Cleanup(p)
    PROVE  ManagedInv'
<1> USE DEF vault, bounds
<1>1. Shared /\ fr \in [Procs -> Frames] /\ Coherent(fr[p])
    BY InvSplit
<1>2. CASE StageFails(p)
    <2>1. fr[p].dest \in Temps /\ fr[p].pc = "wait"
        BY <1>1, <1>2 DEF StageFails, Coherent
    <2>2. PICK r : r = [Blank EXCEPT !.pc = "cleanup", !.dest = fr[p].dest]
        OBVIOUS
    <2>3. r \in Frames /\ Coherent(r) /\ r.pc = "cleanup"
        BY <2>1, <2>2, RestingFrames
    <2>4. fr[p].pc \notin Working /\ r.pc \notin Working
        BY <2>1, <2>3 DEF Working, Applying
    <2>5. /\ fr' = [fr EXCEPT ![p] = r]
          /\ UNCHANGED <<managed, live, snap, nextId, aside, fresh, mu, stale, touched, external, crashes>>
        BY <1>2, <2>2 DEF StageFails
    <2>6. Shared'
        BY <1>1, <2>5 DEF Shared
    <2> QED
        BY <2>3, <2>4, <2>5, <2>6, QuietStep
<1>3. CASE Cleanup(p)
    <2>1. /\ fr[p].pc = "cleanup" /\ fr[p].dest \in Temps /\ fr[p].dest \in Files
          /\ managed' = [managed EXCEPT ![fr[p].dest] = Absent]
          /\ touched' = IF Exists(fr[p].dest) THEN touched \cup {fr[p].dest} ELSE touched
          /\ fr' = [fr EXCEPT ![p] = Blank]
          /\ UNCHANGED <<live, snap, nextId, aside, fresh, mu, stale, external, crashes>>
        BY <1>1, <1>3, Names DEF Cleanup, Coherent
    <2>2. fr[p].pc \notin Working /\ Blank.pc \notin Working
        BY <2>1, RestingFrames DEF Working, Applying
    <2>3. Shared'
        BY <1>1, <2>1 DEF Shared
    <2>4. touched \subseteq touched' /\ \A f \in Files \ touched' : managed'[f] = managed[f]
        BY <1>1, <2>1 DEF Shared, Exists
    <2> QED
        BY <2>1, <2>2, <2>3, <2>4, RestingFrames, QuietStep
<1> QED
    BY <1>2, <1>3

---------------------------------------------------------------------------
(* The lock, the check and the pre-change snapshot.                        *)

(* The transitions of a transaction that a restore takes. *)
LEMMA Transitions ==
    /\ Advance("Precheck", "Snapshot") = "Snapshot"
    /\ Advance(Advance("Snapshot", "Validated"), "Applied") = "Applied"
    /\ Advance(Advance("Applied", "Verified"), "Committed") = "Committed"
    /\ Advance("Applied", "RolledBack") = "RolledBack"
    /\ Advance("Applied", "Ambiguous") = "Ambiguous"
BY DEF Advance, CanTransition, Successors

(* Who works holds the mutex. *)
LEMMA WorkerHolds ==
    ASSUME ManagedInv, NEW p \in Procs, fr[p].pc \in Working
    PROVE  mu = p /\ mu \in {p, None}
BY InvSplit

(* The check of a request depends on the request, the files and the times. *)
LEMMA CheckedKept ==
    ASSUME NEW p, Checked(p), fr'[p].kind = fr[p].kind, fr'[p].path = fr[p].path,
           fr'[p].dest = fr[p].dest, UNCHANGED <<managed, stale, touched>>
    PROVE  Checked(p)'
BY DEF Checked, PreconditionHolds, Changed, Exists

LEMMA LockPreserves ==
    ASSUME ManagedInv, NEW p \in Procs, LockAndCheck(p)
    PROVE  ManagedInv'
<1> USE DEF vault, bounds
<1>1. Shared /\ fr \in [Procs -> Frames] /\ Coherent(fr[p])
    BY InvSplit
<1>2. /\ fr[p].pc = "wait" /\ mu = None
      /\ UNCHANGED <<managed, live, snap, nextId, aside, fresh, stale, external, crashes>>
    BY DEF LockAndCheck
<1>3. CASE Finish(p) /\ touched' = touched
    <2>1. Shared'
        BY <1>1, <1>2, <1>3 DEF Shared
    <2> QED
        BY <1>2, <1>3, <2>1, FinishStep
<1>4. CASE /\ PreconditionHolds(p) /\ mu' = p /\ touched' = {}
           /\ fr' = [fr EXCEPT ![p].specs = Walk, ![p].pc = FirstPhase(p)]
    <2>1. PICK r : r = [fr[p] EXCEPT !.specs = Walk, !.pc = FirstPhase(p)]
        OBVIOUS
    <2>2. FirstPhase(p) \in {"mutate", "capture"} /\ Walk \in SUBSET Files
        BY DEF FirstPhase, Walk
    <2>3. fr[p] \in Frames
        BY <1>1
    <2>4. /\ r.pc = FirstPhase(p) /\ r.specs = Walk
          /\ r.kind = fr[p].kind /\ r.path = fr[p].path /\ r.dest = fr[p].dest
          /\ r.target = fr[p].target /\ r.tx = fr[p].tx
        BY <2>1, <2>3 DEF Frames
    <2>5. r \in Frames /\ r.pc \in Working
        BY <2>1, <2>2, <2>3, <2>4 DEF Frames, Phases, Working
    <2>6. Coherent(r)
        BY <1>1, <1>2, <2>2, <2>4 DEF Coherent, Applying, FirstPhase
    <2>7. fr' = [fr EXCEPT ![p] = r] /\ fr'[p] = r
        BY <1>1, <1>4, <2>1
    <2>8. Shared'
        BY <1>1, <1>2, <1>4 DEF Shared
    <2>9. Walked(p)'
        BY <1>2, <2>4, <2>7 DEF Walked, Walk, Exists
    <2>10. Checked(p)'
        BY <1>2, <1>4, <2>4, <2>7 DEF Checked, PreconditionHolds, Exists
    <2>11. HolderFacts(p)'
        BY <2>2, <2>4, <2>7, <2>9, <2>10 DEF HolderFacts, Applying, FirstPhase
    <2> QED
        BY <1>2, <1>4, <2>5, <2>6, <2>7, <2>8, <2>11, WorkStep
<1> QED
    BY <1>3, <1>4 DEF LockAndCheck

(* prune keeps snapshots of the vault, and always the newest. *)
LEMMA PruneKeepsNewest ==
    ASSUME NEW S \in SUBSET Nat, NEW number \in Nat
    PROVE  /\ Retained(S, number) \subseteq S
           /\ \A id \in S : number # 0 /\ (\A other \in S : other <= id) => id \in Retained(S, number)
<1>1. Retained(S, number) \subseteq S
    BY DEF Retained
<1>2. ASSUME NEW id \in S, number # 0, \A other \in S : other <= id
      PROVE  id \in Retained(S, number)
    <2>0. \A other \in S : ~(other > id)
        BY <1>2
    <2>1. {other \in S : other > id} = {}
        BY <2>0
    <2>2. Cardinality({other \in S : other > id}) = 0
        BY <2>1, FS_EmptySet
    <2> QED
        BY <1>2, <2>2 DEF Retained
<1> QED
    BY <1>1, <1>2

LEMMA CapturePreserves ==
    ASSUME ManagedInv, NEW p \in Procs, Capture(p)
    PROVE  ManagedInv'
<1> USE DEF vault, bounds
<1>0. PICK n : n = nextId
    OBVIOUS
<1>1. Shared /\ fr \in [Procs -> Frames] /\ Coherent(fr[p]) /\ HolderFacts(p)
    BY InvSplit
<1>2. /\ fr[p].pc = "capture" /\ nextId <= MaxCaptures /\ nextId' = nextId + 1
      /\ snap' = [snap EXCEPT ![nextId] =
                    [f \in Files |-> IF f \in fr[p].specs THEN managed[f] ELSE Absent]]
      /\ AfterCapture(p)
      /\ UNCHANGED <<managed, fresh, aside, stale, touched, external, crashes>>
    BY DEF Capture
<1>3. PICK number \in 1..MaxSnapshots : live' = Retained(live \cup {nextId}, number)
    BY DEF Capture
<1>4. nextId \in Ids /\ nextId \in Nat /\ live \cup {nextId} \in SUBSET Nat
    BY <1>1, <1>2, BoundsAssumption DEF Shared, Ids
<1>5. live' \subseteq live \cup {nextId} /\ nextId \in live'
    <2>1. \A other \in live \cup {nextId} : other <= nextId
        BY <1>1, <1>4 DEF Shared
    <2>2. number \in Nat /\ number # 0
        BY <1>3, BoundsAssumption
    <2> QED
        BY <1>3, <1>4, <2>1, <2>2, PruneKeepsNewest
<1>6. Shared'
    <2>1. snap' \in [Ids -> [Files -> Contents \cup {Absent}]]
        BY <1>1, <1>2 DEF Shared
    <2>2. live' \subseteq Ids /\ live' \subseteq 1..(nextId' - 1) /\ nextId' \in 1..(MaxCaptures + 1)
        BY <1>1, <1>2, <1>4, <1>5, BoundsAssumption DEF Shared
    <2> QED
        BY <1>1, <1>2, <2>1, <2>2 DEF Shared
<1>7. Captured(n, managed)'
    <2> SUFFICES ASSUME NEW f \in Files \ touched PROVE snap'[n][f] = managed[f]
        BY <1>2 DEF Captured
    <2>1. snap'[n][f] = IF f \in fr[p].specs THEN managed[f] ELSE Absent
        BY <1>0, <1>1, <1>2, <1>4 DEF Shared
    <2> QED
        BY <1>1, <1>2, <2>1 DEF HolderFacts, Walked, Exists
<1>8. fr[p].pc \in Working /\ fr[p] \in Frames
    BY <1>1, <1>2 DEF Working
<1>9. mu = p
    BY <1>8, WorkerHolds
<1>10. CASE fr[p].kind = "capture"
    <2>1. Finish(p)
        BY <1>2, <1>10 DEF AfterCapture
    <2> QED
        BY <1>6, <1>8, <1>9, <2>1, FinishStep
<1>11. CASE fr[p].kind = "restore"
    <2>1. PICK r : r = [fr[p] EXCEPT !.cur = n, !.pc = "validate", !.tx = "Snapshot"]
        OBVIOUS
    <2>2. fr[p].tx = "Precheck" /\ fr[p].target \in Ids
        BY <1>1, <1>2, <1>11 DEF Coherent
    <2>3. /\ r.pc = "validate" /\ r.kind = "restore" /\ r.cur = n
          /\ r.target \in Ids /\ r.tx = "Snapshot"
        BY <1>8, <1>11, <2>1, <2>2 DEF Frames
    <2>4. r \in Frames
        BY <1>0, <1>4, <1>8, <2>1 DEF Frames, Phases, TxStates
    <2>5. Coherent(r) /\ r.pc \in Working
        BY <1>0, <1>4, <2>3 DEF Coherent, Working, Applying
    <2>6. fr' = [fr EXCEPT ![p] = r] /\ fr'[p] = r /\ mu' = mu
        <3>1. fr' = [fr EXCEPT ![p].cur = n, ![p].pc = "validate",
                               ![p].tx = Advance(@, "Snapshot")] /\ mu' = mu
            BY <1>0, <1>2, <1>11 DEF AfterCapture
        <3>2. Advance(fr[p].tx, "Snapshot") = "Snapshot"
            BY <2>2, Transitions
        <3> QED
            BY <1>1, <2>1, <3>1, <3>2
    <2>7. HolderFacts(p)'
        BY <1>0, <1>5, <1>7, <2>3, <2>6 DEF HolderFacts, Applying
    <2> QED
        BY <1>6, <1>9, <2>4, <2>5, <2>6, <2>7, WorkStep
<1>12. CASE fr[p].kind \notin {"capture", "restore"}
    <2>1. PICK r : r = [fr[p] EXCEPT !.cur = n, !.pc = "mutate"]
        OBVIOUS
    <2>2. /\ r.pc = "mutate" /\ r.cur = n
          /\ r.kind = fr[p].kind /\ r.path = fr[p].path /\ r.dest = fr[p].dest
          /\ r.target = fr[p].target /\ r.tx = fr[p].tx
        BY <1>8, <2>1 DEF Frames
    <2>3. r \in Frames
        BY <1>0, <1>4, <1>8, <2>1 DEF Frames, Phases
    <2>4. Coherent(r) /\ r.pc \in Working
        BY <1>1, <1>2, <1>12, <2>2 DEF Coherent, Working, Applying
    <2>5. fr' = [fr EXCEPT ![p] = r] /\ fr'[p] = r /\ mu' = mu
        BY <1>0, <1>1, <1>2, <1>12, <2>1 DEF AfterCapture
    <2>6. Checked(p)'
        <3>1. Checked(p)
            BY <1>1, <1>2 DEF HolderFacts
        <3> QED
            BY <1>2, <2>2, <2>5, <3>1, CheckedKept
    <2>7. HolderFacts(p)'
        BY <1>0, <1>5, <1>7, <2>2, <2>5, <2>6 DEF HolderFacts, Applying
    <2> QED
        BY <1>6, <1>9, <2>3, <2>4, <2>5, <2>7, WorkStep
<1> QED
    BY <1>10, <1>11, <1>12

---------------------------------------------------------------------------
(* The mutation, or its failure, and the swap of the whole root.           *)

(* A write that gives files a new time keeps the types. *)
LEMMA ModifyTyped ==
    ASSUME NEW F, stale \in [Procs -> BOOLEAN], Modify(F)
    PROVE  stale' \in [Procs -> BOOLEAN]
BY Zenon DEF Modify

LEMMA CaptureFailsPreserves ==
    ASSUME ManagedInv, NEW p \in Procs, CaptureFails(p)
    PROVE  ManagedInv'
<1> USE DEF vault, bounds
<1>1. Shared
    BY InvSplit
<1>2. PICK number \in 0..MaxSnapshots : live' = Retained(live, number)
    BY DEF CaptureFails
<1>3. live' \subseteq live
    BY <1>2 DEF Retained
<1>4. Shared'
    BY <1>1, <1>3 DEF CaptureFails, Shared
<1>5. fr[p].pc \in Working /\ Finish(p)
    BY DEF CaptureFails, Working
<1> QED
    BY <1>4, <1>5, WorkerHolds, FinishStep

LEMMA MutatePreserves ==
    ASSUME ManagedInv, NEW p \in Procs, Mutate(p) \/ MutateFails(p)
    PROVE  ManagedInv'
<1> USE DEF vault, bounds
<1>1. Shared /\ fr \in [Procs -> Frames] /\ Coherent(fr[p])
    BY InvSplit
<1>2. /\ fr[p].pc = "mutate" /\ fr[p].pc \in Working /\ Finish(p)
      /\ UNCHANGED <<live, snap, nextId, aside, fresh, touched, external, crashes>>
    BY DEF Mutate, MutateFails, Working
<1>3. CASE Mutate(p)
    <2>1. stale' \in [Procs -> BOOLEAN]
        BY <1>1, <1>3, ModifyTyped DEF Mutate, Shared
    <2>2. fr[p].kind \in Kinds \ {"capture", "restore", "archive"}
        BY <1>1, <1>2, <1>3 DEF Coherent, Mutate
    <2>3. /\ fr[p].kind \in Staged => fr[p].path \in Files /\ fr[p].dest \in Files
          /\ fr[p].kind \in {"move", "moveDir"} => fr[p].path \in Files /\ fr[p].dest \in Files
        BY <1>1, <1>2, Names DEF Coherent
    <2>4. managed' \in [Files -> Contents \cup {Absent}]
        BY <1>1, <1>3, <2>2, <2>3 DEF Mutate, Shared, Kinds, Staged
    <2>5. Shared'
        BY <1>1, <1>2, <2>1, <2>4 DEF Shared
    <2> QED
        BY <1>2, <2>5, WorkerHolds, FinishStep
<1>4. CASE MutateFails(p)
    <2>1. Shared'
        BY <1>1, <1>4 DEF MutateFails, Shared
    <2> QED
        BY <1>2, <2>1, WorkerHolds, FinishStep
<1> QED
    BY <1>3, <1>4

LEMMA SwapAsidePreserves ==
    ASSUME ManagedInv, NEW p \in Procs, SwapAside(p)
    PROVE  ManagedInv'
<1> USE DEF vault, bounds
<1>1. Shared /\ fr \in [Procs -> Frames] /\ Coherent(fr[p]) /\ HolderFacts(p)
    BY InvSplit
<1>2. /\ fr[p].pc = "mutate" /\ fr[p].kind = "archive" /\ aside' = managed
      /\ managed' = [f \in Files |-> Absent]
      /\ fr' = [fr EXCEPT ![p].pc = "swap"]
      /\ UNCHANGED <<live, snap, nextId, fresh, mu, stale, touched, external, crashes>>
    BY DEF SwapAside
<1>3. PICK r : r = [fr[p] EXCEPT !.pc = "swap"]
    OBVIOUS
<1>4. fr[p] \in Frames /\ fr[p].pc \in Working
    BY <1>1, <1>2 DEF Working
<1>5. r \in Frames /\ r.pc = "swap" /\ r.kind = "archive" /\ r.cur = fr[p].cur
    BY <1>2, <1>3, <1>4 DEF Frames, Phases
<1>6. Coherent(r) /\ r.pc \in Working
    BY <1>5 DEF Coherent, Working, Applying
<1>7. fr' = [fr EXCEPT ![p] = r] /\ fr'[p] = r
    BY <1>1, <1>2, <1>3
<1>8. Shared'
    BY <1>1, <1>2 DEF Shared
<1>9. /\ aside' \in [Files -> Contents \cup {Absent}]
      /\ fr'[p].cur \in live' /\ Captured(fr[p].cur, aside)'
    BY <1>1, <1>2, <1>5, <1>7 DEF HolderFacts, Captured, Shared
<1>10. HolderFacts(p)'
    BY <1>5, <1>7, <1>9 DEF HolderFacts, Applying, Captured
<1> QED
    BY <1>2, <1>4, <1>5, <1>6, <1>7, <1>8, <1>10, WorkerHolds, WorkStep

LEMMA SwapEndPreserves ==
    ASSUME ManagedInv, NEW p \in Procs,
           SwapFails(p) \/ \E archive \in Archives : SwapIn(p, archive)
    PROVE  ManagedInv'
<1> USE DEF vault, bounds
<1>1. Shared /\ fr \in [Procs -> Frames] /\ HolderFacts(p)
    BY InvSplit
<1>2. /\ fr[p].pc = "swap" /\ fr[p].pc \in Working /\ Finish(p) /\ aside' = None
      /\ UNCHANGED <<live, snap, nextId, fresh, touched, external, crashes>>
    BY DEF SwapFails, SwapIn, Working
<1>3. aside \in [Files -> Contents \cup {Absent}]
    BY <1>1, <1>2 DEF HolderFacts
<1>4. CASE SwapFails(p)
    <2>1. Shared'
        BY <1>1, <1>2, <1>3, <1>4 DEF SwapFails, Shared
    <2> QED
        BY <1>2, <2>1, WorkerHolds, FinishStep
<1>5. ASSUME NEW archive \in Archives, SwapIn(p, archive)
      PROVE  ManagedInv'
    <2>1. stale' \in [Procs -> BOOLEAN]
        BY <1>1, <1>5, ModifyTyped DEF SwapIn, Shared
    <2>2. managed' \in [Files -> Contents \cup {Absent}]
        BY <1>5 DEF SwapIn, Archives
    <2>3. Shared'
        BY <1>1, <1>2, <2>1, <2>2 DEF Shared
    <2> QED
        BY <1>2, <2>3, WorkerHolds, FinishStep
<1> QED
    BY <1>4, <1>5

---------------------------------------------------------------------------
(* The restore transaction after its safety snapshot.                      *)

(* Writing or removing files of the managed root: all that is claimed is   *)
(* that the safety snapshot is there.                                      *)
LEMMA RewriteStep ==
    ASSUME ManagedInv, NEW p \in Procs, fr[p].pc \in {"validate", "apply", "trim", "verify"},
           NEW pc \in {"apply", "trim"}, NEW id \in {fr[p].target, fr[p].cur},
           NEW todo \in SUBSET Files,
           fr' = [fr EXCEPT ![p] = [fr[p] EXCEPT !.pc = pc, !.goal = id, !.todo = todo,
                                                 !.tx = "Applied"]],
           mu' = mu, live' = live, Shared'
    PROVE  ManagedInv'
<1>1. Shared /\ fr \in [Procs -> Frames] /\ Coherent(fr[p]) /\ HolderFacts(p)
    BY InvSplit
<1>2. PICK r : r = [fr[p] EXCEPT !.pc = pc, !.goal = id, !.todo = todo, !.tx = "Applied"]
    OBVIOUS
<1>3. /\ fr[p] \in Frames /\ fr[p].pc \in Working /\ fr[p].kind = "restore"
      /\ fr[p].target \in Ids /\ fr[p].cur \in Ids
    BY <1>1 DEF Coherent, Working, Applying
<1>4. /\ r.pc = pc /\ r.kind = "restore" /\ r.target = fr[p].target /\ r.cur = fr[p].cur
      /\ r.goal = id /\ r.tx = "Applied"
    BY <1>2, <1>3 DEF Frames
<1>5. r \in Frames
    BY <1>2, <1>3 DEF Frames, Phases, TxStates
<1>6. Coherent(r) /\ r.pc \in Working
    BY <1>3, <1>4 DEF Coherent, Working, Applying
<1>7. fr' = [fr EXCEPT ![p] = r] /\ fr'[p] = r
    BY <1>1, <1>2
<1>8. fr[p].cur \in live
    BY <1>1, <1>3 DEF HolderFacts, Applying
<1>9. HolderFacts(p)'
    BY <1>4, <1>7, <1>8 DEF HolderFacts, Applying
<1> QED
    BY <1>3, <1>5, <1>6, <1>7, <1>9, WorkerHolds, WorkStep

LEMMA ValidatePreserves ==
    ASSUME ManagedInv, NEW p \in Procs, Validate(p)
    PROVE  ManagedInv'
<1> USE DEF vault, bounds
<1>1. Shared /\ fr \in [Procs -> Frames] /\ Coherent(fr[p])
    BY InvSplit
<1>2. /\ fr[p].pc = "validate" /\ fr[p].pc \in Working /\ fr[p].tx = "Snapshot"
      /\ UNCHANGED <<managed, live, snap, nextId, aside, fresh, stale, touched, external, crashes>>
    BY <1>1 DEF Validate, Working, Coherent
<1>3. Shared'
    BY <1>1, <1>2 DEF Shared
<1>4. CASE Finish(p)
    BY <1>2, <1>3, <1>4, WorkerHolds, FinishStep
<1>5. CASE /\ BeginApply(p, fr[p].target, Advance(Advance(fr[p].tx, "Validated"), "Applied"))
           /\ mu' = mu
    <2>1. Artifacts(fr[p].target) \in SUBSET Files
        BY DEF Artifacts
    <2>2. Advance(Advance(fr[p].tx, "Validated"), "Applied") = "Applied"
        BY <1>2, Transitions
    <2>3. fr' = [fr EXCEPT ![p] = [fr[p] EXCEPT !.pc = "apply", !.goal = fr[p].target,
                                                !.todo = Artifacts(fr[p].target), !.tx = "Applied"]]
        BY <1>1, <1>5, <2>2 DEF BeginApply
    <2> QED
        BY <1>2, <1>3, <1>5, <2>1, <2>3, RewriteStep
<1> QED
    BY <1>4, <1>5 DEF Validate

LEMMA ApplyPreserves ==
    ASSUME ManagedInv, NEW p \in Procs,
           \/ \E f \in Files : ApplyFile(p, f) \/ TrimFile(p, f)
           \/ ApplyWalk(p)
    PROVE  ManagedInv'
<1> USE DEF vault, bounds
<1>1. Shared /\ fr \in [Procs -> Frames] /\ Coherent(fr[p]) /\ fr[p] \in Frames
    BY InvSplit
<1>2. /\ fr[p].pc \in {"apply", "trim"} /\ fr[p].tx = "Applied"
      /\ fr[p].goal \in {fr[p].target, fr[p].cur} /\ fr[p].goal \in Ids
      /\ fr[p].todo \in SUBSET Files
    BY <1>1 DEF ApplyFile, TrimFile, ApplyWalk, Coherent, Applying, Frames
<1>3. ASSUME NEW f \in Files, ApplyFile(p, f) \/ TrimFile(p, f)
      PROVE  ManagedInv'
    <2>1. /\ fr' = [fr EXCEPT ![p].todo = @ \ {f}] /\ Modify({f})
          /\ UNCHANGED <<live, snap, nextId, aside, fresh, mu, touched, external, crashes>>
        BY <1>3 DEF ApplyFile, TrimFile
    <2>2. managed' \in [Files -> Contents \cup {Absent}]
        BY <1>1, <1>2, <1>3 DEF ApplyFile, TrimFile, Shared
    <2>3. stale' \in [Procs -> BOOLEAN]
        BY <1>1, <2>1, ModifyTyped DEF Shared
    <2>4. Shared'
        BY <1>1, <2>1, <2>2, <2>3 DEF Shared
    <2>5. PICK left, phase, id : left = fr[p].todo \ {f} /\ phase = fr[p].pc /\ id = fr[p].goal
        OBVIOUS
    <2>6. [fr[p] EXCEPT !.todo = @ \ {f}] =
          [fr[p] EXCEPT !.pc = phase, !.goal = id, !.todo = left, !.tx = "Applied"]
        BY <1>1, <1>2, <2>5 DEF Frames
    <2>7. fr' = [fr EXCEPT ![p] = [fr[p] EXCEPT !.pc = phase, !.goal = id, !.todo = left,
                                                !.tx = "Applied"]]
        BY <1>1, <2>1, <2>6
    <2>8. left \in SUBSET Files /\ phase \in {"apply", "trim"} /\ id \in {fr[p].target, fr[p].cur}
        BY <1>2, <2>5
    <2> QED
        BY <1>2, <2>1, <2>4, <2>7, <2>8, RewriteStep
<1>4. CASE ApplyWalk(p)
    <2>1. /\ fr' = [fr EXCEPT ![p].pc = "trim", ![p].todo = Walk \ Artifacts(fr[p].goal)]
          /\ UNCHANGED <<managed, live, snap, nextId, aside, fresh, mu, stale, touched, external, crashes>>
        BY <1>4 DEF ApplyWalk
    <2>2. Shared'
        BY <1>1, <2>1 DEF Shared
    <2>3. PICK left : left = Walk \ Artifacts(fr[p].goal)
        OBVIOUS
    <2>4. left \in SUBSET Files
        BY <2>3 DEF Walk
    <2>5. [fr[p] EXCEPT !.pc = "trim", !.todo = left] =
          [fr[p] EXCEPT !.pc = "trim", !.goal = fr[p].goal, !.todo = left, !.tx = "Applied"]
        BY <1>1, <1>2 DEF Frames
    <2>6. fr' = [fr EXCEPT ![p] = [fr[p] EXCEPT !.pc = "trim", !.goal = fr[p].goal,
                                                !.todo = left, !.tx = "Applied"]]
        BY <1>1, <2>1, <2>3, <2>5
    <2> QED
        BY <1>2, <2>1, <2>2, <2>4, <2>6, RewriteStep
<1> QED
    BY <1>3, <1>4

LEMMA ApplyFailsPreserves ==
    ASSUME ManagedInv, NEW p \in Procs, ApplyFails(p)
    PROVE  ManagedInv'
<1> USE DEF vault, bounds
<1>1. Shared /\ fr \in [Procs -> Frames] /\ Coherent(fr[p]) /\ fr[p] \in Frames /\ HolderFacts(p)
    BY InvSplit
<1>2. /\ fr[p].pc \in {"apply", "trim", "verify"} /\ fr[p].pc \in Working /\ fr[p].tx = "Applied"
      /\ fr[p].kind = "restore" /\ fr[p].target \in Ids /\ fr[p].cur \in Ids
      /\ UNCHANGED <<managed, live, snap, nextId, aside, fresh, mu, stale, touched, external, crashes>>
    BY <1>1 DEF ApplyFails, Coherent, Working, Applying
<1>3. Shared'
    BY <1>1, <1>2 DEF Shared
<1>4. CASE RollingBack(p)
    <2>1. PICK r : r = [fr[p] EXCEPT !.pc = "reply", !.tx = "Ambiguous"]
        OBVIOUS
    <2>2. fr' = [fr EXCEPT ![p] = r] /\ fr'[p] = r
        <3>1. fr' = [fr EXCEPT ![p].pc = "reply", ![p].tx = Advance(@, "Ambiguous")]
            BY <1>4 DEF ApplyFails
        <3>2. Advance(fr[p].tx, "Ambiguous") = "Ambiguous"
            BY <1>2, Transitions
        <3> QED
            BY <1>1, <2>1, <3>1, <3>2
    <2>3. /\ r.pc = "reply" /\ r.kind = "restore" /\ r.target = fr[p].target
          /\ r.cur = fr[p].cur /\ r.tx = "Ambiguous"
        BY <1>1, <1>2, <2>1 DEF Frames
    <2>4. r \in Frames
        BY <1>1, <2>1 DEF Frames, Phases, TxStates
    <2>5. Coherent(r) /\ r.pc \in Working
        BY <1>2, <2>3 DEF Coherent, Working, Applying
    <2>6. HolderFacts(p)'
        BY <1>1, <1>2, <2>2, <2>3 DEF HolderFacts, Applying
    <2> QED
        BY <1>2, <1>3, <2>2, <2>4, <2>5, <2>6, WorkerHolds, WorkStep
<1>5. CASE ~RollingBack(p)
    <2>1. Artifacts(fr[p].cur) \in SUBSET Files
        BY DEF Artifacts
    <2>2. fr' = [fr EXCEPT ![p] = [fr[p] EXCEPT !.pc = "apply", !.goal = fr[p].cur,
                                                !.todo = Artifacts(fr[p].cur), !.tx = "Applied"]]
        BY <1>1, <1>2, <1>5 DEF ApplyFails, BeginApply
    <2> QED
        BY <1>2, <1>3, <2>1, <2>2, RewriteStep
<1> QED
    BY <1>4, <1>5

(* The readback. *)
LEMMA VerifyWalkPreserves ==
    ASSUME ManagedInv, NEW p \in Procs, VerifyWalk(p)
    PROVE  ManagedInv'
<1> USE DEF vault, bounds
<1>1. Shared /\ fr \in [Procs -> Frames] /\ Coherent(fr[p]) /\ fr[p] \in Frames /\ HolderFacts(p)
    BY InvSplit
<1>2. /\ fr[p].pc = "trim" /\ fr[p].pc \in Working /\ fr[p].tx = "Applied"
      /\ fr[p].kind = "restore" /\ fr[p].target \in Ids /\ fr[p].cur \in Ids
      /\ fr[p].goal \in {fr[p].target, fr[p].cur} /\ touched' = {}
      /\ UNCHANGED <<managed, live, snap, nextId, aside, fresh, mu, stale, external, crashes>>
    BY <1>1 DEF VerifyWalk, Coherent, Working, Applying
<1>3. Shared'
    BY <1>1, <1>2 DEF Shared
<1>4. PICK r : r = [fr[p] EXCEPT !.pc = "verify", !.specs = Walk, !.todo = Files, !.differs = FALSE]
    OBVIOUS
<1>5. fr' = [fr EXCEPT ![p] = r] /\ fr'[p] = r
    BY <1>1, <1>4 DEF VerifyWalk
<1>6. /\ r.pc = "verify" /\ r.kind = "restore" /\ r.target = fr[p].target /\ r.cur = fr[p].cur
      /\ r.goal = fr[p].goal /\ r.tx = "Applied" /\ r.specs = Walk /\ r.todo = Files
    BY <1>1, <1>2, <1>4 DEF Frames
<1>7. r \in Frames
    <2>1. Walk \in SUBSET Files /\ Files \in SUBSET Files
        BY DEF Walk
    <2> QED
        BY <1>1, <1>4, <2>1 DEF Frames, Phases
<1>8. Coherent(r) /\ r.pc \in Working
    BY <1>2, <1>6 DEF Coherent, Working, Applying
<1>9. Walked(p)'
    BY <1>2, <1>5, <1>6 DEF Walked, Walk, Exists
<1>10. HolderFacts(p)'
    BY <1>1, <1>2, <1>5, <1>6, <1>9 DEF HolderFacts, Applying
<1> QED
    BY <1>2, <1>3, <1>5, <1>7, <1>8, <1>10, WorkerHolds, WorkStep

LEMMA VerifyFilePreserves ==
    ASSUME ManagedInv, NEW p \in Procs, NEW f \in Files, VerifyFile(p, f)
    PROVE  ManagedInv'
<1> USE DEF vault, bounds
<1>1. Shared /\ fr \in [Procs -> Frames] /\ Coherent(fr[p]) /\ fr[p] \in Frames /\ HolderFacts(p)
    BY InvSplit
<1>2. /\ fr[p].pc = "verify" /\ fr[p].pc \in Working /\ fr[p].tx = "Applied"
      /\ fr[p].kind = "restore" /\ fr[p].target \in Ids /\ fr[p].cur \in Ids
      /\ fr[p].goal \in {fr[p].target, fr[p].cur}
      /\ UNCHANGED <<managed, live, snap, nextId, aside, fresh, mu, stale, touched, external, crashes>>
    BY <1>1 DEF VerifyFile, Coherent, Working, Applying
<1>3. Shared'
    BY <1>1, <1>2 DEF Shared
<1>4. PICK D \in BOOLEAN : D <=> fr[p].differs \/ FileDiffers(p, f)
    OBVIOUS
<1>5. PICK r : r = [fr[p] EXCEPT !.todo = @ \ {f}, !.differs = @ \/ FileDiffers(p, f)]
    OBVIOUS
<1>6. fr' = [fr EXCEPT ![p] = r] /\ fr'[p] = r
    BY <1>1, <1>5 DEF VerifyFile
<1>7. /\ r.pc = "verify" /\ r.kind = "restore" /\ r.target = fr[p].target /\ r.cur = fr[p].cur
      /\ r.goal = fr[p].goal /\ r.tx = "Applied" /\ r.specs = fr[p].specs
      /\ r.todo = fr[p].todo \ {f} /\ (r.differs <=> D)
    BY <1>1, <1>2, <1>4, <1>5 DEF Frames
<1>8. r \in Frames
    BY <1>1, <1>5 DEF Frames
<1>9. Coherent(r) /\ r.pc \in Working
    BY <1>2, <1>7 DEF Coherent, Working, Applying
<1>10. Walked(p)'
    BY <1>1, <1>2, <1>6, <1>7 DEF HolderFacts, Walked, Exists
<1>11. ASSUME ~D, NEW g \in Files \ (touched \cup r.todo)
       PROVE  snap[fr[p].goal][g] = managed[g]
    <2>1. ~fr[p].differs /\ ~FileDiffers(p, f)
        BY <1>4, <1>11
    <2>2. CASE g \notin fr[p].todo
        BY <1>1, <1>2, <1>11, <2>1, <2>2 DEF HolderFacts
    <2>3. CASE g = f
        BY <1>1, <1>2, <1>11, <2>1, <2>3 DEF HolderFacts, Walked, FileDiffers, Exists
    <2> QED
        BY <1>7, <1>11, <2>2, <2>3
<1>12. HolderFacts(p)'
    BY <1>1, <1>2, <1>6, <1>7, <1>10, <1>11 DEF HolderFacts, Applying
<1> QED
    BY <1>2, <1>3, <1>6, <1>8, <1>9, <1>12, WorkerHolds, WorkStep

LEMMA MatchesPreserves ==
    ASSUME ManagedInv, NEW p \in Procs, Matches(p)
    PROVE  ManagedInv'
<1> USE DEF vault, bounds
<1>1. Shared /\ fr \in [Procs -> Frames] /\ Coherent(fr[p]) /\ fr[p] \in Frames /\ HolderFacts(p)
    BY InvSplit
<1>2. /\ fr[p].pc = "verify" /\ fr[p].pc \in Working /\ fr[p].tx = "Applied"
      /\ fr[p].kind = "restore" /\ fr[p].target \in Ids /\ fr[p].cur \in Ids
      /\ fr[p].goal \in {fr[p].target, fr[p].cur}
      /\ UNCHANGED <<managed, live, snap, nextId, aside, fresh, mu, stale, touched, external, crashes>>
    BY <1>1 DEF Matches, Coherent, Working, Applying
<1>3. Shared'
    BY <1>1, <1>2 DEF Shared
<1>4. PICK state : state = IF RollingBack(p) THEN "RolledBack" ELSE "Committed"
    OBVIOUS
<1>5. PICK r : r = [fr[p] EXCEPT !.pc = "reply", !.tx = state]
    OBVIOUS
<1>6. fr' = [fr EXCEPT ![p] = r] /\ fr'[p] = r
    <2>1. /\ Advance(fr[p].tx, "RolledBack") = "RolledBack"
          /\ Advance(Advance(fr[p].tx, "Verified"), "Committed") = "Committed"
        BY <1>2, Transitions
    <2>2. fr' = [fr EXCEPT ![p].pc = "reply",
                           ![p].tx = IF RollingBack(p)
                                     THEN Advance(@, "RolledBack")
                                     ELSE Advance(Advance(@, "Verified"), "Committed")]
        BY DEF Matches
    <2>3. CASE RollingBack(p)
        <3>1. fr' = [fr EXCEPT ![p].pc = "reply", ![p].tx = Advance(@, "RolledBack")]
            BY <2>2, <2>3
        <3> QED
            BY <1>1, <1>4, <1>5, <2>1, <2>3, <3>1
    <2>4. CASE ~RollingBack(p)
        <3>1. fr' = [fr EXCEPT ![p].pc = "reply",
                               ![p].tx = Advance(Advance(@, "Verified"), "Committed")]
            BY <2>2, <2>4
        <3> QED
            BY <1>1, <1>4, <1>5, <2>1, <2>4, <3>1
    <2> QED
        BY <2>3, <2>4
<1>7. /\ r.pc = "reply" /\ r.kind = "restore" /\ r.target = fr[p].target /\ r.cur = fr[p].cur
      /\ r.tx = state
    BY <1>1, <1>2, <1>5 DEF Frames
<1>8. r \in Frames
    <2>1. state \in TxStates /\ "reply" \in Phases
        BY <1>4 DEF TxStates, Phases
    <2> QED
        BY <1>1, <1>5, <2>1 DEF Frames
<1>9. Coherent(r) /\ r.pc \in Working
    BY <1>2, <1>4, <1>7 DEF Coherent, Working, Applying
<1>10. Captured(fr[p].goal, managed)
    BY <1>1, <1>2 DEF Matches, HolderFacts, Captured
<1>11. fr[p].goal = IF r.tx = "Committed" THEN r.target ELSE r.cur
    BY <1>2, <1>4, <1>7 DEF RollingBack
<1>12. HolderFacts(p)'
    BY <1>1, <1>2, <1>6, <1>7, <1>10, <1>11 DEF HolderFacts, Applying, Captured
<1> QED
    BY <1>2, <1>3, <1>6, <1>8, <1>9, <1>12, WorkerHolds, WorkStep

LEMMA ReplyPreserves ==
    ASSUME ManagedInv, NEW p \in Procs, Reply(p)
    PROVE  ManagedInv'
<1>1. Shared
    BY InvSplit
<1>2. Shared'
    BY <1>1 DEF Reply, Shared, vault, bounds
<1>3. fr[p].pc \in Working /\ Finish(p)
    BY DEF Reply, Working, Applying
<1> QED
    BY <1>2, <1>3, WorkerHolds, FinishStep

---------------------------------------------------------------------------
(* Other processes and restarts.                                           *)

LEMMA ExternalWritePreserves ==
    ASSUME ManagedInv, NEW f \in Paths, NEW content \in Contents, ExternalWrite(f, content)
    PROVE  ManagedInv'
<1> USE DEF vault, bounds
<1>1. /\ Shared /\ mu \in Procs \cup {None} /\ fr \in [Procs -> Frames]
      /\ \A q \in Procs : mu = q <=> fr[q].pc \in Working
      /\ \A q \in Procs : Coherent(fr[q])
      /\ \A q \in Procs : HolderFacts(q)
    BY InvSplit
<1>2. /\ managed' = [managed EXCEPT ![f] = content] /\ Modify({f})
      /\ touched' = touched \cup {f} /\ external < MaxExternal /\ external' = external + 1
      /\ UNCHANGED <<live, snap, nextId, aside, fresh, mu, fr, crashes>>
    BY DEF ExternalWrite
<1>3. stale' \in [Procs -> BOOLEAN]
    BY <1>1, <1>2, ModifyTyped DEF Shared
<1>4. Shared'
    BY <1>1, <1>2, <1>3, Names, BoundsAssumption DEF Shared
<1>5. \A g \in Files \ touched' : managed'[g] = managed[g]
    BY <1>1, <1>2 DEF Shared
<1>6. \A q \in Procs : stale'[q] => stale[q] \/ fr[q].path \in touched'
    BY <1>2 DEF Modify
<1>7. ASSUME NEW q \in Procs PROVE HolderFacts(q)'
    BY <1>1, <1>2, <1>4, <1>5, <1>6, FactsKept DEF Shared
<1> QED
    BY <1>1, <1>2, <1>4, <1>7 DEF ManagedInv, HandlersInv, TypeOK, HolderAtWork, Shared

LEMMA CrashPreserves ==
    ASSUME ManagedInv, Crash
    PROVE  ManagedInv'
<1> USE DEF vault, bounds
<1>1. Shared
    BY InvSplit
<1>2. /\ fr' = [p \in Procs |-> Blank] /\ mu' = None /\ aside' = None
      /\ crashes < MaxCrashes /\ crashes' = crashes + 1
      /\ UNCHANGED <<managed, live, snap, nextId, fresh, stale, touched, external>>
    BY DEF Crash
<1>3. Shared'
    BY <1>1, <1>2, BoundsAssumption DEF Shared
<1>4. \A p \in Procs : fr'[p] = Blank /\ fr'[p].pc \notin Working
    BY <1>2, RestingFrames DEF Working, Applying
<1>5. fr' \in [Procs -> Frames] /\ \A p \in Procs : Coherent(fr'[p])
    BY <1>2, <1>4, RestingFrames
<1>6. ASSUME NEW p \in Procs PROVE HolderFacts(p)'
    BY <1>4 DEF HolderFacts, Working, Applying
<1>7. \A p \in Procs : mu' = p <=> fr'[p].pc \in Working
    BY <1>2, <1>4, Names
<1> QED
    BY <1>2, <1>3, <1>5, <1>6, <1>7 DEF ManagedInv, HandlersInv, TypeOK, HolderAtWork, Shared

---------------------------------------------------------------------------
(* The theorems.                                                           *)

(* routerforge-admin starts with an empty vault and no handler at work. *)
LEMMA InitEstablishesInv == Init => ManagedInv
<1> SUFFICES ASSUME Init PROVE ManagedInv
    OBVIOUS
<1>1. Shared
    BY BoundsAssumption DEF Init, Shared, Ids
<1>2. \A p \in Procs : fr[p] = Blank /\ fr[p].pc \notin Working
    BY RestingFrames DEF Init, Working, Applying
<1>3. fr \in [Procs -> Frames] /\ \A p \in Procs : Coherent(fr[p])
    BY <1>2, RestingFrames DEF Init
<1>4. mu = None /\ \A p \in Procs : mu = p <=> fr[p].pc \in Working
    BY <1>2, Names DEF Init
<1>5. \A p \in Procs : HolderFacts(p)
    BY <1>2, NoFacts
<1> QED
    BY <1>1, <1>3, <1>4, <1>5, InvSplit

(* Every step of every handler, of other processes and of a restart keeps  *)
(* the invariant.                                                          *)
LEMMA NextPreservesInv == ManagedInv /\ [Next]_vars => ManagedInv'
<1> SUFFICES ASSUME ManagedInv, [Next]_vars PROVE ManagedInv'
    OBVIOUS
<1>1. ASSUME NEW p \in Procs, NEW f \in Paths, NEW source \in Paths, StageCopy(p, source, f)
      PROVE  ManagedInv'
    <2>1. managed[source] \in Contents
        BY <1>1, InvSplit, Names DEF StageCopy, Exists, Shared
    <2>2. "create" \in Staged
        BY DEF Staged
    <2> QED
        BY <1>1, <2>1, <2>2, StageWritePreserves DEF StageCopy
<1>2. ASSUME NEW p \in Procs, NEW f \in Paths, NEW k \in {"delete", "chmod"},
             RequestMutation(p, k, f, None)
      PROVE  ManagedInv'
    <2>1. k \in Kinds /\ k \notin Staged
        BY DEF Kinds, Staged
    <2> QED
        BY <1>2, <2>1, RequestPreserves DEF RequestMutation
<1>3. ASSUME NEW p \in Procs, NEW f \in Paths, NEW d \in Paths, NEW k \in {"move", "moveDir"},
             RequestMutation(p, k, f, d)
      PROVE  ManagedInv'
    <2>1. k \in Kinds /\ k \notin Staged
        BY DEF Kinds, Staged
    <2> QED
        BY <1>3, <2>1, RequestPreserves DEF RequestMutation
<1>4. ASSUME NEW p \in Procs, RequestCapture(p) \/ RequestArchive(p)
      PROVE  ManagedInv'
    <2>1. /\ "capture" \in Kinds /\ "capture" \notin Staged
          /\ "archive" \in Kinds /\ "archive" \notin Staged
        BY DEF Kinds, Staged
    <2> QED
        BY <1>4, <2>1, RequestPreserves DEF RequestCapture, RequestArchive
<1>5. ASSUME NEW p \in Procs, Progress(p)
      PROVE  ManagedInv'
    BY <1>5, CapturePreserves, MutatePreserves, CleanupPreserves, SwapAsidePreserves,
        SwapEndPreserves, ValidatePreserves, ApplyPreserves, VerifyFilePreserves,
        VerifyWalkPreserves, MatchesPreserves, ReplyPreserves
    DEF Progress
<1>6. ASSUME NEW p \in Procs, StageFails(p) \/ UnderLockFails(p)
      PROVE  ManagedInv'
    BY <1>6, CleanupPreserves, CaptureFailsPreserves, MutatePreserves, SwapEndPreserves,
        ApplyFailsPreserves
    DEF UnderLockFails
<1>7. CASE UNCHANGED vars
    <2>1. Shared' /\ \A q \in Procs : HolderFacts(q)'
        BY <1>7, InvSplit
        DEF vars, Shared, HolderFacts, Walked, Checked, Captured, PreconditionHolds, Changed, Exists
    <2> QED
        BY <1>7, <2>1, InvSplit
        DEF vars, ManagedInv, HandlersInv, TypeOK, HolderAtWork, Shared
<1> QED
    BY <1>1, <1>2, <1>3, <1>4, <1>5, <1>6, <1>7, StageWritePreserves, RequestRestorePreserves,
        LockPreserves, ExternalWritePreserves, CrashPreserves
    DEF Next

(* The invariant of the handlers: what the holder of the mutex knows in    *)
(* each phase, whatever the others, other processes and restarts do.       *)
THEOREM ManagedInvariant == Spec => []ManagedInv
BY InitEstablishesInv, NextPreservesInv, PTL DEF Spec

(* The mutex is held by exactly the handler between its lock and its       *)
(* reply, and all state is of its type.                                    *)
THEOREM HandlersInvAlways == Spec => []HandlersInv
<1>1. ManagedInv => HandlersInv
    BY DEF ManagedInv
<1> QED
    BY <1>1, ManagedInvariant, PTL

(* No handler changes the configuration before the vault holds what is     *)
(* there, and a restore's safety snapshot outlives the restore.            *)
THEOREM PrechangeCapturedAlways == Spec => []PrechangeCaptured
<1>1. ManagedInv => PrechangeCaptured
    BY DEF ManagedInv, HolderFacts, Captured, PrechangeCaptured
<1> QED
    BY <1>1, ManagedInvariant, PTL

(* The precondition checked under the mutex still holds when the file is   *)
(* changed, unless the file was written without the mutex meanwhile.       *)
THEOREM NoLostUpdateAlways == Spec => []NoLostUpdate
<1>1. ManagedInv => NoLostUpdate
    BY DEF ManagedInv, HolderFacts, Checked, NoLostUpdate
<1> QED
    BY <1>1, ManagedInvariant, PTL

(* A restore that answers Committed or RolledBack left exactly the target  *)
(* or the safety snapshot, up to writes without the mutex.                 *)
THEOREM OutcomeTruthfulAlways == Spec => []OutcomeTruthful
<1>1. ManagedInv => OutcomeTruthful
    BY DEF ManagedInv, HolderFacts, Captured, OutcomeTruthful
<1> QED
    BY <1>1, ManagedInvariant, PTL

(* The response of a restore never carries a state that is not terminal. *)
THEOREM OutcomeDecidedAlways == Spec => []OutcomeDecided
<1>1. ManagedInv => OutcomeDecided
    BY DEF ManagedInv, Coherent, OutcomeDecided, TxTerminal
<1> QED
    BY <1>1, ManagedInvariant, PTL
====
