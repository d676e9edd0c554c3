---- MODULE NfqwsManagerProofs ----
(***************************************************************************)
(* Proofs about the handlers of the NFQWS manager, for every number of     *)
(* requests, lists, configs and faults: configs never lose the lists they  *)
(* name, renames exclude each other, and a request that runs alone answers *)
(* what is the case.                                                       *)
(***************************************************************************)
EXTENDS NfqwsManager, TLAPS

(* The types of everything but the frames, the lock and the count of       *)
(* requests.                                                               *)
Shared ==
    /\ conf \in [Configs -> (SUBSET Lists) \cup {Absent}] /\ conf[Active] # Absent
    /\ list \in [Lists -> Payloads \cup {Absent}]
    /\ loaded \in (SUBSET Lists) \cup {Absent, None}
    /\ since \in [Procs -> SUBSET Configs] /\ excused \in SUBSET Configs
    /\ faults \in 0..MaxFaults

(* The fields of a frame that say what the request is about. *)
SameTask(r, o) ==
    /\ r.kind = o.kind /\ r.old = o.old /\ r.new = o.new /\ r.pay = o.pay /\ r.want = o.want
    /\ r.snap = o.snap /\ r.was = o.was

(* The config written next, and the one put back next, remain to be done. *)
LEMMA ConfigFacts ==
    ASSUME NEW o, o.left # {}
    PROVE  NextConfig(o) \in o.left /\ LastConfig(o) \in o.left
<1>1. \E c \in o.left : c = Active => o.left = {Active}
    OBVIOUS
<1>2. NextConfig(o) \in o.left
    BY <1>1, Zenon DEF NextConfig
<1>3. LastConfig(o) \in o.left
    <2>1. \E c \in o.left : TRUE
        OBVIOUS
    <2>2. (CHOOSE c \in o.left : TRUE) \in o.left
        BY <2>1, Zenon
    <2> QED
        BY <2>2 DEF LastConfig
<1> QED
    BY <1>2, <1>3

LEMMA SnapFacts ==
    ASSUME NEW f
    PROVE  f \in Snaps <=> \E S \in SUBSET Configs : f \in [S -> SUBSET Lists]
BY DEF Snaps

(* A request that has not begun, or has returned. *)
LEMMA BlankFrame ==
    /\ Blank \in Frames /\ Blank.phase = "idle" /\ Blank.kind = "none" /\ Coherent(Blank)
    /\ Facts(Blank) /\ Facts(Blank)'
<1>1. [c \in {} |-> {}] \in Snaps
    <2>1. [c \in {} |-> {}] \in [{} -> SUBSET Lists]
        OBVIOUS
    <2> QED
        BY <2>1, SnapFacts
<1>2. Blank \in Frames
    BY <1>1 DEF Blank, Frames, Kinds, Switching, Phases
<1>3. Blank.phase = "idle" /\ Blank.kind = "none" /\ Blank.was = FALSE /\ Blank.answer = None
    BY DEF Blank
<1>4. Coherent(Blank)
    BY <1>3, NfqwsAssumption DEF Answers, Coherent, Switching
<1>5. Facts(Blank) /\ Facts(Blank)'
    BY <1>3 DEF Facts, RenameFacts, SwitchFacts, Switching
<1> QED
    BY <1>2, <1>3, <1>4, <1>5

(* How the lock goes with a request that becomes r. *)
LockStep(p, r) ==
    \/ mu' = mu /\ (Locked(r) <=> Locked(op[p]))
    \/ mu' = (IF mu = p THEN None ELSE mu) /\ ~Locked(r)
    \/ mu = None /\ mu' = p /\ Locked(r)

(* One request takes a step.  If it runs alone, it is the only one that    *)
(* has to know what it knew; if it does not, no request that runs alone is *)
(* at work.                                                                *)
LEMMA StepKeeps ==
    ASSUME NfqwsInv, NEW p \in Procs, op[p] # Blank, NEW r \in Frames, Coherent(r),
           op' = [op EXCEPT ![p] = r], UNCHANGED <<alone, ops>>, Shared', LockStep(p, r),
           \A q \in Procs \ {p} :
                /\ At(q, "unlink") => References(op[q].old)' \subseteq since'[q]
                /\ At(q, "unlinkNew") => References(op[q].new)' \subseteq since'[q],
           r.phase = "unlink" => References(r.old)' \subseteq since'[p],
           r.phase = "unlinkNew" => References(r.new)' \subseteq since'[p],
           RefsResolve', alone[p] => Facts(r)'
    PROVE  NfqwsInv'
<1>1. /\ TypeOK /\ LockHeld /\ Solo /\ \A q \in Procs : Coherent(op[q]) /\ (alone[q] => Facts(op[q]))
      /\ op \in [Procs -> Frames] /\ None \notin Procs
    BY NfqwsAssumption DEF NfqwsInv, FilesInv, TypeOK
<1>2. op' \in [Procs -> Frames] /\ op'[p] = r /\ \A q \in Procs : q # p => op'[q] = op[q]
    BY <1>1
<1>3. TypeOK'
    <2>1. mu' \in Procs \cup {None}
        BY <1>1 DEF LockStep, TypeOK
    <2> QED
        BY <1>1, <1>2, <2>1 DEF TypeOK, Shared
<1>4. \A q \in Procs : Coherent(op'[q])
    BY <1>1, <1>2
<1>5. LockHeld'
    BY <1>1, <1>2 DEF LockHeld, LockStep
<1>6. Looked'
    BY <1>2 DEF Looked, At
<1>7. Solo'
    BY <1>1, <1>2 DEF Solo
<1>8. ASSUME NEW q \in Procs, alone'[q] PROVE Facts(op[q])'
    <2>1. CASE q = p
        BY <1>2, <1>8, <2>1
    <2>2. CASE q # p
        <3>1. op[q] = Blank
            BY <1>1, <1>8, <2>2 DEF Solo
        <3>2. op'[q] = Blank
            BY <1>2, <2>2, <3>1
        <3>3. PICK b : b = Blank
            OBVIOUS
        <3>4. Facts(b)'
            BY <3>3, BlankFrame
        <3> QED
            BY <3>2, <3>3, <3>4
    <2> QED
        BY <2>1, <2>2
<1> QED
    BY <1>3, <1>4, <1>5, <1>6, <1>7, <1>8 DEF NfqwsInv, FilesInv

(* A step that changes no file. *)
LEMMA QuietKeeps ==
    ASSUME NfqwsInv, NEW p \in Procs, op[p] # Blank, NEW r \in Frames, Coherent(r),
           op' = [op EXCEPT ![p] = r], UNCHANGED <<alone, ops, conf, list, excused>>,
           Shared', LockStep(p, r), \A q \in Procs \ {p} : since'[q] = since[q],
           r.phase = "unlink" => References(r.old) = {},
           r.phase = "unlinkNew" => References(r.new) = {},
           alone[p] => Facts(r)'
    PROVE  NfqwsInv'
<1>1. Looked /\ RefsResolve
    BY DEF NfqwsInv, FilesInv
<1>2. RefsResolve'
    BY <1>1 DEF RefsResolve, Exists
<1>3. \A l : References(l)' = References(l)
    BY DEF References
<1>4. \A q \in Procs \ {p} :
        /\ At(q, "unlink") => References(op[q].old)' \subseteq since'[q]
        /\ At(q, "unlinkNew") => References(op[q].new)' \subseteq since'[q]
    BY <1>1 DEF Looked, References
<1>5. /\ r.phase = "unlink" => References(r.old)' \subseteq since'[p]
      /\ r.phase = "unlinkNew" => References(r.new)' \subseteq since'[p]
    BY <1>3
<1> QED
    BY <1>2, <1>4, <1>5, StepKeeps

(* The ways a frame changes. *)
Moved(o, phase)  == [o EXCEPT !.phase = phase]
Answered(o, a)   == [o EXCEPT !.phase = "done", !.answer = a]
GivenUp(o, left) == [o EXCEPT !.phase = "undo", !.left = left]

LEMMA MoveFrame ==
    ASSUME NEW o \in Frames, NEW phase \in Phases, NEW r, r = Moved(o, phase)
    PROVE  /\ r \in Frames /\ r.phase = phase /\ SameTask(r, o) /\ r.before = o.before
           /\ r.left = o.left /\ r.mod = o.mod /\ r.bad = o.bad /\ r.answer = o.answer
BY DEF Frames, SameTask, Moved

LEMMA AnswerFrame ==
    ASSUME NEW o \in Frames, NEW a \in Answers, NEW r, r = Answered(o, a)
    PROVE  /\ r \in Frames /\ r.phase = "done" /\ SameTask(r, o) /\ r.before = o.before
           /\ r.left = o.left /\ r.mod = o.mod /\ r.bad = o.bad /\ r.answer = a
BY DEF Frames, SameTask, Phases, Answered

LEMMA UndoFrame ==
    ASSUME NEW o \in Frames, NEW left \in SUBSET Configs, NEW r, r = GivenUp(o, left)
    PROVE  /\ r \in Frames /\ r.phase = "undo" /\ SameTask(r, o) /\ r.before = o.before
           /\ r.left = left /\ r.mod = o.mod /\ r.bad = o.bad /\ r.answer = o.answer
BY DEF Frames, SameTask, Phases, GivenUp

(* A handler answers without having changed a file. *)
LEMMA AnswerKeeps ==
    ASSUME NfqwsInv, NEW p \in Procs, op[p] # Blank, NEW a \in Answers, Answer(p, a),
           UNCHANGED <<conf, list, excused, since>>, Shared',
           a = "rolled_back" => op[p].kind \in Switching \cup {"rename"},
           NEW o, o = op[p], NEW r, r = Answered(o, a),
           alone[p] => Truthful(r)'
    PROVE  NfqwsInv'
<1>1. o \in Frames /\ Coherent(o)
    BY DEF NfqwsInv, FilesInv, TypeOK
<1>2. /\ r \in Frames /\ r.phase = "done" /\ SameTask(r, o) /\ r.before = o.before
      /\ r.left = o.left /\ r.mod = o.mod /\ r.bad = o.bad /\ r.answer = a
    BY <1>1, AnswerFrame
<1>3. /\ op' = [op EXCEPT ![p] = r] /\ UNCHANGED <<alone, ops>>
      /\ mu' = IF mu = p THEN None ELSE mu
    BY DEF Answer, Set, Answered
<1>4. LockStep(p, r)
    BY <1>2, <1>3 DEF LockStep, Locked
<1>5. Coherent(r)
    BY <1>1, <1>2 DEF Coherent, SameTask, Switching
<1>6. alone[p] => Facts(r)'
    BY <1>2 DEF Facts, RenameFacts, SwitchFacts
<1> QED
    BY <1>2, <1>3, <1>4, <1>5, <1>6, QuietKeeps

(* An error says nothing. *)
LEMMA ErrorKeeps ==
    ASSUME NfqwsInv, NEW p \in Procs, op[p] # Blank, Answer(p, "error"),
           UNCHANGED <<conf, list, excused, since>>, Shared'
    PROVE  NfqwsInv'
<1>1. PICK o : o = op[p]
    OBVIOUS
<1>2. PICK r : r = Answered(o, "error")
    OBVIOUS
<1>3. "error" \in Answers /\ "error" # "rolled_back"
    BY DEF Answers
<1>4. r.answer = "error"
    <2>1. o \in Frames
        BY <1>1 DEF NfqwsInv, FilesInv, TypeOK
    <2> QED
        BY <1>2, <1>3, <2>1, AnswerFrame
<1>5. Truthful(r)'
    BY <1>4 DEF Truthful
<1> QED
    BY <1>1, <1>2, <1>3, <1>5, AnswerKeeps

(* A rename or a handler that replaces the active config gives up: what it *)
(* did not write is as it was.                                             *)
LEMMA UndoKeeps ==
    ASSUME NfqwsInv, NEW p \in Procs, op[p] # Blank, Undo(p),
           UNCHANGED <<conf, list, excused, since, mu>>, Shared',
           \/ op[p].kind = "rename" /\ op[p].phase \in {"check", "restart", "verify", "unlink"}
           \/ op[p].kind \in Switching /\ op[p].phase \in {"restart", "verify"}
    PROVE  NfqwsInv'
<1>1. op[p] \in Frames /\ Coherent(op[p]) /\ (alone[p] => Facts(op[p]))
    BY DEF NfqwsInv, FilesInv, TypeOK
<1>2. PICK o \in Frames : o = op[p]
    BY <1>1
<1>3. PICK r : r = GivenUp(o, o.mod)
    OBVIOUS
<1>4. /\ r \in Frames /\ r.phase = "undo" /\ SameTask(r, o) /\ r.before = o.before
      /\ r.left = o.mod /\ r.mod = o.mod /\ r.bad = o.bad /\ r.answer = o.answer
    <2>1. o.mod \in SUBSET Configs
        BY DEF Frames
    <2> QED
        BY <1>3, <2>1, UndoFrame
<1>5. op' = [op EXCEPT ![p] = r] /\ UNCHANGED <<alone, ops>>
    BY <1>2, <1>3 DEF Undo, Set, GivenUp
<1>6. Coherent(r)
    BY <1>1, <1>2, <1>4 DEF Coherent, SameTask, Switching
<1>7. LockStep(p, r)
    BY <1>2, <1>4 DEF LockStep, Locked, SameTask, Switching
<1>8. ASSUME alone[p] PROVE Facts(r)'
    <2>1. Facts(o)
        BY <1>1, <1>2, <1>8
    <2>2. CASE o.kind = "rename"
        <3>1. RenameFacts(r)'
            BY <1>2, <1>4, <2>1, <2>2
            DEF Facts, RenameFacts, SameTask, Updated, References
        <3> QED
            BY <1>4, <2>2, <3>1 DEF Facts, SwitchFacts, SameTask, Switching
    <2>3. CASE o.kind \in Switching
        BY <1>4, <2>3 DEF Facts, RenameFacts, SwitchFacts, SameTask, Switching
    <2> QED
        BY <1>2, <2>2, <2>3
<1> QED
    BY <1>4, <1>5, <1>6, <1>7, <1>8, QuietKeeps

---------------------------------------------------------------------------
(* What the steps do to the files.                                         *)

LEMMA AtWork ==
    ASSUME NfqwsInv, NEW p \in Procs, op[p].phase # "idle"
    PROVE  /\ op[p] \in Frames /\ Coherent(op[p]) /\ op[p] # Blank /\ Shared
           /\ alone[p] => Facts(op[p])
           /\ mu = p <=> Locked(op[p])
BY BlankFrame DEF NfqwsInv, FilesInv, TypeOK, Shared, LockHeld

LEMMA QuietTypes ==
    ASSUME Shared, UNCHANGED <<conf, list, excused, since>>, Works \/ Fails,
           loaded' \in {loaded, conf[Active], None}
    PROVE  Shared'
<1>1. faults' \in 0..MaxFaults
    BY NfqwsAssumption DEF Shared, Works, Fails
<1>2. loaded' \in (SUBSET Lists) \cup {Absent, None}
    BY DEF Shared, Configs
<1> QED
    BY <1>1, <1>2 DEF Shared

(* A config is replaced or removed. *)
LEMMA PutKeeps ==
    ASSUME NfqwsInv, NEW p \in Procs, op[p] # Blank, NEW c \in Configs,
           NEW x \in (SUBSET Lists) \cup {Absent}, c = Active => x \in SUBSET Lists,
           Put(p, c, x), UNCHANGED loaded, Works,
           NEW r \in Frames, Coherent(r), op' = [op EXCEPT ![p] = r], UNCHANGED <<alone, ops>>,
           LockStep(p, r), r.phase \notin {"unlink", "unlinkNew"}, alone[p] => Facts(r)'
    PROVE  NfqwsInv'
<1>1. TypeOK /\ Looked /\ RefsResolve
    BY DEF NfqwsInv, FilesInv
<1>2. /\ conf' = [conf EXCEPT ![c] = x] /\ list' = list
      /\ excused' = IF x # Absent /\ \E l \in x : ~Exists(l) THEN excused \cup {c} ELSE excused \ {c}
      /\ since' = [q \in Procs |-> IF q # p /\ op[q].phase \in {"unlink", "unlinkNew"}
                                   THEN since[q] \cup {c} ELSE since[q]]
    BY DEF Put
<1>3. conf'[c] = x /\ \A d \in Configs : d # c => conf'[d] = conf[d]
    BY <1>1, <1>2 DEF TypeOK
<1>4. Shared'
    <2>1. conf'[Active] # Absent
        BY <1>1, <1>3, NfqwsAssumption DEF TypeOK, Configs
    <2> QED
        BY <1>1, <1>2, <2>1 DEF TypeOK, Shared, Works
<1>5. \A l : References(l)' \subseteq References(l) \cup {c}
    BY <1>3 DEF References
<1>6. \A q \in Procs \ {p} :
        /\ At(q, "unlink") => References(op[q].old)' \subseteq since'[q]
        /\ At(q, "unlinkNew") => References(op[q].new)' \subseteq since'[q]
    <2> SUFFICES ASSUME NEW q \in Procs, q # p
                 PROVE  /\ At(q, "unlink") => References(op[q].old)' \subseteq since'[q]
                        /\ At(q, "unlinkNew") => References(op[q].new)' \subseteq since'[q]
        OBVIOUS
    <2>1. op'[q] = op[q]
        BY <1>1 DEF TypeOK
    <2>2. op[q].phase \in {"unlink", "unlinkNew"} => since'[q] = since[q] \cup {c}
        BY <1>2
    <2>3. /\ At(q, "unlink") => References(op[q].old) \subseteq since[q]
          /\ At(q, "unlinkNew") => References(op[q].new) \subseteq since[q]
        BY <1>1 DEF Looked
    <2>4. PICK l, k : l = op[q].old /\ k = op[q].new
        OBVIOUS
    <2>5. References(op[q].old)' = References(l)' /\ References(op[q].new)' = References(k)'
        BY <2>1, <2>4
    <2> QED
        BY <1>5, <2>2, <2>3, <2>4, <2>5 DEF At
<1>7. RefsResolve'
    BY <1>1, <1>2, <1>3 DEF RefsResolve, Exists
<1> QED
    BY <1>4, <1>6, <1>7, StepKeeps

(* A list is created or replaced. *)
LEMMA ListKeeps ==
    ASSUME NfqwsInv, NEW p \in Procs, op[p] # Blank, NEW l \in Lists, NEW v \in Payloads,
           list' = [list EXCEPT ![l] = v], UNCHANGED <<conf, excused, since, loaded>>, Works,
           NEW r \in Frames, Coherent(r), op' = [op EXCEPT ![p] = r], UNCHANGED <<alone, ops>>,
           LockStep(p, r), r.phase \notin {"unlink", "unlinkNew"}, alone[p] => Facts(r)'
    PROVE  NfqwsInv'
<1>1. TypeOK /\ Looked /\ RefsResolve
    BY DEF NfqwsInv, FilesInv
<1>2. v # Absent /\ list'[l] = v /\ \A k \in Lists : k # l => list'[k] = list[k]
    BY <1>1, NfqwsAssumption DEF TypeOK
<1>3. Shared'
    BY <1>1 DEF TypeOK, Shared, Works
<1>4. RefsResolve'
    <2>1. \A k \in Lists : Exists(k) => Exists(k)'
        BY <1>2 DEF Exists
    <2>2. \A c \in Configs : conf[c] # Absent => conf[c] \subseteq Lists
        BY <1>1 DEF TypeOK
    <2> QED
        BY <1>1, <2>1, <2>2 DEF RefsResolve
<1>5. \A q \in Procs \ {p} :
        /\ At(q, "unlink") => References(op[q].old)' \subseteq since'[q]
        /\ At(q, "unlinkNew") => References(op[q].new)' \subseteq since'[q]
    BY <1>1 DEF Looked, References, TypeOK
<1> QED
    BY <1>3, <1>4, <1>5, StepKeeps

(* A list goes: every config that names it is excused. *)
LEMMA GoneKeeps ==
    ASSUME NfqwsInv, NEW p \in Procs, op[p] # Blank, NEW l \in Lists,
           list' = [list EXCEPT ![l] = Absent], excused' = excused \cup References(l),
           UNCHANGED <<conf, loaded>>, Works,
           since' \in [Procs -> SUBSET Configs], \A q \in Procs \ {p} : since'[q] = since[q],
           NEW r \in Frames, Coherent(r), op' = [op EXCEPT ![p] = r], UNCHANGED <<alone, ops>>,
           LockStep(p, r), r.phase \notin {"unlink", "unlinkNew"}, alone[p] => Facts(r)'
    PROVE  NfqwsInv'
<1>1. TypeOK /\ Looked /\ RefsResolve
    BY DEF NfqwsInv, FilesInv
<1>2. \A k \in Lists : k # l => list'[k] = list[k]
    BY <1>1 DEF TypeOK
<1>3. Shared'
    BY <1>1 DEF TypeOK, Shared, Works, References
<1>4. RefsResolve'
    <2> SUFFICES ASSUME NEW c \in Configs \ excused', conf[c] # Absent, NEW k \in conf[c]
                 PROVE  list'[k] # Absent
        BY DEF RefsResolve, Exists
    <2>1. c \notin excused /\ c \notin References(l)
        OBVIOUS
    <2>2. k # l
        BY <2>1 DEF References
    <2>3. k \in Lists /\ list[k] # Absent
        BY <1>1, <2>1 DEF RefsResolve, Exists, TypeOK
    <2> QED
        BY <1>2, <2>2, <2>3
<1>5. \A q \in Procs \ {p} :
        /\ At(q, "unlink") => References(op[q].old)' \subseteq since'[q]
        /\ At(q, "unlinkNew") => References(op[q].new)' \subseteq since'[q]
    BY <1>1 DEF Looked, References, TypeOK
<1> QED
    BY <1>3, <1>4, <1>5, StepKeeps

---------------------------------------------------------------------------
(* The rename.                                                             *)

LEMMA PlanKeeps ==
    ASSUME NfqwsInv, NEW p \in Procs, Plan(p)
    PROVE  NfqwsInv'
<1>1. op[p].phase = "plan" /\ mu = None /\ UNCHANGED <<conf, list, excused, loaded, since>>
    BY DEF Plan, At, files
<1>2. PICK o : o = op[p]
    OBVIOUS
<1>3. o \in Frames /\ Coherent(o) /\ op[p] # Blank /\ Shared /\ (alone[p] => Facts(o))
    BY <1>1, <1>2, AtWork
<1>4. Shared'
    BY <1>1, <1>3, QuietTypes DEF Plan
<1>5. CASE Answer(p, "error")
    BY <1>1, <1>3, <1>4, <1>5, ErrorKeeps
<1>6. ASSUME NEW was \in BOOLEAN, mu' = p,
             list[o.old] = o.pay, Previewed(o.old, o.new), Snapshots(o.old) = o.snap,
             Set(p, [o EXCEPT !.phase = "copy", !.was = was])
      PROVE  NfqwsInv'
    <2>1. PICK r : r = [o EXCEPT !.phase = "copy", !.was = was]
        OBVIOUS
    <2>2. /\ r \in Frames /\ r.phase = "copy" /\ r.kind = o.kind /\ r.old = o.old /\ r.new = o.new
          /\ r.pay = o.pay /\ r.want = o.want /\ r.snap = o.snap /\ r.before = o.before
          /\ r.mod = o.mod /\ r.answer = o.answer
        BY <1>3, <2>1 DEF Frames, Phases
    <2>3. op' = [op EXCEPT ![p] = r] /\ UNCHANGED <<alone, ops>>
        BY <1>6, <2>1 DEF Set
    <2>4. Coherent(r) /\ r.kind = "rename"
        BY <1>1, <1>2, <1>3, <2>2 DEF Coherent, Switching
    <2>5. LockStep(p, r)
        BY <1>1, <1>6, <2>2, <2>4 DEF LockStep, Locked
    <2>6. Facts(r)'
        <3>1. RenameFacts(r)'
            BY <1>1, <1>6, <2>2 DEF RenameFacts, Previewed, Snapshots, References, Exists
        <3> QED
            BY <2>2, <2>4, <3>1 DEF Facts, SwitchFacts, Switching
    <2> QED
        BY <1>1, <1>3, <1>4, <2>2, <2>3, <2>4, <2>5, <2>6, QuietKeeps
<1> QED
    BY <1>2, <1>5, <1>6 DEF Plan

LEMMA CopyKeeps ==
    ASSUME NfqwsInv, NEW p \in Procs, Copy(p)
    PROVE  NfqwsInv'
<1>1. op[p].phase = "copy" /\ UNCHANGED <<conf, excused, loaded, since>>
    BY DEF Copy, At
<1>2. PICK o : o = op[p]
    OBVIOUS
<1>3. o \in Frames /\ Coherent(o) /\ op[p] # Blank /\ Shared /\ (alone[p] => Facts(o))
    BY <1>1, <1>2, AtWork
<1>4. /\ o.kind = "rename" /\ o.old \in Lists /\ o.new \in Lists /\ o.pay \in Payloads
      /\ o.pay # Absent /\ o.mod = {}
    BY <1>1, <1>2, <1>3, NfqwsAssumption DEF Coherent, Switching
<1>5. CASE Answer(p, "error") /\ UNCHANGED list /\ (Works \/ Fails)
    <2>1. Shared'
        BY <1>1, <1>3, <1>5, QuietTypes
    <2> QED
        BY <1>1, <1>3, <1>5, <2>1, ErrorKeeps
<1>6. ASSUME ~Exists(o.new), Works, list' = [list EXCEPT ![o.new] = o.pay], UNCHANGED mu,
             Set(p, [o EXCEPT !.phase = IF DOMAIN o.snap = {} THEN "verify" ELSE "check",
                              !.left = DOMAIN o.snap])
      PROVE  NfqwsInv'
    <2>1. PICK phase : phase = IF DOMAIN o.snap = {} THEN "verify" ELSE "check"
        OBVIOUS
    <2>2. PICK left : left = DOMAIN o.snap
        OBVIOUS
    <2>3. PICK r : r = [o EXCEPT !.phase = phase, !.left = left]
        OBVIOUS
    <2>4. phase \in Phases /\ left \in SUBSET Configs
        BY <1>3, <2>1, <2>2, SnapFacts DEF Frames, Phases
    <2>5. /\ r \in Frames /\ r.phase = phase /\ SameTask(r, o) /\ r.before = o.before
          /\ r.left = left /\ r.mod = o.mod /\ r.bad = o.bad /\ r.answer = o.answer
        BY <1>3, <2>3, <2>4 DEF Frames, SameTask
    <2>6. op' = [op EXCEPT ![p] = r] /\ UNCHANGED <<alone, ops>>
        BY <1>6, <2>1, <2>2, <2>3 DEF Set
    <2>7. Coherent(r)
        BY <1>1, <1>2, <1>3, <1>4, <2>1, <2>2, <2>5 DEF Coherent, SameTask, Switching
    <2>8. LockStep(p, r)
        BY <1>1, <1>2, <1>4, <1>6, <2>1, <2>5 DEF LockStep, Locked, SameTask
    <2>9. r.phase \notin {"unlink", "unlinkNew"}
        BY <2>1, <2>5
    <2>10. ASSUME alone[p] PROVE Facts(r)'
        <3>1. /\ list[o.old] = o.pay /\ o.old # o.new /\ References(o.new) = {}
              /\ o.snap = [c \in References(o.old) |-> conf[c]]
            BY <1>1, <1>2, <1>3, <1>4, <2>10 DEF Facts, RenameFacts, Previewed, Snapshots
        <3>2. list'[o.old] = o.pay /\ list'[o.new] = o.pay
            BY <1>3, <1>4, <1>6, <3>1 DEF Shared
        <3>3. References(o.old)' = References(o.old) /\ References(o.new)' = {}
            BY <1>1, <3>1 DEF References
        <3>4. DOMAIN o.snap = References(o.old)
            BY <3>1
        <3>5. \A c \in DOMAIN o.snap : o.old \in o.snap[c] /\ o.new \notin o.snap[c] /\ conf[c] = o.snap[c]
            BY <3>1 DEF References
        <3>6. ~Restarts(r)
            BY <1>4, <2>5 DEF Restarts
        <3>7. RenameFacts(r)'
            BY <1>1, <1>4, <2>1, <2>2, <2>5, <3>1, <3>2, <3>3, <3>4, <3>5, <3>6
            DEF RenameFacts, SameTask
        <3> QED
            BY <1>4, <2>1, <2>5, <3>7 DEF Facts, SwitchFacts, SameTask, Switching
    <2> QED
        BY <1>1, <1>3, <1>4, <1>6, <2>5, <2>6, <2>7, <2>8, <2>9, <2>10, ListKeeps
<1> QED
    BY <1>2, <1>5, <1>6 DEF Copy

LEMMA CheckKeeps ==
    ASSUME NfqwsInv, NEW p \in Procs, Check(p)
    PROVE  NfqwsInv'
<1>1. op[p].phase = "check" /\ UNCHANGED <<conf, list, excused, loaded, mu, since, faults>>
    BY DEF Check, At, files
<1>2. PICK o : o = op[p]
    OBVIOUS
<1>3. o \in Frames /\ Coherent(o) /\ op[p] # Blank /\ Shared /\ (alone[p] => Facts(o))
    BY <1>1, <1>2, AtWork
<1>4. Shared' /\ o.kind = "rename"
    BY <1>1, <1>2, <1>3 DEF Shared, Coherent, Switching
<1>5. CASE Undo(p)
    BY <1>1, <1>2, <1>3, <1>4, <1>5, UndoKeeps
<1>6. CASE Go(p, "write")
    <2>1. PICK r : r = Moved(o, "write")
        OBVIOUS
    <2>2. "write" \in Phases
        BY DEF Phases
    <2>3. /\ r \in Frames /\ r.phase = "write" /\ SameTask(r, o) /\ r.before = o.before
          /\ r.left = o.left /\ r.mod = o.mod /\ r.bad = o.bad /\ r.answer = o.answer
        BY <1>3, <2>1, <2>2, MoveFrame
    <2>4. op' = [op EXCEPT ![p] = r] /\ UNCHANGED <<alone, ops>>
        BY <1>2, <1>6, <2>1 DEF Go, Set, Moved
    <2>5. Coherent(r)
        BY <1>1, <1>2, <1>3, <1>4, <2>3 DEF Coherent, SameTask, Switching
    <2>6. LockStep(p, r)
        BY <1>1, <1>2, <1>4, <2>3 DEF LockStep, Locked, SameTask
    <2>7. ASSUME alone[p] PROVE Facts(r)'
        <3>1. RenameFacts(o)
            BY <1>3, <2>7 DEF Facts
        <3>2. RenameFacts(r)'
            BY <1>1, <1>2, <1>4, <2>3, <3>1 DEF RenameFacts, SameTask, Updated, References
        <3> QED
            BY <1>4, <2>3, <3>2 DEF Facts, SwitchFacts, SameTask, Switching
    <2> QED
        BY <1>1, <1>3, <1>4, <2>3, <2>4, <2>5, <2>6, <2>7, QuietKeeps
<1> QED
    BY <1>5, <1>6 DEF Check

(* What a rename or another handler writes. *)
LEMMA UpdatedFacts ==
    ASSUME NEW o \in Frames, NEW c, o.kind = "rename" => c \in DOMAIN o.snap /\ o.new \in Lists
    PROVE  Updated(o, c) \in SUBSET Lists
<1>1. CASE o.kind = "rename"
    <2>1. PICK S \in SUBSET Configs : o.snap \in [S -> SUBSET Lists]
        BY SnapFacts DEF Frames
    <2>2. o.snap[c] \subseteq Lists
        BY <1>1, <2>1
    <2> QED
        BY <1>1, <2>2 DEF Updated, Renamed
<1>2. CASE o.kind # "rename"
    BY <1>2 DEF Updated, Frames
<1> QED
    BY <1>1, <1>2

LEMMA WriteKeeps ==
    ASSUME NfqwsInv, NEW p \in Procs, Write(p)
    PROVE  NfqwsInv'
<1>1. op[p].phase = "write" /\ UNCHANGED loaded
    BY DEF Write, At
<1>2. PICK o : o = op[p]
    OBVIOUS
<1>3. /\ o \in Frames /\ Coherent(o) /\ op[p] # Blank /\ Shared /\ (alone[p] => Facts(o))
      /\ o.left # {}
    BY <1>1, <1>2, AtWork DEF Coherent
<1>4. PICK c : c = NextConfig(o)
    OBVIOUS
<1>5. c \in o.left /\ c \in Configs
    BY <1>3, <1>4, ConfigFacts DEF Frames
<1>6. /\ o.kind = "rename" => c \in DOMAIN o.snap /\ o.new \in Lists /\ o.left \subseteq DOMAIN o.snap
      /\ o.kind \in Switching => o.left = {Active} /\ c = Active
      /\ o.kind \in Switching \cup {"rename", "store"}
    BY <1>1, <1>2, <1>3, <1>5 DEF Coherent
<1>7. PICK x : x = Updated(o, c)
    OBVIOUS
<1>8. x \in SUBSET Lists
    BY <1>3, <1>6, <1>7, UpdatedFacts
<1>9. PICK left, mod, phase : /\ left = o.left \ {c} /\ mod = o.mod \cup {c}
                              /\ phase = IF o.left = {c} THEN "restart" ELSE "check"
    OBVIOUS
<1>10. left \in SUBSET Configs /\ mod \in SUBSET Configs /\ phase \in Phases
    BY <1>3, <1>5, <1>9 DEF Frames, Phases
<1>11. CASE Works /\ Put(p, c, x) /\ o.kind = "store" /\ Answer(p, "ok")
    <2>1. PICK r : r = Answered(o, "ok")
        OBVIOUS
    <2>2. "ok" \in Answers /\ "ok" # "rolled_back"
        BY DEF Answers
    <2>3. /\ r \in Frames /\ r.phase = "done" /\ SameTask(r, o) /\ r.before = o.before
          /\ r.left = o.left /\ r.mod = o.mod /\ r.bad = o.bad /\ r.answer = "ok"
        BY <1>3, <2>1, <2>2, AnswerFrame
    <2>4. op' = [op EXCEPT ![p] = r] /\ UNCHANGED <<alone, ops>>
        BY <1>2, <1>11, <2>1 DEF Answer, Set, Answered
    <2>5. Coherent(r) /\ ~r.was
        BY <1>1, <1>2, <1>3, <1>11, <2>2, <2>3 DEF Coherent, SameTask, Switching
    <2>6. LockStep(p, r)
        BY <1>11, <2>3 DEF LockStep, Locked, Answer
    <2>7. Facts(r)'
        BY <1>11, <2>3, <2>5
        DEF Facts, RenameFacts, SwitchFacts, Truthful, Restarts, SameTask, Switching
    <2> QED
        BY <1>1, <1>3, <1>5, <1>8, <1>11, <2>3, <2>4, <2>5, <2>6, <2>7, PutKeeps
<1>12. CASE /\ Works /\ Put(p, c, x) /\ o.kind # "store" /\ UNCHANGED mu
            /\ Set(p, [o EXCEPT !.left = left, !.mod = mod, !.phase = phase])
    <2>1. PICK r : r = [o EXCEPT !.left = left, !.mod = mod, !.phase = phase]
        OBVIOUS
    <2>2. /\ r \in Frames /\ r.phase = phase /\ SameTask(r, o) /\ r.before = o.before
          /\ r.left = left /\ r.mod = mod /\ r.bad = o.bad /\ r.answer = o.answer
        BY <1>3, <1>10, <2>1 DEF Frames, SameTask
    <2>3. op' = [op EXCEPT ![p] = r] /\ UNCHANGED <<alone, ops>>
        BY <1>12, <2>1 DEF Set
    <2>4. Coherent(r)
        <3>1. phase = "check" => left # {} /\ o.kind = "rename"
            BY <1>5, <1>6, <1>9, <1>12
        <3>2. o.kind = "rename" => left \subseteq DOMAIN o.snap /\ mod \subseteq DOMAIN o.snap
            BY <1>3, <1>6, <1>9 DEF Coherent
        <3>3. phase \in {"check", "restart"}
            BY <1>9
        <3> QED
            BY <1>1, <1>2, <1>3, <1>6, <1>12, <2>2, <3>1, <3>2, <3>3
            DEF Coherent, SameTask, Switching
    <2>5. LockStep(p, r)
        BY <1>1, <1>2, <1>9, <1>12, <2>2 DEF LockStep, Locked, SameTask
    <2>6. ASSUME alone[p] PROVE Facts(r)'
        <3>1. /\ conf' = [conf EXCEPT ![c] = x] /\ list' = list
              /\ conf'[c] = x /\ \A d \in Configs : d # c => conf'[d] = conf[d]
            BY <1>3, <1>5, <1>12 DEF Put, Shared
        <3>2. CASE o.kind = "rename"
            <4>1. RenameFacts(o)
                BY <1>3, <2>6 DEF Facts
            <4>2. /\ o.old # o.new /\ list[o.old] = o.pay /\ list[o.new] = o.pay
                  /\ References(o.old) \cup References(o.new) \subseteq DOMAIN o.snap
                  /\ \A d \in DOMAIN o.snap : o.old \in o.snap[d] /\ o.new \notin o.snap[d]
                  /\ \A d \in DOMAIN o.snap : conf[d] = IF d \in o.left THEN o.snap[d] ELSE Updated(o, d)
                  /\ o.mod = DOMAIN o.snap \ o.left
                BY <1>1, <1>2, <3>2, <4>1 DEF RenameFacts
            <4>3. c \in DOMAIN o.snap /\ o.left \subseteq DOMAIN o.snap /\ DOMAIN o.snap \subseteq Configs
                <5>1. DOMAIN o.snap \subseteq Configs
                    BY <1>3, SnapFacts DEF Frames
                <5> QED
                    BY <1>6, <3>2, <5>1
            <4>4. \A d \in DOMAIN o.snap : conf'[d] = IF d \in left THEN o.snap[d] ELSE Updated(o, d)
                BY <1>7, <1>9, <3>1, <4>2, <4>3
            <4>5. (References(o.old) \cup References(o.new))' \subseteq DOMAIN o.snap
                BY <3>1, <4>2, <4>3 DEF References
            <4>6. mod = DOMAIN o.snap \ left
                BY <1>5, <1>9, <4>2, <4>3
            <4>7. phase = "restart" => left = {}
                BY <1>9
            <4>8. phase \in {"restart", "check"}
                BY <1>9
            <4>9. \A d : Updated(r, d) = Updated(o, d)
                BY <2>2 DEF Updated, SameTask
            <4>10. RenameFacts(r)'
                BY <2>2, <3>1, <3>2, <4>2, <4>4, <4>5, <4>6, <4>7, <4>8, <4>9
                DEF RenameFacts, SameTask
            <4> QED
                BY <2>2, <3>2, <4>8, <4>10 DEF Facts, SwitchFacts, SameTask, Switching
        <3>3. CASE o.kind \in Switching
            <4>1. SwitchFacts(o)
                BY <1>3, <2>6 DEF Facts
            <4>2. x = o.want /\ phase = "restart" /\ c = Active
                BY <1>6, <1>7, <1>9, <3>3 DEF Updated, Switching
            <4>3. SwitchFacts(r)'
                BY <1>1, <1>2, <2>2, <3>1, <4>1, <4>2 DEF SwitchFacts, SameTask, Exists
            <4> QED
                BY <2>2, <3>3, <4>2, <4>3 DEF Facts, RenameFacts, SameTask, Switching
        <3> QED
            BY <1>6, <1>12, <3>2, <3>3
    <2>7. r.phase \notin {"unlink", "unlinkNew"}
        BY <1>9, <2>2
    <2> QED
        BY <1>1, <1>3, <1>5, <1>8, <1>12, <2>2, <2>3, <2>4, <2>5, <2>6, <2>7, PutKeeps
<1>13. CASE /\ Fails /\ UNCHANGED <<conf, list, excused, since>> /\ o.kind \in {"rename", "smart"}
            /\ UNCHANGED mu
            /\ Set(p, [o EXCEPT !.left = mod, !.mod = mod, !.phase = "undo"])
    <2>1. PICK r : r = [o EXCEPT !.left = mod, !.mod = mod, !.phase = "undo"]
        OBVIOUS
    <2>2. /\ r \in Frames /\ r.phase = "undo" /\ SameTask(r, o) /\ r.before = o.before
          /\ r.left = mod /\ r.mod = mod /\ r.bad = o.bad /\ r.answer = o.answer
        BY <1>3, <1>10, <2>1 DEF Frames, SameTask, Phases
    <2>3. op' = [op EXCEPT ![p] = r] /\ UNCHANGED <<alone, ops>>
        BY <1>13, <2>1 DEF Set
    <2>4. Coherent(r)
        <3>1. o.kind = "rename" => mod \subseteq DOMAIN o.snap
            BY <1>3, <1>6, <1>9 DEF Coherent
        <3> QED
            BY <1>1, <1>2, <1>3, <1>13, <2>2, <3>1 DEF Coherent, SameTask, Switching
    <2>5. LockStep(p, r)
        BY <1>1, <1>2, <1>13, <2>2 DEF LockStep, Locked, SameTask
    <2>6. Shared'
        BY <1>1, <1>3, <1>13, QuietTypes
    <2>7. ASSUME alone[p] PROVE Facts(r)'
        <3>1. RenameFacts(o)
            BY <1>3, <2>7 DEF Facts
        <3>2. RenameFacts(r)'
            BY <1>1, <1>2, <1>9, <1>13, <2>2, <3>1 DEF RenameFacts, SameTask, Updated, References
        <3> QED
            BY <1>13, <2>2, <3>2 DEF Facts, SwitchFacts, SameTask, Switching
    <2> QED
        BY <1>1, <1>3, <1>13, <2>2, <2>3, <2>4, <2>5, <2>6, <2>7, QuietKeeps
<1>14. CASE Fails /\ UNCHANGED <<conf, list, excused, since>> /\ Answer(p, "error")
    <2>1. Shared'
        BY <1>1, <1>3, <1>14, QuietTypes
    <2> QED
        BY <1>3, <1>14, <2>1, ErrorKeeps
<1>15. PICK o2 : o2 = [o EXCEPT !.left = @ \ {c}, !.mod = @ \cup {c},
                               !.phase = IF o.left = {c} THEN "restart" ELSE "check"]
    OBVIOUS
<1>16. o2 = [o EXCEPT !.left = left, !.mod = mod, !.phase = phase]
    BY <1>3, <1>9, <1>15 DEF Frames
<1>17. [o2 EXCEPT !.phase = "undo", !.left = o2.mod] = [o EXCEPT !.left = mod, !.mod = mod, !.phase = "undo"]
    BY <1>3, <1>10, <1>16 DEF Frames
<1> QED
    BY <1>2, <1>4, <1>7, <1>11, <1>12, <1>13, <1>14, <1>15, <1>16, <1>17 DEF Write, files

LEMMA RestartKeeps ==
    ASSUME NfqwsInv, NEW p \in Procs, Restart(p)
    PROVE  NfqwsInv'
<1>1. /\ op[p].phase = "restart" /\ op[p].kind # "save"
      /\ UNCHANGED <<conf, list, excused, mu, since>>
    BY DEF Restart, At, files
<1>2. PICK o : o = op[p]
    OBVIOUS
<1>3. o \in Frames /\ Coherent(o) /\ op[p] # Blank /\ Shared /\ (alone[p] => Facts(o))
    BY <1>1, <1>2, AtWork
<1>4. o.kind \in Switching \cup {"rename"}
    BY <1>1, <1>2, <1>3 DEF Coherent
<1>5. Shared'
    BY <1>1, <1>3, QuietTypes DEF Restart, RestartOk, RestartFail, RestartDies, Works
<1>6. CASE Undo(p)
    BY <1>1, <1>2, <1>3, <1>4, <1>5, <1>6, UndoKeeps
<1>7. CASE /\ Go(p, "verify")
           /\ Restarts(o) => loaded' = conf[Active] \/ (o.kind # "rename" /\ loaded' = None)
    <2>1. PICK r : r = Moved(o, "verify")
        OBVIOUS
    <2>2. "verify" \in Phases
        BY DEF Phases
    <2>3. /\ r \in Frames /\ r.phase = "verify" /\ SameTask(r, o) /\ r.before = o.before
          /\ r.left = o.left /\ r.mod = o.mod /\ r.bad = o.bad /\ r.answer = o.answer
        BY <1>3, <2>1, <2>2, MoveFrame
    <2>4. op' = [op EXCEPT ![p] = r] /\ UNCHANGED <<alone, ops>>
        BY <1>2, <1>7, <2>1 DEF Go, Set, Moved
    <2>5. Coherent(r)
        BY <1>1, <1>2, <1>3, <1>4, <2>3 DEF Coherent, SameTask, Switching
    <2>6. LockStep(p, r)
        BY <1>1, <1>2, <2>3 DEF LockStep, Locked, SameTask
    <2>7. ASSUME alone[p] PROVE Facts(r)'
        <3>1. RenameFacts(o) /\ SwitchFacts(o)
            BY <1>3, <2>7 DEF Facts
        <3>2. Restarts(r) <=> Restarts(o)
            BY <2>3 DEF Restarts, SameTask
        <3>3. CASE o.kind = "rename"
            <4>1. RenameFacts(r)'
                BY <1>1, <1>2, <1>7, <2>3, <3>1, <3>2, <3>3
                DEF RenameFacts, SameTask, Updated, References
            <4> QED
                BY <2>3, <3>3, <4>1 DEF Facts, SwitchFacts, SameTask, Switching
        <3>4. CASE o.kind \in Switching
            <4>1. SwitchFacts(r)'
                BY <1>1, <1>2, <1>7, <2>3, <3>1, <3>2, <3>4 DEF SwitchFacts, SameTask, Exists
            <4> QED
                BY <2>3, <3>4, <4>1 DEF Facts, RenameFacts, SameTask, Switching
        <3> QED
            BY <1>4, <3>3, <3>4
    <2> QED
        BY <1>1, <1>3, <1>5, <2>3, <2>4, <2>5, <2>6, <2>7, QuietKeeps
<1> QED
    BY <1>2, <1>6, <1>7 DEF Restart, RestartOk, RestartDies

LEMMA GateKeeps ==
    ASSUME NfqwsInv, NEW p \in Procs, Gate(p)
    PROVE  NfqwsInv'
<1>1. /\ op[p].phase = "verify" /\ op[p].kind = "rename"
      /\ UNCHANGED <<conf, list, excused, loaded, mu, faults>>
    BY DEF Gate, At, files
<1>2. PICK o : o = op[p]
    OBVIOUS
<1>3. o \in Frames /\ Coherent(o) /\ op[p] # Blank /\ Shared /\ (alone[p] => Facts(o))
    BY <1>1, <1>2, AtWork
<1>4. CASE Undo(p) /\ UNCHANGED since
    <2>1. Shared'
        BY <1>1, <1>3, <1>4 DEF Shared
    <2> QED
        BY <1>1, <1>3, <1>4, <2>1, UndoKeeps
<1>5. CASE Go(p, "unlink") /\ since' = [since EXCEPT ![p] = {}] /\ References(o.old) = {}
    <2>1. PICK r : r = Moved(o, "unlink")
        OBVIOUS
    <2>2. "unlink" \in Phases
        BY DEF Phases
    <2>3. /\ r \in Frames /\ r.phase = "unlink" /\ SameTask(r, o) /\ r.before = o.before
          /\ r.left = o.left /\ r.mod = o.mod /\ r.bad = o.bad /\ r.answer = o.answer
        BY <1>3, <2>1, <2>2, MoveFrame
    <2>4. op' = [op EXCEPT ![p] = r] /\ UNCHANGED <<alone, ops>>
        BY <1>2, <1>5, <2>1 DEF Go, Set, Moved
    <2>5. Coherent(r)
        BY <1>1, <1>2, <1>3, <2>3 DEF Coherent, SameTask, Switching
    <2>6. LockStep(p, r)
        BY <1>1, <1>2, <2>3 DEF LockStep, Locked, SameTask
    <2>7. ASSUME alone[p] PROVE Facts(r)'
        <3>1. RenameFacts(o)
            BY <1>3, <2>7 DEF Facts
        <3>2. RenameFacts(r)'
            BY <1>1, <1>2, <2>3, <3>1 DEF RenameFacts, SameTask, Updated, References, Restarts
        <3> QED
            BY <1>1, <1>2, <2>3, <3>2 DEF Facts, SwitchFacts, SameTask, Switching
    <2>8. Shared' /\ \A q \in Procs \ {p} : since'[q] = since[q]
        BY <1>1, <1>3, <1>5 DEF Shared
    <2>9. r.old = o.old
        BY <2>3 DEF SameTask
    <2> QED
        BY <1>1, <1>3, <1>5, <2>3, <2>4, <2>5, <2>6, <2>7, <2>8, <2>9, QuietKeeps
<1> QED
    BY <1>2, <1>4, <1>5 DEF Gate

LEMMA RemoveOldKeeps ==
    ASSUME NfqwsInv, NEW p \in Procs, RemoveOld(p)
    PROVE  NfqwsInv'
<1>1. op[p].phase = "unlink" /\ UNCHANGED loaded
    BY DEF RemoveOld, At
<1>2. PICK o : o = op[p]
    OBVIOUS
<1>3. o \in Frames /\ Coherent(o) /\ op[p] # Blank /\ Shared /\ (alone[p] => Facts(o))
    BY <1>1, <1>2, AtWork
<1>4. o.kind \in {"rename", "delete"} /\ o.old \in Lists
    BY <1>1, <1>2, <1>3 DEF Coherent, Switching
<1>5. CASE Works /\ Unlink(p, o.old) /\ Answer(p, "ok")
    <2>1. PICK r : r = Answered(o, "ok")
        OBVIOUS
    <2>2. "ok" \in Answers /\ "ok" # "rolled_back"
        BY DEF Answers
    <2>3. /\ r \in Frames /\ r.phase = "done" /\ SameTask(r, o) /\ r.before = o.before
          /\ r.left = o.left /\ r.mod = o.mod /\ r.bad = o.bad /\ r.answer = "ok"
        BY <1>3, <2>1, <2>2, AnswerFrame
    <2>4. op' = [op EXCEPT ![p] = r] /\ UNCHANGED <<alone, ops>>
        BY <1>2, <1>5, <2>1 DEF Answer, Set, Answered
    <2>5. Coherent(r)
        BY <1>1, <1>2, <1>3, <1>4, <2>2, <2>3 DEF Coherent, SameTask, Switching
    <2>6. LockStep(p, r)
        BY <1>5, <2>3 DEF LockStep, Locked, Answer
    <2>7. /\ list' = [list EXCEPT ![o.old] = Absent] /\ conf' = conf
          /\ since' = [since EXCEPT ![p] = {}]
          /\ excused' = excused \cup (References(o.old) \cap since[p])
        BY <1>5 DEF Unlink
    <2>8. excused' = excused \cup References(o.old)
        <3>1. References(o.old) \subseteq since[p]
            BY <1>1, <1>2 DEF NfqwsInv, FilesInv, Looked, At
        <3> QED
            BY <2>7, <3>1
    <2>9. since' \in [Procs -> SUBSET Configs] /\ \A q \in Procs \ {p} : since'[q] = since[q]
        BY <1>3, <2>7 DEF Shared
    <2>10. ASSUME alone[p] PROVE Truthful(r)'
        <3>1. CASE o.kind = "delete"
            <4>1. ~o.was
                BY <1>3, <3>1 DEF Coherent, Switching
            <4> QED
                BY <2>2, <2>3, <3>1, <4>1 DEF Truthful, SameTask, Restarts
        <3>2. CASE o.kind = "rename"
            <4>1. RenameFacts(o)
                BY <1>3, <2>10 DEF Facts
            <4>2. /\ o.old # o.new /\ list[o.new] = o.pay /\ o.new \in Lists
                  /\ References(o.old) \cup References(o.new) \subseteq DOMAIN o.snap
                  /\ \A c \in DOMAIN o.snap : conf[c] = Updated(o, c)
                  /\ Restarts(o) => loaded = conf[Active]
                BY <1>1, <1>2, <1>3, <3>2, <4>1 DEF RenameFacts, Coherent
            <4>3. \A c \in DOMAIN o.snap : o.old \notin conf[c] /\ o.new \in conf[c]
                BY <3>2, <4>2 DEF Updated, Renamed
            <4>4. \A c \in DOMAIN o.snap : conf[c] # Absent /\ c \in Configs
                <5>1. \A c \in DOMAIN o.snap : c \in Configs /\ conf[c] \in SUBSET Lists
                    BY <1>3, <3>2, <4>2, UpdatedFacts, SnapFacts DEF Frames
                <5> QED
                    BY <5>1, NfqwsAssumption
            <4>5. References(o.old) = {} /\ References(o.new) = DOMAIN o.snap
                BY <4>2, <4>3, <4>4 DEF References
            <4>6. References(o.old)' = {} /\ References(o.new)' = DOMAIN o.snap
                BY <2>7, <4>5 DEF References
            <4>7. list'[o.old] = Absent /\ list'[o.new] = o.pay
                BY <1>3, <1>4, <2>7, <4>2 DEF Shared
            <4> QED
                BY <1>1, <2>2, <2>3, <2>7, <3>2, <4>2, <4>6, <4>7
                DEF Truthful, SameTask, Restarts, Exists
        <3> QED
            BY <1>4, <3>1, <3>2
    <2>11. alone[p] => Facts(r)'
        BY <2>3, <2>10 DEF Facts, RenameFacts, SwitchFacts
    <2>12. r.phase \notin {"unlink", "unlinkNew"}
        BY <2>3
    <2> QED
        BY <1>1, <1>3, <1>4, <1>5, <2>3, <2>4, <2>5, <2>6, <2>7, <2>8, <2>9, <2>11, <2>12, GoneKeeps
<1>6. CASE UNCHANGED <<conf, list, excused, since>> /\ (Works \/ Fails) /\ Answer(p, "error")
    <2>1. Shared'
        BY <1>1, <1>3, <1>6, QuietTypes
    <2> QED
        BY <1>3, <1>6, <2>1, ErrorKeeps
<1>7. CASE /\ UNCHANGED <<conf, list, excused, since, mu>> /\ (Works \/ Fails)
           /\ o.kind = "rename" /\ Undo(p)
    <2>1. Shared'
        BY <1>1, <1>3, <1>7, QuietTypes
    <2> QED
        BY <1>1, <1>2, <1>3, <1>7, <2>1, UndoKeeps
<1> QED
    BY <1>2, <1>5, <1>6, <1>7 DEF RemoveOld, files

LEMMA UndoCheckKeeps ==
    ASSUME NfqwsInv, NEW p \in Procs, UndoCheck(p)
    PROVE  NfqwsInv'
<1>1. /\ op[p].phase = "undo" /\ op[p].kind = "rename"
      /\ UNCHANGED <<conf, list, excused, loaded, mu, since, faults>>
    BY DEF UndoCheck, At, files
<1>2. PICK o : o = op[p]
    OBVIOUS
<1>3. o \in Frames /\ Coherent(o) /\ op[p] # Blank /\ Shared /\ (alone[p] => Facts(o))
    BY <1>1, <1>2, AtWork
<1>4. Shared'
    BY <1>1, <1>3 DEF Shared
<1>5. ASSUME NEW r \in Frames, SameTask(r, o), r.before = o.before, r.mod = o.mod,
             r.answer = o.answer, Set(p, r), r.left \subseteq o.left,
             \/ r.phase = "rerestart" /\ r.left = {}
             \/ r.phase = "undo"
             \/ r.phase = "undoWrite" /\ r.left # {},
             ~r.bad => /\ ~o.bad
                       /\ \A c \in o.left \ r.left : conf[c] = o.snap[c]
      PROVE  NfqwsInv'
    <2>1. op' = [op EXCEPT ![p] = r] /\ UNCHANGED <<alone, ops>>
        BY <1>5 DEF Set
    <2>2. Coherent(r)
        BY <1>1, <1>2, <1>3, <1>5 DEF Coherent, SameTask, Switching
    <2>3. LockStep(p, r)
        BY <1>1, <1>2, <1>5 DEF LockStep, Locked, SameTask
    <2>4. ASSUME alone[p] PROVE Facts(r)'
        <3>1. RenameFacts(o)
            BY <1>3, <2>4 DEF Facts
        <3>2. RenameFacts(r)'
            BY <1>1, <1>2, <1>5, <3>1 DEF RenameFacts, SameTask, Updated, References
        <3> QED
            BY <1>1, <1>2, <1>5, <3>2 DEF Facts, SwitchFacts, SameTask, Switching
    <2> QED
        BY <1>1, <1>3, <1>4, <1>5, <2>1, <2>2, <2>3, <2>4, QuietKeeps
<1>6. CASE o.left = {} /\ Go(p, "rerestart")
    <2>1. PICK r : r = Moved(o, "rerestart")
        OBVIOUS
    <2>2. "rerestart" \in Phases
        BY DEF Phases
    <2>3. /\ r \in Frames /\ r.phase = "rerestart" /\ SameTask(r, o) /\ r.before = o.before
          /\ r.left = o.left /\ r.mod = o.mod /\ r.bad = o.bad /\ r.answer = o.answer
        BY <1>3, <2>1, <2>2, MoveFrame
    <2>4. Set(p, r)
        BY <1>2, <1>6, <2>1 DEF Go, Moved
    <2> QED
        BY <1>5, <1>6, <2>3, <2>4
<1>7. PICK c : c = LastConfig(o)
    OBVIOUS
<1>8. PICK left : left = o.left \ {c}
    OBVIOUS
<1>9. left \in SUBSET Configs
    BY <1>3, <1>8 DEF Frames
<1>10. CASE o.left # {} /\ conf[c] = o.snap[c] /\ Set(p, [o EXCEPT !.left = left])
    <2>1. PICK r : r = [o EXCEPT !.left = left]
        OBVIOUS
    <2>2. /\ r \in Frames /\ r.phase = "undo" /\ SameTask(r, o) /\ r.before = o.before
          /\ r.left = left /\ r.mod = o.mod /\ r.bad = o.bad /\ r.answer = o.answer
        BY <1>1, <1>2, <1>3, <1>9, <2>1 DEF Frames, SameTask
    <2> QED
        BY <1>5, <1>8, <1>10, <2>1, <2>2
<1>11. CASE o.left # {} /\ Set(p, [o EXCEPT !.phase = "undoWrite"])
    <2>1. PICK r : r = Moved(o, "undoWrite")
        OBVIOUS
    <2>2. "undoWrite" \in Phases
        BY DEF Phases
    <2>3. /\ r \in Frames /\ r.phase = "undoWrite" /\ SameTask(r, o) /\ r.before = o.before
          /\ r.left = o.left /\ r.mod = o.mod /\ r.bad = o.bad /\ r.answer = o.answer
        BY <1>3, <2>1, <2>2, MoveFrame
    <2>4. Set(p, r)
        BY <1>11, <2>1 DEF Moved
    <2> QED
        BY <1>5, <1>11, <2>3, <2>4
<1>12. CASE o.left # {} /\ Set(p, [o EXCEPT !.left = left, !.bad = TRUE])
    <2>1. PICK r : r = [o EXCEPT !.left = left, !.bad = TRUE]
        OBVIOUS
    <2>2. /\ r \in Frames /\ r.phase = "undo" /\ SameTask(r, o) /\ r.before = o.before
          /\ r.left = left /\ r.mod = o.mod /\ r.bad /\ r.answer = o.answer
        BY <1>1, <1>2, <1>3, <1>9, <2>1 DEF Frames, SameTask
    <2> QED
        BY <1>5, <1>8, <1>12, <2>1, <2>2
<1>13. /\ [o EXCEPT !.left = @ \ {c}] = [o EXCEPT !.left = left]
       /\ [o EXCEPT !.left = @ \ {c}, !.bad = TRUE] = [o EXCEPT !.left = left, !.bad = TRUE]
    BY <1>3, <1>8 DEF Frames
<1> QED
    BY <1>2, <1>6, <1>7, <1>10, <1>11, <1>12, <1>13 DEF UndoCheck

LEMMA UndoWriteKeeps ==
    ASSUME NfqwsInv, NEW p \in Procs, UndoWrite(p)
    PROVE  NfqwsInv'
<1>1. op[p].phase = "undoWrite" /\ UNCHANGED loaded
    BY DEF UndoWrite, At
<1>2. PICK o : o = op[p]
    OBVIOUS
<1>3. /\ o \in Frames /\ Coherent(o) /\ op[p] # Blank /\ Shared /\ (alone[p] => Facts(o))
      /\ o.left # {}
    BY <1>1, <1>2, AtWork DEF Coherent
<1>4. PICK c : c = LastConfig(o)
    OBVIOUS
<1>5. /\ o.kind \in Switching \cup {"rename"} /\ o.left \subseteq DOMAIN o.snap
      /\ o.kind \in Switching => o.left = {Active} /\ DOMAIN o.snap = {Active}
    BY <1>1, <1>2, <1>3 DEF Coherent
<1>6. c \in o.left /\ c \in DOMAIN o.snap /\ c \in Configs
    BY <1>3, <1>4, <1>5, ConfigFacts DEF Frames
<1>7. PICK x : x = o.snap[c]
    OBVIOUS
<1>8. x \in SUBSET Lists
    BY <1>3, <1>6, <1>7, SnapFacts DEF Frames
<1>9. PICK left, phase : /\ left = o.left \ {c}
                         /\ phase = IF o.kind = "rename" THEN "undo" ELSE "rerestart"
    OBVIOUS
<1>10. left \in SUBSET Configs /\ phase \in Phases
    BY <1>3, <1>9 DEF Frames, Phases
<1>11. CASE /\ Works /\ Put(p, c, x) /\ UNCHANGED mu
            /\ Set(p, [o EXCEPT !.left = left, !.phase = phase])
    <2>1. PICK r : r = [o EXCEPT !.left = left, !.phase = phase]
        OBVIOUS
    <2>2. /\ r \in Frames /\ r.phase = phase /\ SameTask(r, o) /\ r.before = o.before
          /\ r.left = left /\ r.mod = o.mod /\ r.bad = o.bad /\ r.answer = o.answer
        BY <1>3, <1>10, <2>1 DEF Frames, SameTask
    <2>3. op' = [op EXCEPT ![p] = r] /\ UNCHANGED <<alone, ops>>
        BY <1>11, <2>1 DEF Set
    <2>4. Coherent(r)
        BY <1>1, <1>2, <1>3, <1>5, <1>9, <2>2 DEF Coherent, SameTask, Switching
    <2>5. LockStep(p, r)
        BY <1>1, <1>2, <1>9, <1>11, <2>2 DEF LockStep, Locked, SameTask
    <2>6. ASSUME alone[p] PROVE Facts(r)'
        <3>1. list' = list /\ conf'[c] = x /\ \A d \in Configs : d # c => conf'[d] = conf[d]
            BY <1>3, <1>6, <1>11 DEF Put, Shared
        <3>2. DOMAIN o.snap \subseteq Configs
            BY <1>3, SnapFacts DEF Frames
        <3>3. CASE o.kind = "rename"
            <4>1. RenameFacts(o)
                BY <1>3, <2>6 DEF Facts
            <4>2. /\ o.old # o.new /\ list[o.old] = o.pay /\ list[o.new] = o.pay
                  /\ References(o.old) \cup References(o.new) \subseteq DOMAIN o.snap
                  /\ \A d \in DOMAIN o.snap : /\ o.old \in o.snap[d] /\ o.new \notin o.snap[d]
                                              /\ conf[d] \in {o.snap[d], Updated(o, d)}
                  /\ ~o.bad => \A d \in DOMAIN o.snap \ o.left : conf[d] = o.snap[d]
                BY <1>1, <1>2, <3>3, <4>1 DEF RenameFacts
            <4>3. (References(o.old) \cup References(o.new))' \subseteq DOMAIN o.snap
                BY <1>6, <3>1, <4>2 DEF References
            <4>4. \A d \in DOMAIN o.snap : conf'[d] \in {o.snap[d], Updated(o, d)}
                BY <1>7, <3>1, <3>2, <4>2
            <4>5. ~o.bad => \A d \in DOMAIN o.snap \ left : conf'[d] = o.snap[d]
                BY <1>7, <1>9, <3>1, <3>2, <4>2
            <4>6. \A d : Updated(r, d) = Updated(o, d)
                BY <2>2 DEF Updated, SameTask
            <4>7. RenameFacts(r)'
                BY <1>9, <2>2, <3>1, <3>3, <4>2, <4>3, <4>4, <4>5, <4>6
                DEF RenameFacts, SameTask
            <4> QED
                BY <1>9, <2>2, <3>3, <4>7 DEF Facts, SwitchFacts, SameTask, Switching
        <3>4. CASE o.kind \in Switching
            <4>1. SwitchFacts(o)
                BY <1>3, <2>6 DEF Facts
            <4>2. phase = "rerestart"
                BY <1>9, <3>4 DEF Switching
            <4>3. Kept(r)'
                BY <1>5, <1>6, <1>7, <2>2, <3>1, <3>4 DEF Kept, SameTask
            <4>4. SwitchFacts(r)'
                BY <1>1, <1>2, <2>2, <3>1, <3>4, <4>1, <4>2, <4>3 DEF SwitchFacts, SameTask
            <4> QED
                BY <2>2, <3>4, <4>2, <4>4 DEF Facts, RenameFacts, SameTask, Switching
        <3> QED
            BY <1>5, <3>3, <3>4
    <2>7. r.phase \notin {"unlink", "unlinkNew"}
        BY <1>9, <2>2
    <2> QED
        BY <1>1, <1>3, <1>6, <1>8, <1>11, <2>2, <2>3, <2>4, <2>5, <2>6, <2>7, PutKeeps
<1>12. CASE /\ Fails /\ UNCHANGED <<conf, list, excused, since, mu>>
            /\ Set(p, [o EXCEPT !.left = left, !.phase = phase, !.bad = TRUE])
    <2>1. PICK r : r = [o EXCEPT !.left = left, !.phase = phase, !.bad = TRUE]
        OBVIOUS
    <2>2. /\ r \in Frames /\ r.phase = phase /\ SameTask(r, o) /\ r.before = o.before
          /\ r.left = left /\ r.mod = o.mod /\ r.bad /\ r.answer = o.answer
        BY <1>3, <1>10, <2>1 DEF Frames, SameTask
    <2>3. op' = [op EXCEPT ![p] = r] /\ UNCHANGED <<alone, ops>>
        BY <1>12, <2>1 DEF Set
    <2>4. Coherent(r)
        BY <1>1, <1>2, <1>3, <1>5, <1>9, <2>2 DEF Coherent, SameTask, Switching
    <2>5. LockStep(p, r)
        BY <1>1, <1>2, <1>9, <1>12, <2>2 DEF LockStep, Locked, SameTask
    <2>6. Shared'
        BY <1>1, <1>3, <1>12, QuietTypes
    <2>7. ASSUME alone[p] PROVE Facts(r)'
        <3>1. RenameFacts(o)
            BY <1>3, <2>7 DEF Facts
        <3>2. RenameFacts(r)'
            BY <1>1, <1>2, <1>9, <1>12, <2>2, <3>1 DEF RenameFacts, SameTask, Updated, References
        <3>3. SwitchFacts(r)'
            BY <1>9, <2>2 DEF SwitchFacts, SameTask, Switching
        <3> QED
            BY <1>9, <2>2, <3>2, <3>3 DEF Facts
    <2> QED
        BY <1>1, <1>3, <1>9, <1>12, <2>2, <2>3, <2>4, <2>5, <2>6, <2>7, QuietKeeps
<1>13. CASE Fails /\ UNCHANGED <<conf, list, excused, since>> /\ Answer(p, "error")
    <2>1. Shared'
        BY <1>1, <1>3, <1>13, QuietTypes
    <2> QED
        BY <1>3, <1>13, <2>1, ErrorKeeps
<1>14. PICK o2 : o2 = [o EXCEPT !.left = @ \ {c},
                               !.phase = IF o.kind = "rename" THEN "undo" ELSE "rerestart"]
    OBVIOUS
<1>15. o2 = [o EXCEPT !.left = left, !.phase = phase]
    BY <1>3, <1>9, <1>14 DEF Frames
<1>16. [o2 EXCEPT !.bad = TRUE] = [o EXCEPT !.left = left, !.phase = phase, !.bad = TRUE]
    BY <1>15
<1> QED
    BY <1>2, <1>4, <1>7, <1>11, <1>12, <1>13, <1>14, <1>15, <1>16 DEF UndoWrite, files

LEMMA RerestartKeeps ==
    ASSUME NfqwsInv, NEW p \in Procs, Rerestart(p)
    PROVE  NfqwsInv'
<1>1. op[p].phase = "rerestart" /\ UNCHANGED <<conf, list, excused, since>>
    BY DEF Rerestart, At, files
<1>2. PICK o : o = op[p]
    OBVIOUS
<1>3. o \in Frames /\ Coherent(o) /\ op[p] # Blank /\ Shared /\ (alone[p] => Facts(o))
    BY <1>1, <1>2, AtWork
<1>4. /\ o.kind \in Switching \cup {"rename"} /\ (o.kind = "rename" => o.left = {} /\ o.before = None)
      /\ o.bad \in BOOLEAN
    BY <1>1, <1>2, <1>3 DEF Coherent, Frames
<1>5. Shared'
    BY <1>1, <1>3, QuietTypes DEF Rerestart, RestartOk, RestartFail, RestartDies, Works
<1>6. ASSUME NEW bad \in BOOLEAN,
             IF o.kind = "rename" /\ ~bad THEN Go(p, "recheck") /\ UNCHANGED mu
             ELSE Answer(p, IF bad THEN "error" ELSE "rolled_back"),
             ~bad => /\ ~o.bad
                     /\ o.kind # "save" /\ RestartsAgain(o) => loaded' \in {conf[Active], None}
                     /\ o.kind = "rename" /\ RestartsAgain(o) => loaded' = conf[Active]
      PROVE  NfqwsInv'
    <2>1. CASE bad
        BY <1>1, <1>3, <1>5, <1>6, <2>1, ErrorKeeps
    <2>2. CASE o.kind = "rename" /\ ~bad
        <3>1. PICK r : r = Moved(o, "recheck")
            OBVIOUS
        <3>2. "recheck" \in Phases
            BY DEF Phases
        <3>3. /\ r \in Frames /\ r.phase = "recheck" /\ SameTask(r, o) /\ r.before = o.before
              /\ r.left = o.left /\ r.mod = o.mod /\ r.bad = o.bad /\ r.answer = o.answer
            BY <1>3, <3>1, <3>2, MoveFrame
        <3>4. op' = [op EXCEPT ![p] = r] /\ UNCHANGED <<alone, ops>> /\ mu' = mu
            BY <1>2, <1>6, <2>2, <3>1 DEF Go, Set, Moved
        <3>5. Coherent(r)
            BY <1>1, <1>2, <1>3, <2>2, <3>3 DEF Coherent, SameTask, Switching
        <3>6. LockStep(p, r)
            BY <1>1, <1>2, <3>3, <3>4 DEF LockStep, Locked, SameTask
        <3>7. ASSUME alone[p] PROVE Facts(r)'
            <4>1. RenameFacts(o)
                BY <1>3, <3>7 DEF Facts
            <4>2. RestartsAgain(r) <=> RestartsAgain(o)
                BY <3>3 DEF RestartsAgain, SameTask
            <4>3. \A c \in DOMAIN o.snap : conf[c] = o.snap[c]
                BY <1>1, <1>2, <1>4, <1>6, <2>2, <4>1 DEF RenameFacts
            <4>4. Kept(r)'
                BY <1>1, <3>3, <4>3 DEF Kept, SameTask
            <4>5. RenameFacts(r)'
                BY <1>1, <1>2, <1>6, <2>2, <3>3, <4>1, <4>2, <4>4
                DEF RenameFacts, SameTask, Updated, References
            <4> QED
                BY <2>2, <3>3, <4>5 DEF Facts, SwitchFacts, SameTask, Switching
        <3> QED
            BY <1>1, <1>3, <1>5, <3>3, <3>4, <3>5, <3>6, <3>7, QuietKeeps
    <2>3. CASE o.kind # "rename" /\ ~bad
        <3>1. PICK r : r = Answered(o, "rolled_back")
            OBVIOUS
        <3>2. "rolled_back" \in Answers
            BY DEF Answers
        <3>3. /\ r \in Frames /\ r.phase = "done" /\ SameTask(r, o) /\ r.before = o.before
              /\ r.left = o.left /\ r.mod = o.mod /\ r.bad = o.bad /\ r.answer = "rolled_back"
            BY <1>3, <3>1, <3>2, AnswerFrame
        <3>4. ASSUME alone[p] PROVE Truthful(r)'
            <4>1. SwitchFacts(o) /\ ~o.bad /\ o.kind \in Switching
                BY <1>3, <1>4, <1>6, <2>3, <3>4 DEF Facts
            <4>2. Kept(o) /\ (o.before # None => list[o.new] = o.before)
                BY <1>1, <1>2, <4>1 DEF SwitchFacts
            <4>3. Kept(r)'
                BY <1>1, <3>3, <4>2 DEF Kept, SameTask
            <4>4. RestartsAgain(r) <=> RestartsAgain(o)
                BY <3>3 DEF RestartsAgain, SameTask
            <4>5. Absent # None
                BY NfqwsAssumption
            <4> QED
                BY <1>1, <1>6, <2>3, <3>3, <4>2, <4>3, <4>4, <4>5 DEF Truthful, SameTask, Exists
        <3>5. Answer(p, "rolled_back")
            BY <1>6, <2>3
        <3> QED
            BY <1>1, <1>2, <1>3, <1>4, <1>5, <3>1, <3>2, <3>4, <3>5, AnswerKeeps
    <2> QED
        BY <2>1, <2>2, <2>3
<1>7. CASE ~RestartsAgain(o)
    <2>1. IF o.kind = "rename" /\ ~o.bad THEN Go(p, "recheck") /\ UNCHANGED mu
          ELSE Answer(p, IF o.bad THEN "error" ELSE "rolled_back")
        BY <1>2, <1>7 DEF Rerestart
    <2> QED
        BY <1>4, <1>6, <1>7, <2>1
<1>8. CASE RestartsAgain(o)
    <2>1. CASE /\ loaded' = conf[Active] \/ (loaded' = None /\ o.kind # "rename")
               /\ IF o.kind = "rename" /\ ~o.bad THEN Go(p, "recheck") /\ UNCHANGED mu
                  ELSE Answer(p, IF o.bad THEN "error" ELSE "rolled_back")
        BY <1>4, <1>6, <2>1
    <2>2. PICK bad \in BOOLEAN : bad = (o.kind # "save" \/ o.bad)
        OBVIOUS
    <2>3. CASE IF o.kind = "rename" /\ ~bad THEN Go(p, "recheck") /\ UNCHANGED mu
               ELSE Answer(p, IF bad THEN "error" ELSE "rolled_back")
        BY <1>4, <1>6, <2>2, <2>3
    <2> QED
        BY <1>2, <1>8, <2>1, <2>2, <2>3 DEF Rerestart, RestartOk, RestartDies
<1> QED
    BY <1>7, <1>8

LEMMA RecheckKeeps ==
    ASSUME NfqwsInv, NEW p \in Procs, Recheck(p)
    PROVE  NfqwsInv'
<1>1. op[p].phase = "recheck" /\ UNCHANGED <<conf, list, excused, loaded, faults>>
    BY DEF Recheck, At, files
<1>2. PICK o : o = op[p]
    OBVIOUS
<1>3. o \in Frames /\ Coherent(o) /\ op[p] # Blank /\ Shared /\ (alone[p] => Facts(o))
    BY <1>1, <1>2, AtWork
<1>4. o.kind = "rename"
    BY <1>1, <1>2, <1>3 DEF Coherent, Switching
<1>5. CASE Answer(p, "error") /\ UNCHANGED since
    <2>1. Shared'
        BY <1>1, <1>3, <1>5 DEF Shared
    <2> QED
        BY <1>1, <1>3, <1>5, <2>1, ErrorKeeps
<1>6. CASE /\ Go(p, "unlinkNew") /\ UNCHANGED mu /\ since' = [since EXCEPT ![p] = {}]
           /\ References(o.new) = {}
    <2>1. PICK r : r = Moved(o, "unlinkNew")
        OBVIOUS
    <2>2. "unlinkNew" \in Phases
        BY DEF Phases
    <2>3. /\ r \in Frames /\ r.phase = "unlinkNew" /\ SameTask(r, o) /\ r.before = o.before
          /\ r.left = o.left /\ r.mod = o.mod /\ r.bad = o.bad /\ r.answer = o.answer
        BY <1>3, <2>1, <2>2, MoveFrame
    <2>4. op' = [op EXCEPT ![p] = r] /\ UNCHANGED <<alone, ops>>
        BY <1>2, <1>6, <2>1 DEF Go, Set, Moved
    <2>5. Coherent(r)
        BY <1>1, <1>2, <1>3, <1>4, <2>3 DEF Coherent, SameTask, Switching
    <2>6. LockStep(p, r)
        BY <1>1, <1>2, <1>6, <2>3 DEF LockStep, Locked, SameTask
    <2>7. ASSUME alone[p] PROVE Facts(r)'
        <3>1. RenameFacts(o)
            BY <1>3, <2>7 DEF Facts
        <3>2. RestartsAgain(r) <=> RestartsAgain(o)
            BY <2>3 DEF RestartsAgain, SameTask
        <3>3. RenameFacts(r)'
            BY <1>1, <1>2, <2>3, <3>1, <3>2 DEF RenameFacts, SameTask, Updated, References, Kept
        <3> QED
            BY <1>4, <2>3, <3>3 DEF Facts, SwitchFacts, SameTask, Switching
    <2>8. Shared' /\ \A q \in Procs \ {p} : since'[q] = since[q]
        BY <1>1, <1>3, <1>6 DEF Shared
    <2>9. r.new = o.new
        BY <2>3 DEF SameTask
    <2> QED
        BY <1>1, <1>3, <1>6, <2>3, <2>4, <2>5, <2>6, <2>7, <2>8, <2>9, QuietKeeps
<1> QED
    BY <1>2, <1>5, <1>6 DEF Recheck

LEMMA RemoveNewKeeps ==
    ASSUME NfqwsInv, NEW p \in Procs, RemoveNew(p)
    PROVE  NfqwsInv'
<1>1. op[p].phase = "unlinkNew" /\ UNCHANGED loaded
    BY DEF RemoveNew, At
<1>2. PICK o : o = op[p]
    OBVIOUS
<1>3. o \in Frames /\ Coherent(o) /\ op[p] # Blank /\ Shared /\ (alone[p] => Facts(o))
    BY <1>1, <1>2, AtWork
<1>4. /\ o.kind = "rename" /\ o.old \in Lists /\ o.new \in Lists /\ o.pay \in Payloads
      /\ o.before = None /\ o.pay # Absent /\ Absent # None
    BY <1>1, <1>2, <1>3, NfqwsAssumption DEF Coherent, Switching
<1>5. PICK r : r = Answered(o, "rolled_back")
    OBVIOUS
<1>6. "rolled_back" \in Answers
    BY DEF Answers
<1>7. /\ r \in Frames /\ r.phase = "done" /\ SameTask(r, o) /\ r.before = o.before
      /\ r.left = o.left /\ r.mod = o.mod /\ r.bad = o.bad /\ r.answer = "rolled_back"
    BY <1>3, <1>5, <1>6, AnswerFrame
<1>8. alone[p] =>
        /\ o.old # o.new /\ list[o.old] = o.pay /\ list[o.new] = o.pay /\ Kept(o)
        /\ RestartsAgain(o) => loaded = conf[Active]
    BY <1>1, <1>2, <1>3, <1>4 DEF Facts, RenameFacts
<1>9. CASE Works /\ Unlink(p, o.new) /\ Answer(p, "rolled_back")
    <2>1. op' = [op EXCEPT ![p] = r] /\ UNCHANGED <<alone, ops>>
        BY <1>2, <1>5, <1>9 DEF Answer, Set, Answered
    <2>2. Coherent(r)
        BY <1>3, <1>4, <1>7 DEF Coherent, SameTask, Switching
    <2>3. LockStep(p, r)
        BY <1>7, <1>9 DEF LockStep, Locked, Answer
    <2>4. /\ list' = [list EXCEPT ![o.new] = Absent] /\ conf' = conf
          /\ since' = [since EXCEPT ![p] = {}]
          /\ excused' = excused \cup (References(o.new) \cap since[p])
        BY <1>9 DEF Unlink
    <2>5. excused' = excused \cup References(o.new)
        <3>1. References(o.new) \subseteq since[p]
            BY <1>1, <1>2 DEF NfqwsInv, FilesInv, Looked, At
        <3> QED
            BY <2>4, <3>1
    <2>6. since' \in [Procs -> SUBSET Configs] /\ \A q \in Procs \ {p} : since'[q] = since[q]
        BY <1>3, <2>4 DEF Shared
    <2>7. ASSUME alone[p] PROVE Truthful(r)'
        <3>1. list'[o.new] = Absent /\ list'[o.old] = o.pay
            BY <1>3, <1>4, <1>8, <2>4, <2>7 DEF Shared
        <3>2. Kept(r)'
            BY <1>7, <1>8, <2>4, <2>7 DEF Kept, SameTask
        <3>3. RestartsAgain(r) <=> RestartsAgain(o)
            BY <1>7 DEF RestartsAgain, SameTask
        <3> QED
            BY <1>1, <1>4, <1>7, <1>8, <2>4, <2>7, <3>1, <3>2, <3>3 DEF Truthful, SameTask, Exists
    <2>8. alone[p] => Facts(r)'
        BY <1>7, <2>7 DEF Facts, RenameFacts, SwitchFacts
    <2>9. r.phase \notin {"unlink", "unlinkNew"}
        BY <1>7
    <2> QED
        BY <1>1, <1>3, <1>4, <1>7, <1>9, <2>1, <2>2, <2>3, <2>4, <2>5, <2>6, <2>8, <2>9, GoneKeeps
<1>10. CASE /\ list[o.new] = Absent /\ Answer(p, "rolled_back")
            /\ Works /\ UNCHANGED <<conf, list, excused, since>>
    <2>1. Shared'
        BY <1>1, <1>3, <1>10, QuietTypes
    <2>2. ~alone[p]
        BY <1>4, <1>8, <1>10
    <2> QED
        BY <1>1, <1>2, <1>3, <1>4, <1>5, <1>6, <1>10, <2>1, <2>2, AnswerKeeps
<1>11. CASE (Works \/ Fails) /\ UNCHANGED <<conf, list, excused, since>> /\ Answer(p, "error")
    <2>1. Shared'
        BY <1>1, <1>3, <1>11, QuietTypes
    <2> QED
        BY <1>3, <1>11, <2>1, ErrorKeeps
<1> QED
    BY <1>2, <1>9, <1>10, <1>11 DEF RemoveNew, files

---------------------------------------------------------------------------
(* The handlers that replace the active config.                            *)

LEMMA GuardsKeeps ==
    ASSUME NfqwsInv, NEW p \in Procs, Guards(p)
    PROVE  NfqwsInv'
<1>1. op[p].phase = "guards" /\ UNCHANGED <<conf, list, excused, loaded, mu, since, faults>>
    BY DEF Guards, At, files
<1>2. PICK o : o = op[p]
    OBVIOUS
<1>3. o \in Frames /\ Coherent(o) /\ op[p] # Blank /\ Shared /\ (alone[p] => Facts(o))
    BY <1>1, <1>2, AtWork
<1>4. o.kind = "smart" /\ o.before = None
    BY <1>1, <1>2, <1>3 DEF Coherent, Switching
<1>5. PICK left, snap : left = {Active} /\ snap = [c \in {Active} |-> conf[Active]]
    OBVIOUS
<1>6. left \in SUBSET Configs /\ snap \in Snaps /\ DOMAIN snap = {Active}
    <2>1. conf[Active] \in SUBSET Lists
        BY <1>3 DEF Shared, Configs
    <2>2. snap \in [{Active} -> SUBSET Lists] /\ {Active} \in SUBSET Configs
        BY <1>5, <2>1 DEF Configs
    <2> QED
        BY <1>5, <2>2, SnapFacts
<1>7. PICK r : r = [o EXCEPT !.phase = "dependency", !.left = left, !.snap = snap]
    OBVIOUS
<1>8. /\ r \in Frames /\ r.phase = "dependency" /\ r.kind = o.kind /\ r.old = o.old /\ r.new = o.new
      /\ r.pay = o.pay /\ r.want = o.want /\ r.snap = snap /\ r.before = o.before
      /\ r.left = left /\ r.mod = o.mod /\ r.was = o.was /\ r.bad = o.bad /\ r.answer = o.answer
    BY <1>3, <1>6, <1>7 DEF Frames, Phases
<1>9. op' = [op EXCEPT ![p] = r] /\ UNCHANGED <<alone, ops>>
    BY <1>2, <1>5, <1>7 DEF Guards, Set
<1>10. Coherent(r)
    BY <1>1, <1>2, <1>3, <1>4, <1>5, <1>6, <1>8 DEF Coherent, Switching
<1>11. LockStep(p, r)
    BY <1>1, <1>2, <1>4, <1>8 DEF LockStep, Locked
<1>12. ASSUME alone[p] PROVE Facts(r)'
    <2>1. SwitchFacts(o)
        BY <1>3, <1>12 DEF Facts
    <2>2. SwitchFacts(r)'
        BY <1>1, <1>2, <1>4, <1>8, <2>1 DEF SwitchFacts, Exists, Switching
    <2> QED
        BY <1>4, <1>8, <2>2 DEF Facts, RenameFacts
<1>13. Shared'
    BY <1>1, <1>3 DEF Shared
<1> QED
    BY <1>1, <1>3, <1>8, <1>9, <1>10, <1>11, <1>12, <1>13, QuietKeeps

LEMMA WriteDepKeeps ==
    ASSUME NfqwsInv, NEW p \in Procs, WriteDep(p)
    PROVE  NfqwsInv'
<1>1. op[p].phase = "dependency" /\ UNCHANGED <<conf, excused, loaded, mu, since>>
    BY DEF WriteDep, At
<1>2. PICK o : o = op[p]
    OBVIOUS
<1>3. o \in Frames /\ Coherent(o) /\ op[p] # Blank /\ Shared /\ (alone[p] => Facts(o))
    BY <1>1, <1>2, AtWork
<1>4. /\ o.kind = "smart" /\ o.before = None /\ o.pay \in Payloads /\ o.new \in Lists \cup {None}
      /\ DOMAIN o.snap = {Active} /\ o.left = {Active} /\ o.answer = None
    BY <1>1, <1>2, <1>3 DEF Coherent, Switching, Frames
<1>5. CASE Works /\ Go(p, "write") /\ UNCHANGED list
    <2>1. PICK r : r = Moved(o, "write")
        OBVIOUS
    <2>2. "write" \in Phases
        BY DEF Phases
    <2>3. /\ r \in Frames /\ r.phase = "write" /\ SameTask(r, o) /\ r.before = o.before
          /\ r.left = o.left /\ r.mod = o.mod /\ r.bad = o.bad /\ r.answer = o.answer
        BY <1>3, <2>1, <2>2, MoveFrame
    <2>4. op' = [op EXCEPT ![p] = r] /\ UNCHANGED <<alone, ops>>
        BY <1>2, <1>5, <2>1 DEF Go, Set, Moved
    <2>5. Coherent(r)
        BY <1>1, <1>2, <1>3, <1>4, <2>3 DEF Coherent, SameTask, Switching
    <2>6. LockStep(p, r)
        BY <1>1, <1>2, <1>4, <2>3 DEF LockStep, Locked, SameTask
    <2>7. ASSUME alone[p] PROVE Facts(r)'
        <3>1. SwitchFacts(o)
            BY <1>3, <2>7 DEF Facts
        <3>2. SwitchFacts(r)'
            BY <1>1, <1>2, <1>4, <1>5, <2>3, <3>1 DEF SwitchFacts, SameTask, Exists, Switching
        <3> QED
            BY <1>4, <2>3, <3>2 DEF Facts, RenameFacts, SameTask
    <2>8. Shared'
        BY <1>1, <1>3, <1>5, QuietTypes
    <2> QED
        BY <1>1, <1>3, <1>5, <2>3, <2>4, <2>5, <2>6, <2>7, <2>8, QuietKeeps
<1>6. CASE /\ o.new # None /\ Works /\ list' = [list EXCEPT ![o.new] = o.pay]
           /\ Set(p, [o EXCEPT !.phase = "write", !.before = list[o.new]])
    <2>1. PICK before : before = list[o.new]
        OBVIOUS
    <2>2. before \in Payloads \cup {Absent} /\ o.new \in Lists
        BY <1>3, <1>4, <1>6, <2>1 DEF Shared
    <2>3. PICK r : r = [o EXCEPT !.phase = "write", !.before = before]
        OBVIOUS
    <2>4. /\ r \in Frames /\ r.phase = "write" /\ SameTask(r, o) /\ r.before = before
          /\ r.left = o.left /\ r.mod = o.mod /\ r.bad = o.bad /\ r.answer = o.answer
        BY <1>3, <2>2, <2>3 DEF Frames, Phases, SameTask
    <2>5. op' = [op EXCEPT ![p] = r] /\ UNCHANGED <<alone, ops>>
        BY <1>6, <2>1, <2>3 DEF Set
    <2>6. Coherent(r)
        BY <1>1, <1>2, <1>3, <1>4, <2>2, <2>4 DEF Coherent, SameTask, Switching
    <2>7. LockStep(p, r)
        BY <1>1, <1>2, <1>4, <2>4 DEF LockStep, Locked, SameTask
    <2>8. ASSUME alone[p] PROVE Facts(r)'
        <3>1. SwitchFacts(o) /\ o.want \subseteq Lists
            BY <1>3, <2>8 DEF Facts, Frames
        <3>2. \A k \in o.want \ {o.new} : list[k] # Absent
            BY <1>1, <1>2, <1>4, <3>1 DEF SwitchFacts, Exists, Switching
        <3>3. \A k \in o.want \ {o.new} : list'[k] # Absent
            BY <1>3, <1>6, <3>1, <3>2 DEF Shared
        <3>4. SwitchFacts(r)'
            BY <1>4, <2>4, <3>3 DEF SwitchFacts, SameTask, Exists
        <3> QED
            BY <1>4, <2>4, <3>4 DEF Facts, RenameFacts, SameTask
    <2> QED
        BY <1>1, <1>3, <1>4, <1>6, <2>2, <2>4, <2>5, <2>6, <2>7, <2>8, ListKeeps
<1>7. CASE Fails /\ Set(p, [o EXCEPT !.phase = "undo"]) /\ UNCHANGED list
    <2>1. PICK r : r = Moved(o, "undo")
        OBVIOUS
    <2>2. "undo" \in Phases
        BY DEF Phases
    <2>3. /\ r \in Frames /\ r.phase = "undo" /\ SameTask(r, o) /\ r.before = o.before
          /\ r.left = o.left /\ r.mod = o.mod /\ r.bad = o.bad /\ r.answer = o.answer
        BY <1>3, <2>1, <2>2, MoveFrame
    <2>4. op' = [op EXCEPT ![p] = r] /\ UNCHANGED <<alone, ops>>
        BY <1>7, <2>1 DEF Set, Moved
    <2>5. Coherent(r)
        BY <1>1, <1>2, <1>3, <1>4, <2>3 DEF Coherent, SameTask, Switching
    <2>6. LockStep(p, r)
        BY <1>1, <1>2, <1>4, <2>3 DEF LockStep, Locked, SameTask
    <2>7. Facts(r)'
        BY <1>4, <2>3 DEF Facts, RenameFacts, SwitchFacts, SameTask
    <2>8. Shared'
        BY <1>1, <1>3, <1>7, QuietTypes
    <2> QED
        BY <1>1, <1>3, <1>7, <2>3, <2>4, <2>5, <2>6, <2>7, <2>8, QuietKeeps
<1> QED
    BY <1>2, <1>5, <1>6, <1>7 DEF WriteDep

LEMMA ReloadKeeps ==
    ASSUME NfqwsInv, NEW p \in Procs, Reload(p)
    PROVE  NfqwsInv'
<1>1. /\ op[p].phase = "restart" /\ op[p].kind = "save"
      /\ UNCHANGED <<conf, list, excused, since>>
    BY DEF Reload, At, files
<1>2. PICK o : o = op[p]
    OBVIOUS
<1>3. o \in Frames /\ Coherent(o) /\ op[p] # Blank /\ Shared /\ (alone[p] => Facts(o))
    BY <1>1, <1>2, AtWork
<1>4. Shared'
    BY <1>1, <1>3, QuietTypes DEF Reload, RestartOk, RestartFail, RestartDies, Works
<1>5. CASE Undo(p) /\ UNCHANGED mu
    BY <1>1, <1>3, <1>4, <1>5, UndoKeeps DEF Switching
<1>6. CASE Answer(p, "ok")
    <2>1. PICK r : r = Answered(o, "ok")
        OBVIOUS
    <2>2. "ok" \in Answers /\ "ok" # "rolled_back"
        BY DEF Answers
    <2>3. SameTask(r, o) /\ r.answer = "ok"
        BY <1>3, <2>1, <2>2, AnswerFrame
    <2>4. ASSUME alone[p] PROVE Truthful(r)'
        <3>1. conf[Active] = o.want
            BY <1>1, <1>2, <1>3, <2>4 DEF Facts, SwitchFacts, Switching
        <3> QED
            BY <1>1, <1>2, <2>3, <3>1 DEF Truthful, SameTask
    <2> QED
        BY <1>1, <1>2, <1>3, <1>4, <1>6, <2>1, <2>2, <2>4, AnswerKeeps
<1> QED
    BY <1>5, <1>6 DEF Reload

LEMMA VerifyKeeps ==
    ASSUME NfqwsInv, NEW p \in Procs, Verify(p)
    PROVE  NfqwsInv'
<1>1. /\ op[p].phase = "verify" /\ op[p].kind \in {"activate", "restore", "smart"}
      /\ UNCHANGED <<conf, list, excused, loaded, since>>
    BY DEF Verify, At, files
<1>2. PICK o : o = op[p]
    OBVIOUS
<1>3. o \in Frames /\ Coherent(o) /\ op[p] # Blank /\ Shared /\ (alone[p] => Facts(o))
    BY <1>1, <1>2, AtWork
<1>4. Shared'
    BY <1>1, <1>3, QuietTypes DEF Verify
<1>5. CASE Undo(p) /\ UNCHANGED mu
    BY <1>1, <1>3, <1>4, <1>5, UndoKeeps DEF Switching
<1>6. CASE /\ Answer(p, "ok") /\ conf[Active] = o.want /\ (o.was => loaded # None)
           /\ o.kind = "smart" /\ o.new # None => list[o.new] = o.pay
    <2>1. PICK r : r = Answered(o, "ok")
        OBVIOUS
    <2>2. "ok" \in Answers /\ "ok" # "rolled_back"
        BY DEF Answers
    <2>3. SameTask(r, o) /\ r.answer = "ok" /\ r.mod = o.mod
        BY <1>3, <2>1, <2>2, AnswerFrame
    <2>4. ASSUME alone[p] PROVE Truthful(r)'
        <3>1. SwitchFacts(o)
            BY <1>3, <2>4 DEF Facts
        <3>2. Restarts(o) => loaded = conf[Active]
            BY <1>1, <1>2, <1>6, <3>1 DEF SwitchFacts, Switching, Restarts
        <3>3. o.kind = "smart" => \A l \in o.want : Exists(l)
            <4> SUFFICES ASSUME o.kind = "smart", NEW l \in o.want PROVE list[l] # Absent
                BY DEF Exists
            <4>1. CASE l = o.new
                <5>1. o.pay \in Payloads /\ o.new # None
                    BY <1>3, <4>1, NfqwsAssumption DEF Coherent, Switching, Frames
                <5> QED
                    BY <1>6, <4>1, <5>1, NfqwsAssumption
            <4>2. CASE l # o.new
                BY <1>1, <1>2, <3>1, <4>2 DEF SwitchFacts, Switching, Exists
            <4> QED
                BY <4>1, <4>2
        <3>4. Restarts(r) <=> Restarts(o)
            BY <2>3 DEF Restarts, SameTask
        <3> QED
            BY <1>1, <1>2, <1>6, <2>3, <3>2, <3>3, <3>4 DEF Truthful, SameTask, Exists
    <2> QED
        BY <1>1, <1>2, <1>3, <1>4, <1>6, <2>1, <2>2, <2>4, AnswerKeeps
<1> QED
    BY <1>2, <1>5, <1>6 DEF Verify

LEMMA UndoDepKeeps ==
    ASSUME NfqwsInv, NEW p \in Procs, UndoDep(p)
    PROVE  NfqwsInv'
<1>1. op[p].phase = "undo" /\ op[p].kind # "rename" /\ UNCHANGED <<loaded, mu, since>>
    BY DEF UndoDep, At
<1>2. PICK o : o = op[p]
    OBVIOUS
<1>3. o \in Frames /\ Coherent(o) /\ op[p] # Blank /\ Shared /\ (alone[p] => Facts(o))
    BY <1>1, <1>2, AtWork
<1>4. o.kind \in Switching /\ DOMAIN o.snap = {Active} /\ (o.before # None => o.new \in Lists)
    BY <1>1, <1>2, <1>3 DEF Coherent
<1>5. PICK left : left = {Active}
    OBVIOUS
<1>6. ASSUME NEW bad \in BOOLEAN, NEW r, r = [o EXCEPT !.phase = "undoWrite", !.left = left, !.bad = bad],
             Set(p, r)
      PROVE  /\ r \in Frames /\ r.phase = "undoWrite" /\ SameTask(r, o) /\ r.before = o.before
             /\ r.bad = bad /\ Coherent(r) /\ LockStep(p, r)
             /\ op' = [op EXCEPT ![p] = r] /\ UNCHANGED <<alone, ops>>
    <2>1. left \in SUBSET Configs
        BY <1>5 DEF Configs
    <2>2. /\ r \in Frames /\ r.phase = "undoWrite" /\ SameTask(r, o) /\ r.before = o.before
          /\ r.left = left /\ r.mod = o.mod /\ r.bad = bad /\ r.answer = o.answer
        BY <1>3, <1>6, <2>1 DEF Frames, Phases, SameTask
    <2>3. Coherent(r)
        BY <1>1, <1>2, <1>3, <1>4, <1>5, <2>2 DEF Coherent, SameTask, Switching
    <2>4. LockStep(p, r)
        BY <1>1, <1>2, <2>2 DEF LockStep, Locked, SameTask
    <2> QED
        BY <1>6, <2>2, <2>3, <2>4 DEF Set
<1>7. ASSUME NEW r, SameTask(r, o), r.phase = "undoWrite", r.before = o.before,
             r.bad \/ o.before = None \/ list'[o.new] = o.before
      PROVE  Facts(r)'
    BY <1>1, <1>2, <1>7 DEF Facts, RenameFacts, SwitchFacts, SameTask
<1>8. PICK r0 : r0 = [o EXCEPT !.phase = "undoWrite", !.left = left, !.bad = o.bad]
    OBVIOUS
<1>9. o.bad \in BOOLEAN
    BY <1>3 DEF Frames
<1>10. CASE o.before = None /\ Works /\ Set(p, r0) /\ UNCHANGED <<conf, list, excused>>
    <2>1. /\ r0 \in Frames /\ r0.phase = "undoWrite" /\ SameTask(r0, o) /\ r0.before = o.before
          /\ Coherent(r0) /\ LockStep(p, r0)
          /\ op' = [op EXCEPT ![p] = r0] /\ UNCHANGED <<alone, ops>>
        BY <1>6, <1>8, <1>9, <1>10
    <2>2. Facts(r0)'
        BY <1>7, <1>10, <2>1
    <2>3. Shared'
        BY <1>1, <1>3, <1>10, QuietTypes
    <2> QED
        BY <1>1, <1>3, <1>10, <2>1, <2>2, <2>3, QuietKeeps
<1>11. CASE /\ o.before # None /\ Works /\ Set(p, r0)
            /\ list' = [list EXCEPT ![o.new] = o.before] /\ UNCHANGED conf
            /\ excused' = IF o.before = Absent THEN excused \cup References(o.new) ELSE excused
    <2>1. /\ r0 \in Frames /\ r0.phase = "undoWrite" /\ SameTask(r0, o) /\ r0.before = o.before
          /\ Coherent(r0) /\ LockStep(p, r0)
          /\ op' = [op EXCEPT ![p] = r0] /\ UNCHANGED <<alone, ops>>
        BY <1>6, <1>8, <1>9, <1>11
    <2>2. o.new \in Lists /\ list'[o.new] = o.before /\ o.before \in Payloads \cup {Absent}
        BY <1>3, <1>4, <1>11 DEF Shared, Frames
    <2>3. Facts(r0)' /\ r0.phase \notin {"unlink", "unlinkNew"}
        BY <1>7, <2>1, <2>2
    <2>4. CASE o.before = Absent
        <3>1. since' \in [Procs -> SUBSET Configs]
            BY <1>1, <1>3 DEF Shared
        <3> QED
            BY <1>1, <1>3, <1>11, <2>1, <2>2, <2>3, <2>4, <3>1, GoneKeeps
    <2>5. CASE o.before # Absent
        BY <1>1, <1>3, <1>11, <2>1, <2>2, <2>3, <2>5, ListKeeps
    <2> QED
        BY <2>4, <2>5
<1>12. PICK r1 : r1 = [o EXCEPT !.phase = "undoWrite", !.left = left, !.bad = TRUE]
    OBVIOUS
<1>13. CASE Fails /\ Set(p, r1) /\ UNCHANGED <<conf, list, excused>>
    <2>1. /\ r1 \in Frames /\ r1.phase = "undoWrite" /\ SameTask(r1, o) /\ r1.before = o.before
          /\ r1.bad /\ Coherent(r1) /\ LockStep(p, r1)
          /\ op' = [op EXCEPT ![p] = r1] /\ UNCHANGED <<alone, ops>>
        BY <1>6, <1>12, <1>13
    <2>2. Facts(r1)'
        BY <1>7, <2>1
    <2>3. Shared'
        BY <1>1, <1>3, <1>13, QuietTypes
    <2> QED
        BY <1>1, <1>3, <1>13, <2>1, <2>2, <2>3, QuietKeeps
<1>14. PICK o2 : o2 = [o EXCEPT !.phase = "undoWrite", !.left = {Active}]
    OBVIOUS
<1>15. o2 = r0
    BY <1>3, <1>5, <1>8, <1>14 DEF Frames
<1>16. [o2 EXCEPT !.bad = TRUE] = r1
    BY <1>5, <1>12, <1>14
<1> QED
    BY <1>2, <1>10, <1>11, <1>13, <1>14, <1>15, <1>16 DEF UndoDep, files

---------------------------------------------------------------------------
(* Lists, the library of saved configs and the service.                    *)

(* The other handlers promise only that they have done their step. *)
LEMMA PlainOk ==
    ASSUME NEW o \in Frames, Coherent(o), o.kind \notin Switching \cup {"rename"},
           NEW r, r = Answered(o, "ok")
    PROVE  /\ r \in Frames /\ Coherent(r) /\ ~Locked(r) /\ r.phase = "done"
           /\ Truthful(r)' /\ Facts(r)'
<1>1. "ok" \in Answers /\ "ok" # "rolled_back"
    BY DEF Answers
<1>2. /\ r \in Frames /\ r.phase = "done" /\ SameTask(r, o) /\ r.before = o.before
      /\ r.left = o.left /\ r.mod = o.mod /\ r.bad = o.bad /\ r.answer = "ok"
    BY <1>1, AnswerFrame
<1>3. Coherent(r) /\ ~r.was
    BY <1>1, <1>2 DEF Coherent, SameTask
<1>4. Truthful(r)'
    BY <1>1, <1>2, <1>3 DEF Truthful, Restarts, SameTask, Switching
<1> QED
    BY <1>2, <1>3, <1>4 DEF Locked, Facts, RenameFacts, SwitchFacts

LEMMA CreateExclusiveKeeps ==
    ASSUME NfqwsInv, NEW p \in Procs, CreateExclusive(p)
    PROVE  NfqwsInv'
<1>1. op[p].phase = "create" /\ UNCHANGED <<conf, excused, loaded, since, faults>>
    BY DEF CreateExclusive, At
<1>2. PICK o : o = op[p]
    OBVIOUS
<1>3. o \in Frames /\ Coherent(o) /\ op[p] # Blank /\ Shared
    BY <1>1, <1>2, AtWork
<1>4. o.kind = "create" /\ o.old \in Lists /\ Empty \in Payloads
    BY <1>1, <1>2, <1>3, NfqwsAssumption DEF Coherent, Switching
<1>5. CASE Answer(p, "error") /\ UNCHANGED list
    <2>1. Shared'
        BY <1>1, <1>3, <1>5 DEF Shared
    <2> QED
        BY <1>1, <1>3, <1>5, <2>1, ErrorKeeps
<1>6. CASE Answer(p, "ok") /\ list' = [list EXCEPT ![o.old] = Empty]
    <2>1. PICK r : r = Answered(o, "ok")
        OBVIOUS
    <2>2. /\ r \in Frames /\ Coherent(r) /\ ~Locked(r) /\ r.phase \notin {"unlink", "unlinkNew"}
          /\ Facts(r)'
        BY <1>3, <1>4, <2>1, PlainOk DEF Switching
    <2>3. op' = [op EXCEPT ![p] = r] /\ UNCHANGED <<alone, ops>> /\ LockStep(p, r)
        BY <1>2, <1>6, <2>1, <2>2 DEF Answer, Set, Answered, LockStep
    <2>4. Works
        BY <1>1 DEF Works
    <2> QED
        BY <1>1, <1>3, <1>4, <1>6, <2>2, <2>3, <2>4, ListKeeps
<1> QED
    BY <1>2, <1>5, <1>6 DEF CreateExclusive

LEMMA PreimageKeeps ==
    ASSUME NfqwsInv, NEW p \in Procs, Preimage(p)
    PROVE  NfqwsInv'
<1>1. op[p].phase = "preimage" /\ UNCHANGED <<conf, list, excused, loaded, since, faults>>
    BY DEF Preimage, At, files
<1>2. PICK o : o = op[p]
    OBVIOUS
<1>3. o \in Frames /\ Coherent(o) /\ op[p] # Blank /\ Shared
    BY <1>1, <1>2, AtWork
<1>4. o.kind = "list" /\ Shared'
    BY <1>1, <1>2, <1>3 DEF Coherent, Switching, Shared
<1>5. CASE Answer(p, "error")
    BY <1>1, <1>3, <1>4, <1>5, ErrorKeeps
<1>6. CASE Go(p, "replace") /\ UNCHANGED mu
    <2>1. PICK r : r = Moved(o, "replace")
        OBVIOUS
    <2>2. "replace" \in Phases
        BY DEF Phases
    <2>3. /\ r \in Frames /\ r.phase = "replace" /\ SameTask(r, o) /\ r.before = o.before
          /\ r.left = o.left /\ r.mod = o.mod /\ r.bad = o.bad /\ r.answer = o.answer
        BY <1>3, <2>1, <2>2, MoveFrame
    <2>4. op' = [op EXCEPT ![p] = r] /\ UNCHANGED <<alone, ops>>
        BY <1>2, <1>6, <2>1 DEF Go, Set, Moved
    <2>5. Coherent(r)
        BY <1>1, <1>2, <1>3, <1>4, <2>3 DEF Coherent, SameTask, Switching
    <2>6. LockStep(p, r) /\ Facts(r)'
        BY <1>2, <1>4, <1>6, <2>3
        DEF LockStep, Locked, SameTask, Facts, RenameFacts, SwitchFacts, Switching
    <2> QED
        BY <1>1, <1>3, <1>4, <2>3, <2>4, <2>5, <2>6, QuietKeeps
<1> QED
    BY <1>5, <1>6 DEF Preimage

LEMMA ReplaceKeeps ==
    ASSUME NfqwsInv, NEW p \in Procs, Replace(p)
    PROVE  NfqwsInv'
<1>1. op[p].phase = "replace" /\ UNCHANGED <<conf, excused, loaded, since>>
    BY DEF Replace, At
<1>2. PICK o : o = op[p]
    OBVIOUS
<1>3. o \in Frames /\ Coherent(o) /\ op[p] # Blank /\ Shared
    BY <1>1, <1>2, AtWork
<1>4. o.kind = "list" /\ o.old \in Lists /\ o.pay \in Payloads
    BY <1>1, <1>2, <1>3 DEF Coherent, Switching
<1>5. CASE Fails /\ Answer(p, "error") /\ UNCHANGED list
    <2>1. Shared'
        BY <1>1, <1>3, <1>5, QuietTypes
    <2> QED
        BY <1>1, <1>3, <1>5, <2>1, ErrorKeeps
<1>6. CASE Works /\ Answer(p, "ok") /\ list' = [list EXCEPT ![o.old] = o.pay]
    <2>1. PICK r : r = Answered(o, "ok")
        OBVIOUS
    <2>2. /\ r \in Frames /\ Coherent(r) /\ ~Locked(r) /\ r.phase \notin {"unlink", "unlinkNew"}
          /\ Facts(r)'
        BY <1>3, <1>4, <2>1, PlainOk DEF Switching
    <2>3. op' = [op EXCEPT ![p] = r] /\ UNCHANGED <<alone, ops>> /\ LockStep(p, r)
        BY <1>2, <1>6, <2>1, <2>2 DEF Answer, Set, Answered, LockStep
    <2> QED
        BY <1>1, <1>3, <1>4, <1>6, <2>2, <2>3, ListKeeps
<1> QED
    BY <1>2, <1>5, <1>6 DEF Replace

LEMMA AllowDeleteKeeps ==
    ASSUME NfqwsInv, NEW p \in Procs, AllowDelete(p)
    PROVE  NfqwsInv'
<1>1. /\ op[p].phase = "verify" /\ op[p].kind = "delete"
      /\ UNCHANGED <<conf, list, excused, loaded, faults>>
    BY DEF AllowDelete, At, files
<1>2. PICK o : o = op[p]
    OBVIOUS
<1>3. o \in Frames /\ Coherent(o) /\ op[p] # Blank /\ Shared
    BY <1>1, <1>2, AtWork
<1>4. CASE Answer(p, "error") /\ UNCHANGED since
    <2>1. Shared'
        BY <1>1, <1>3, <1>4 DEF Shared
    <2> QED
        BY <1>1, <1>3, <1>4, <2>1, ErrorKeeps
<1>5. CASE /\ Go(p, "unlink") /\ UNCHANGED mu /\ since' = [since EXCEPT ![p] = {}]
           /\ References(o.old) = {}
    <2>1. PICK r : r = Moved(o, "unlink")
        OBVIOUS
    <2>2. "unlink" \in Phases
        BY DEF Phases
    <2>3. /\ r \in Frames /\ r.phase = "unlink" /\ SameTask(r, o) /\ r.before = o.before
          /\ r.left = o.left /\ r.mod = o.mod /\ r.bad = o.bad /\ r.answer = o.answer
        BY <1>3, <2>1, <2>2, MoveFrame
    <2>4. op' = [op EXCEPT ![p] = r] /\ UNCHANGED <<alone, ops>>
        BY <1>2, <1>5, <2>1 DEF Go, Set, Moved
    <2>5. Coherent(r)
        BY <1>1, <1>2, <1>3, <2>3 DEF Coherent, SameTask, Switching
    <2>6. LockStep(p, r) /\ Facts(r)' /\ r.old = o.old
        BY <1>1, <1>2, <1>5, <2>3
        DEF LockStep, Locked, SameTask, Facts, RenameFacts, SwitchFacts, Switching
    <2>7. Shared' /\ \A q \in Procs \ {p} : since'[q] = since[q]
        BY <1>1, <1>3, <1>5 DEF Shared
    <2> QED
        BY <1>1, <1>3, <1>5, <2>3, <2>4, <2>5, <2>6, <2>7, QuietKeeps
<1> QED
    BY <1>2, <1>4, <1>5 DEF AllowDelete

LEMMA DiscardKeeps ==
    ASSUME NfqwsInv, NEW p \in Procs, Discard(p)
    PROVE  NfqwsInv'
<1>1. op[p].phase = "drop" /\ UNCHANGED loaded
    BY DEF Discard, At
<1>2. PICK o : o = op[p]
    OBVIOUS
<1>3. o \in Frames /\ Coherent(o) /\ op[p] # Blank /\ Shared
    BY <1>1, <1>2, AtWork
<1>4. o.kind = "drop" /\ o.left \subseteq Saved /\ o.left # {}
    BY <1>1, <1>2, <1>3 DEF Coherent, Switching
<1>5. PICK c : c = NextConfig(o)
    OBVIOUS
<1>6. c \in Configs /\ c # Active
    BY <1>4, <1>5, ConfigFacts, NfqwsAssumption DEF Configs
<1>7. CASE Works /\ Put(p, c, Absent) /\ Answer(p, "ok")
    <2>1. PICK r : r = Answered(o, "ok")
        OBVIOUS
    <2>2. /\ r \in Frames /\ Coherent(r) /\ ~Locked(r) /\ r.phase \notin {"unlink", "unlinkNew"}
          /\ Facts(r)'
        BY <1>3, <1>4, <2>1, PlainOk DEF Switching
    <2>3. op' = [op EXCEPT ![p] = r] /\ UNCHANGED <<alone, ops>> /\ LockStep(p, r)
        BY <1>2, <1>7, <2>1, <2>2 DEF Answer, Set, Answered, LockStep
    <2> QED
        BY <1>1, <1>3, <1>6, <1>7, <2>2, <2>3, PutKeeps
<1>8. CASE (Works \/ Fails) /\ Answer(p, "error") /\ UNCHANGED <<conf, list, excused, since>>
    <2>1. Shared'
        BY <1>1, <1>3, <1>8, QuietTypes
    <2> QED
        BY <1>1, <1>3, <1>8, <2>1, ErrorKeeps
<1> QED
    BY <1>2, <1>5, <1>7, <1>8 DEF Discard, files

LEMMA RunInitKeeps ==
    ASSUME NfqwsInv, NEW p \in Procs, RunInit(p)
    PROVE  NfqwsInv'
<1>1. op[p].phase = "init" /\ UNCHANGED <<conf, list, excused, since>>
    BY DEF RunInit, At, files
<1>2. PICK o : o = op[p]
    OBVIOUS
<1>3. o \in Frames /\ Coherent(o) /\ op[p] # Blank /\ Shared
    BY <1>1, <1>2, AtWork
<1>4. o.kind \notin Switching \cup {"rename"}
    BY <1>1, <1>2, <1>3 DEF Coherent
<1>5. Shared'
    BY <1>1, <1>3, QuietTypes DEF RunInit, RestartOk, RestartFail, RestartDies, Works
<1>6. CASE Answer(p, "error")
    BY <1>1, <1>3, <1>5, <1>6, ErrorKeeps
<1>7. CASE Answer(p, "ok")
    <2>1. PICK r : r = Answered(o, "ok")
        OBVIOUS
    <2>2. Truthful(r)'
        BY <1>3, <1>4, <2>1, PlainOk
    <2>3. "ok" \in Answers /\ "ok" # "rolled_back"
        BY DEF Answers
    <2> QED
        BY <1>1, <1>2, <1>3, <1>5, <1>7, <2>1, <2>2, <2>3, AnswerKeeps
<1> QED
    BY <1>6, <1>7 DEF RunInit

---------------------------------------------------------------------------
(* Requests arrive, return and die.                                        *)

(* A request that begins is alone when nobody else is at work, and takes   *)
(* that from those that were.                                              *)
LEMMA BeginKeeps ==
    ASSUME NfqwsInv, NEW p \in Procs, NEW o \in Frames, Coherent(o), ~Locked(o),
           o.phase \notin {"unlink", "unlinkNew"}, Facts(o), Begin(p, o)
    PROVE  NfqwsInv'
<1>1. /\ TypeOK /\ LockHeld /\ Looked /\ RefsResolve /\ Solo
      /\ \A q \in Procs : Coherent(op[q]) /\ (alone[q] => Facts(op[q]))
      /\ op \in [Procs -> Frames]
    BY DEF NfqwsInv, FilesInv, TypeOK
<1>2. /\ op[p] = Blank /\ ops < MaxOps /\ ops' = ops + 1 /\ op' = [op EXCEPT ![p] = o]
      /\ alone' = [q \in Procs |-> IF q = p THEN \A r \in Procs : op[r] = Blank
                                   ELSE alone[q] /\ op[q] = Blank]
      /\ UNCHANGED <<conf, list, excused, loaded, mu, since, faults>>
    BY DEF Begin, files
<1>3. op' \in [Procs -> Frames] /\ op'[p] = o /\ \A q \in Procs : q # p => op'[q] = op[q]
    BY <1>1, <1>2
<1>4. alone' \in [Procs -> BOOLEAN]
    BY <1>1, <1>2, Zenon DEF TypeOK
<1>5. TypeOK'
    <2>1. ops' \in 0..MaxOps
        BY <1>1, <1>2, NfqwsAssumption DEF TypeOK
    <2>2. UNCHANGED <<conf, list, loaded, mu, since, excused, faults>>
        BY <1>2
    <2> QED
        BY <1>1, <1>3, <1>4, <2>1, <2>2 DEF TypeOK
<1>6. \A q \in Procs : Coherent(op'[q])
    BY <1>1, <1>3
<1>7. LockHeld'
    <2>1. ~Locked(op[p])
        BY <1>2, BlankFrame DEF Locked
    <2> QED
        BY <1>1, <1>2, <1>3, <2>1 DEF LockHeld
<1>8. Looked'
    BY <1>1, <1>2, <1>3 DEF Looked, At, References
<1>9. RefsResolve'
    BY <1>1, <1>2 DEF RefsResolve, Exists
<1>10. ASSUME NEW q \in Procs, alone'[q]
       PROVE  \A r \in Procs \ {p} : q = p \/ r = q => op'[r] = Blank
    BY <1>2, <1>3, <1>10
<1>11. Solo'
    <2> SUFFICES ASSUME NEW q \in Procs, alone'[q], op'[q] # Blank, NEW r \in Procs \ {q}
                 PROVE  op'[r] = Blank
        BY DEF Solo
    <2>1. q = p
        BY <1>10
    <2> QED
        BY <1>10, <2>1
<1>12. ASSUME NEW q \in Procs, alone'[q] PROVE Facts(op[q])'
    <2>1. CASE q = p
        <3>1. Facts(o)'
            BY <1>2
            DEF Facts, RenameFacts, SwitchFacts, Truthful, Kept, Previewed, Snapshots, References, Exists,
                Updated, RestartsAgain, Restarts
        <3> QED
            BY <1>3, <2>1, <3>1
    <2>2. CASE q # p
        <3>1. op'[q] = Blank
            BY <1>10, <1>12, <2>2
        <3>2. PICK b : b = Blank
            OBVIOUS
        <3>3. Facts(b)'
            BY <3>2, BlankFrame
        <3> QED
            BY <3>1, <3>2, <3>3
    <2> QED
        BY <2>1, <2>2
<1> QED
    BY <1>5, <1>6, <1>7, <1>8, <1>9, <1>11, <1>12 DEF NfqwsInv, FilesInv

LEMMA RenameKeeps ==
    ASSUME NfqwsInv, NEW p \in Procs, NEW l \in Lists, NEW k \in Lists, Rename(p, l, k)
    PROVE  NfqwsInv'
<1>1. TypeOK /\ Previewed(l, k)
    BY DEF NfqwsInv, FilesInv, Rename
<1>2. PICK v : v = list[l]
    OBVIOUS
<1>3. v \in Payloads
    BY <1>1, <1>2 DEF TypeOK, Previewed, Exists
<1>4. PICK s : s = Snapshots(l)
    OBVIOUS
<1>5. s \in Snaps
    <2>1. PICK S : S = References(l)
        OBVIOUS
    <2>2. S \in SUBSET Configs /\ \A c \in S : conf[c] \in SUBSET Lists
        BY <1>1, <2>1 DEF References, TypeOK
    <2>3. s \in [S -> SUBSET Lists]
        BY <1>4, <2>1, <2>2 DEF Snapshots
    <2> QED
        BY <2>2, <2>3, SnapFacts
<1>6. PICK b : b = Blank
    OBVIOUS
<1>7. /\ b \in Frames /\ b.mod = {} /\ b.before = None /\ b.answer = None
    BY <1>6, BlankFrame DEF Blank
<1>8. PICK o : o = [b EXCEPT !.kind = "rename", !.phase = "plan", !.old = l, !.new = k,
                             !.pay = v, !.snap = s]
    OBVIOUS
<1>9. o \in Frames
    BY <1>3, <1>5, <1>7, <1>8 DEF Frames, Kinds, Phases
<1>10. /\ o.kind = "rename" /\ o.phase = "plan" /\ o.old = l /\ o.new = k /\ o.pay = v /\ o.snap = s
       /\ o.mod = {} /\ o.before = None /\ o.answer = None
    BY <1>7, <1>8 DEF Frames
<1>11. Coherent(o)
    BY <1>3, <1>10 DEF Coherent, Switching
<1>12. ~Locked(o) /\ o.phase \notin {"unlink", "unlinkNew"}
    BY <1>10 DEF Locked
<1>13. Facts(o)
    BY <1>1, <1>2, <1>4, <1>10 DEF Facts, RenameFacts, SwitchFacts, Switching
<1>14. Begin(p, o)
    BY <1>2, <1>4, <1>6, <1>8 DEF Rename
<1> QED
    BY <1>9, <1>11, <1>12, <1>13, <1>14, BeginKeeps

LEMMA SwitchKeeps ==
    ASSUME NfqwsInv, NEW p \in Procs, NEW kind \in {"save", "activate", "restore"},
           NEW x \in SUBSET Lists, Switch(p, kind, x)
    PROVE  NfqwsInv'
<1>1. TypeOK
    BY DEF NfqwsInv, FilesInv
<1>2. PICK s : s = [c \in {Active} |-> conf[Active]]
    OBVIOUS
<1>3. s \in Snaps /\ DOMAIN s = {Active}
    <2>1. {Active} \in SUBSET Configs /\ conf[Active] \in SUBSET Lists
        BY <1>1 DEF TypeOK, Configs
    <2>2. s \in [{Active} -> SUBSET Lists]
        BY <1>2, <2>1
    <2> QED
        BY <2>1, <2>2, SnapFacts
<1>4. PICK was \in BOOLEAN : was = (loaded # None)
    OBVIOUS
<1>5. PICK b : b = Blank
    OBVIOUS
<1>6. b \in Frames /\ b.before = None /\ b.answer = None
    BY <1>5, BlankFrame DEF Blank
<1>7. PICK o : o = [b EXCEPT !.kind = kind, !.phase = "write", !.want = x, !.left = {Active},
                             !.snap = s, !.was = was]
    OBVIOUS
<1>8. o \in Frames
    <2>1. kind \in Kinds /\ "write" \in Phases /\ {Active} \in SUBSET Configs
        BY DEF Kinds, Switching, Phases, Configs
    <2> QED
        BY <1>3, <1>4, <1>6, <1>7, <2>1 DEF Frames
<1>9. /\ o.kind = kind /\ o.phase = "write" /\ o.left = {Active} /\ o.snap = s
      /\ o.before = None /\ o.answer = None
    BY <1>6, <1>7 DEF Frames
<1>10. Coherent(o)
    BY <1>3, <1>9 DEF Coherent, Switching
<1>11. ~Locked(o) /\ o.phase \notin {"unlink", "unlinkNew"}
    BY <1>9 DEF Locked
<1>12. Facts(o)
    BY <1>9 DEF Facts, RenameFacts, SwitchFacts
<1>13. Begin(p, o)
    BY <1>2, <1>4, <1>5, <1>7 DEF Switch
<1> QED
    BY <1>8, <1>10, <1>11, <1>12, <1>13, BeginKeeps

LEMMA SmartApplyKeeps ==
    ASSUME NfqwsInv, NEW p \in Procs, NEW x \in SUBSET Lists, NEW l \in Lists \cup {None},
           NEW v \in Payloads, SmartApply(p, x, l, v)
    PROVE  NfqwsInv'
<1>1. (l # None => l \in x) /\ \A k \in x \ {l} : Exists(k)
    BY DEF SmartApply
<1>2. PICK was \in BOOLEAN : was = (loaded # None)
    OBVIOUS
<1>3. PICK b : b = Blank
    OBVIOUS
<1>4. b \in Frames /\ b.before = None /\ b.answer = None
    BY <1>3, BlankFrame DEF Blank
<1>5. PICK o : o = [b EXCEPT !.kind = "smart", !.phase = "guards", !.want = x,
                             !.new = l, !.pay = v, !.was = was]
    OBVIOUS
<1>6. o \in Frames
    <2>1. "smart" \in Kinds /\ "guards" \in Phases
        BY DEF Kinds, Switching, Phases
    <2> QED
        BY <1>2, <1>4, <1>5, <2>1 DEF Frames
<1>7. /\ o.kind = "smart" /\ o.phase = "guards" /\ o.want = x /\ o.new = l /\ o.pay = v
      /\ o.before = None /\ o.answer = None
    BY <1>4, <1>5 DEF Frames
<1>8. Coherent(o)
    BY <1>1, <1>7 DEF Coherent, Switching
<1>9. ~Locked(o) /\ o.phase \notin {"unlink", "unlinkNew"}
    BY <1>7 DEF Locked
<1>10. Facts(o)
    BY <1>1, <1>7 DEF Facts, RenameFacts, SwitchFacts
<1>11. Begin(p, o)
    BY <1>2, <1>3, <1>5 DEF SmartApply
<1> QED
    BY <1>6, <1>8, <1>9, <1>10, <1>11, BeginKeeps

(* The other requests know nothing but what they are about. *)
LEMMA PlainBegins ==
    ASSUME NfqwsInv, NEW p \in Procs, NEW o \in Frames, Coherent(o),
           o.kind \notin Switching \cup {"rename"}, o.phase \notin {"unlink", "unlinkNew", "done"},
           Begin(p, o)
    PROVE  NfqwsInv'
<1>1. ~Locked(o) /\ Facts(o)
    BY DEF Locked, Facts, RenameFacts, SwitchFacts
<1> QED
    BY <1>1, BeginKeeps

LEMMA CreateListKeeps ==
    ASSUME NfqwsInv, NEW p \in Procs, NEW l \in Lists, CreateList(p, l)
    PROVE  NfqwsInv'
<1>1. PICK b : b = Blank
    OBVIOUS
<1>2. b \in Frames /\ ~b.was /\ b.answer = None
    BY <1>1, BlankFrame DEF Blank
<1>3. PICK o : o = [b EXCEPT !.kind = "create", !.phase = "create", !.old = l]
    OBVIOUS
<1>4. o \in Frames
    <2>1. "create" \in Kinds /\ "create" \in Phases
        BY DEF Kinds, Phases
    <2> QED
        BY <1>2, <1>3, <2>1 DEF Frames
<1>5. o.kind = "create" /\ o.phase = "create" /\ o.old = l /\ ~o.was /\ o.answer = None
    BY <1>2, <1>3 DEF Frames
<1>6. Coherent(o) /\ o.kind \notin Switching \cup {"rename"}
    BY <1>5, NfqwsAssumption DEF Coherent, Switching, Answers
<1>7. Begin(p, o)
    BY <1>1, <1>3 DEF CreateList
<1> QED
    BY <1>4, <1>5, <1>6, <1>7, PlainBegins

LEMMA SaveListKeeps ==
    ASSUME NfqwsInv, NEW p \in Procs, NEW l \in Lists, NEW v \in Payloads, SaveList(p, l, v)
    PROVE  NfqwsInv'
<1>1. PICK b : b = Blank
    OBVIOUS
<1>2. b \in Frames /\ ~b.was /\ b.answer = None
    BY <1>1, BlankFrame DEF Blank
<1>3. PICK old : old = list[l]
    OBVIOUS
<1>4. old \in Payloads
    BY <1>3 DEF NfqwsInv, FilesInv, TypeOK, SaveList, Exists
<1>5. PICK o : o = [b EXCEPT !.kind = "list", !.phase = "preimage", !.old = l,
                             !.before = old, !.pay = v]
    OBVIOUS
<1>6. o \in Frames
    <2>1. "list" \in Kinds /\ "preimage" \in Phases
        BY DEF Kinds, Phases
    <2> QED
        BY <1>2, <1>4, <1>5, <2>1 DEF Frames
<1>7. o.kind = "list" /\ o.phase = "preimage" /\ o.old = l /\ o.pay = v /\ ~o.was /\ o.answer = None
    BY <1>2, <1>5 DEF Frames
<1>8. Coherent(o) /\ o.kind \notin Switching \cup {"rename"}
    BY <1>7, NfqwsAssumption DEF Coherent, Switching, Answers
<1>9. Begin(p, o)
    BY <1>1, <1>3, <1>5 DEF SaveList
<1> QED
    BY <1>6, <1>7, <1>8, <1>9, PlainBegins

LEMMA DeleteListKeeps ==
    ASSUME NfqwsInv, NEW p \in Procs, NEW l \in Lists, DeleteList(p, l)
    PROVE  NfqwsInv'
<1>1. PICK b : b = Blank
    OBVIOUS
<1>2. b \in Frames /\ ~b.was /\ b.answer = None
    BY <1>1, BlankFrame DEF Blank
<1>3. PICK v : v = list[l]
    OBVIOUS
<1>4. v \in Payloads
    BY <1>3 DEF NfqwsInv, FilesInv, TypeOK, DeleteList, Exists
<1>5. PICK o : o = [b EXCEPT !.kind = "delete", !.phase = "verify", !.old = l, !.pay = v]
    OBVIOUS
<1>6. o \in Frames
    <2>1. "delete" \in Kinds /\ "verify" \in Phases
        BY DEF Kinds, Phases
    <2> QED
        BY <1>2, <1>4, <1>5, <2>1 DEF Frames
<1>7. o.kind = "delete" /\ o.phase = "verify" /\ o.old = l /\ o.pay = v /\ ~o.was /\ o.answer = None
    BY <1>2, <1>5 DEF Frames
<1>8. Coherent(o) /\ o.kind \notin Switching \cup {"rename"}
    BY <1>4, <1>7, NfqwsAssumption DEF Coherent, Switching, Answers
<1>9. Begin(p, o)
    BY <1>1, <1>3, <1>5 DEF DeleteList
<1> QED
    BY <1>6, <1>7, <1>8, <1>9, PlainBegins

LEMMA LibraryKeeps ==
    ASSUME NfqwsInv, NEW p \in Procs, NEW c \in Saved, NEW x \in SUBSET Lists,
           Store(p, c, x) \/ Drop(p, c)
    PROVE  NfqwsInv'
<1>1. PICK b : b = Blank
    OBVIOUS
<1>2. b \in Frames /\ ~b.was /\ b.answer = None
    BY <1>1, BlankFrame DEF Blank
<1>3. /\ "store" \in Kinds /\ "drop" \in Kinds /\ "write" \in Phases /\ "drop" \in Phases
      /\ {c} \in SUBSET Configs
    BY DEF Kinds, Phases, Configs
<1>4. CASE Store(p, c, x)
    <2>1. PICK o : o = [b EXCEPT !.kind = "store", !.phase = "write", !.left = {c}, !.want = x]
        OBVIOUS
    <2>2. o \in Frames
        BY <1>2, <1>3, <2>1 DEF Frames
    <2>3. o.kind = "store" /\ o.phase = "write" /\ o.left = {c} /\ ~o.was /\ o.answer = None
        BY <1>2, <2>1 DEF Frames
    <2>4. Coherent(o) /\ o.kind \notin Switching \cup {"rename"}
        BY <2>3, NfqwsAssumption DEF Coherent, Switching, Answers
    <2>5. Begin(p, o)
        BY <1>1, <1>4, <2>1 DEF Store
    <2> QED
        BY <2>2, <2>3, <2>4, <2>5, PlainBegins
<1>5. CASE Drop(p, c)
    <2>1. PICK o : o = [b EXCEPT !.kind = "drop", !.phase = "drop", !.left = {c}]
        OBVIOUS
    <2>2. o \in Frames
        BY <1>2, <1>3, <2>1 DEF Frames
    <2>3. o.kind = "drop" /\ o.phase = "drop" /\ o.left = {c} /\ ~o.was /\ o.answer = None
        BY <1>2, <2>1 DEF Frames
    <2>4. Coherent(o) /\ o.kind \notin Switching \cup {"rename"}
        BY <2>3, NfqwsAssumption DEF Coherent, Switching, Answers
    <2>5. Begin(p, o)
        BY <1>1, <1>5, <2>1 DEF Drop
    <2> QED
        BY <2>2, <2>3, <2>4, <2>5, PlainBegins
<1> QED
    BY <1>4, <1>5

LEMMA ActionKeeps ==
    ASSUME NfqwsInv, NEW p \in Procs, Action(p)
    PROVE  NfqwsInv'
<1>1. PICK b : b = Blank
    OBVIOUS
<1>2. b \in Frames /\ ~b.was /\ b.answer = None
    BY <1>1, BlankFrame DEF Blank
<1>3. PICK o : o = [b EXCEPT !.kind = "action", !.phase = "init"]
    OBVIOUS
<1>4. o \in Frames
    <2>1. "action" \in Kinds /\ "init" \in Phases
        BY DEF Kinds, Phases
    <2> QED
        BY <1>2, <1>3, <2>1 DEF Frames
<1>5. o.kind = "action" /\ o.phase = "init" /\ ~o.was /\ o.answer = None
    BY <1>2, <1>3 DEF Frames
<1>6. Coherent(o) /\ o.kind \notin Switching \cup {"rename"}
    BY <1>5, NfqwsAssumption DEF Coherent, Switching, Answers
<1>7. Begin(p, o)
    BY <1>1, <1>3 DEF Action
<1> QED
    BY <1>4, <1>5, <1>6, <1>7, PlainBegins

LEMMA RequestKeeps ==
    ASSUME NfqwsInv, NEW p \in Procs, Request(p)
    PROVE  NfqwsInv'
<1>1. TypeOK /\ Contents \subseteq SUBSET Lists
    BY NfqwsAssumption DEF NfqwsInv, FilesInv
<1>2. CASE \E l, k \in Lists : Rename(p, l, k)
    BY <1>2, RenameKeeps
<1>3. CASE \E x \in Contents : SaveConfig(p, x) \/ Restore(p, x)
    BY <1>1, <1>3, SwitchKeeps DEF SaveConfig, Restore
<1>4. CASE \E c \in Saved : Activate(p, c) \/ Drop(p, c)
    <2>1. PICK c \in Saved : Activate(p, c) \/ Drop(p, c)
        BY <1>4
    <2>2. CASE Activate(p, c)
        <3>1. PICK x : x = conf[c]
            OBVIOUS
        <3>2. x \in SUBSET Lists /\ Switch(p, "activate", x)
            BY <1>1, <2>2, <3>1 DEF Activate, TypeOK, Configs
        <3> QED
            BY <3>2, SwitchKeeps
    <2>3. CASE Drop(p, c)
        BY <2>3, LibraryKeeps
    <2> QED
        BY <2>1, <2>2, <2>3
<1>5. CASE \E x \in Contents, l \in Lists \cup {None}, v \in Payloads : SmartApply(p, x, l, v)
    BY <1>1, <1>5, SmartApplyKeeps
<1>6. CASE \E l \in Lists : CreateList(p, l) \/ DeleteList(p, l)
    BY <1>6, CreateListKeeps, DeleteListKeeps
<1>7. CASE \E l \in Lists, v \in Payloads : SaveList(p, l, v)
    BY <1>7, SaveListKeeps
<1>8. CASE \E c \in Saved, x \in Contents : Store(p, c, x)
    BY <1>1, <1>8, LibraryKeeps
<1>9. CASE Action(p)
    BY <1>9, ActionKeeps
<1> QED
    BY <1>2, <1>3, <1>4, <1>5, <1>6, <1>7, <1>8, <1>9 DEF Request

LEMMA TakeStepKeeps ==
    ASSUME NfqwsInv, NEW p \in Procs, Step(p)
    PROVE  NfqwsInv'
BY PlanKeeps, CopyKeeps, CheckKeeps, WriteKeeps, RestartKeeps, GateKeeps, RemoveOldKeeps,
   UndoCheckKeeps, UndoWriteKeeps, RerestartKeeps, RecheckKeeps, RemoveNewKeeps, GuardsKeeps,
   WriteDepKeeps, ReloadKeeps, VerifyKeeps, UndoDepKeeps, CreateExclusiveKeeps, PreimageKeeps,
   ReplaceKeeps, AllowDeleteKeeps, DiscardKeeps, RunInitKeeps
   DEF Step

LEMMA ReturnKeeps ==
    ASSUME NfqwsInv, NEW p \in Procs, Return(p)
    PROVE  NfqwsInv'
<1>1. /\ op[p].phase = "done" /\ op' = [op EXCEPT ![p] = Blank]
      /\ UNCHANGED <<alone, ops, conf, list, excused, loaded, mu, since, faults>>
    BY DEF Return, At, Set, files
<1>2. op[p] # Blank /\ Shared
    BY <1>1, AtWork
<1>3. Shared'
    BY <1>1, <1>2 DEF Shared
<1>4. PICK b : b = Blank
    OBVIOUS
<1>5. b \in Frames /\ Coherent(b) /\ b.phase = "idle" /\ b.kind = "none" /\ Facts(b)'
    BY <1>4, BlankFrame
<1>6. LockStep(p, b)
    BY <1>1, <1>5 DEF LockStep, Locked
<1> QED
    BY <1>1, <1>2, <1>3, <1>4, <1>5, <1>6, QuietKeeps

(* The process dies: nobody is at work, nothing is locked, and the files   *)
(* are what they were.                                                     *)
LEMMA CrashKeeps ==
    ASSUME NfqwsInv, Crash
    PROVE  NfqwsInv'
<1>1. TypeOK /\ RefsResolve
    BY DEF NfqwsInv, FilesInv
<1>2. /\ op' = [p \in Procs |-> Blank] /\ alone' = [p \in Procs |-> TRUE]
      /\ since' = [p \in Procs |-> {}] /\ mu' = None
      /\ UNCHANGED <<conf, list, excused, loaded, ops>>
    BY DEF Crash, files
<1>3. PICK b : b = Blank
    OBVIOUS
<1>4. b \in Frames /\ Coherent(b) /\ b.phase = "idle" /\ b.kind = "none" /\ Facts(b)'
    BY <1>3, BlankFrame
<1>5. op' \in [Procs -> Frames] /\ \A p \in Procs : op'[p] = b
    BY <1>2, <1>3, <1>4
<1>6. faults' \in 0..MaxFaults
    BY <1>1, NfqwsAssumption DEF TypeOK, Crash, Fails
<1>7. alone' \in [Procs -> BOOLEAN] /\ since' \in [Procs -> SUBSET Configs]
    BY <1>2
<1>8. TypeOK'
    BY <1>1, <1>2, <1>5, <1>6, <1>7 DEF TypeOK
<1>9. LockHeld'
    BY <1>2, <1>4, <1>5, NfqwsAssumption DEF LockHeld, Locked
<1>10. Looked'
    BY <1>4, <1>5 DEF Looked, At
<1>11. RefsResolve'
    BY <1>1, <1>2 DEF RefsResolve, Exists
<1>12. Solo'
    BY <1>3, <1>5 DEF Solo
<1> QED
    BY <1>4, <1>5, <1>8, <1>9, <1>10, <1>11, <1>12 DEF NfqwsInv, FilesInv

---------------------------------------------------------------------------
(* The theorems.                                                           *)

LEMMA InitEstablishes ==
    ASSUME Init
    PROVE  NfqwsInv
<1>1. /\ conf \in [Configs -> Contents \cup {Absent}] /\ conf[Active] # Absent
      /\ list \in [Lists -> Payloads \cup {Absent}] /\ loaded \in {conf[Active], None}
      /\ mu = None /\ excused = {} /\ ops = 0 /\ faults = 0
      /\ alone = [p \in Procs |-> TRUE] /\ since = [p \in Procs |-> {}]
      /\ op = [p \in Procs |-> Blank]
    BY DEF Init
<1>2. conf \in [Configs -> (SUBSET Lists) \cup {Absent}]
    BY <1>1, NfqwsAssumption
<1>3. loaded \in (SUBSET Lists) \cup {Absent, None}
    BY <1>1, <1>2 DEF Configs
<1>4. op \in [Procs -> Frames] /\ \A p \in Procs : op[p] = Blank
    BY <1>1, BlankFrame
<1>5. alone \in [Procs -> BOOLEAN] /\ since \in [Procs -> SUBSET Configs]
    BY <1>1
<1>6. ops \in 0..MaxOps /\ faults \in 0..MaxFaults
    BY <1>1, NfqwsAssumption
<1>7. TypeOK
    BY <1>1, <1>2, <1>3, <1>4, <1>5, <1>6 DEF TypeOK
<1>8. LockHeld /\ Looked /\ Solo
    BY <1>1, <1>4, BlankFrame, NfqwsAssumption DEF LockHeld, Locked, Looked, At, Solo
<1>9. RefsResolve
    BY DEF Init, RefsResolve
<1> QED
    BY <1>4, <1>7, <1>8, <1>9, BlankFrame DEF NfqwsInv, FilesInv

LEMMA NextKeeps ==
    ASSUME NfqwsInv, [Next]_vars
    PROVE  NfqwsInv'
<1>1. CASE Next
    BY <1>1, CrashKeeps, RequestKeeps, TakeStepKeeps, ReturnKeeps DEF Next
<1>2. CASE UNCHANGED vars
    <2>1. UNCHANGED <<conf, list, loaded, mu, op, alone, since, excused, ops, faults>>
        BY <1>2 DEF vars
    <2>2. FilesInv'
        BY <2>1 DEF NfqwsInv, FilesInv, TypeOK, LockHeld, Looked, At, References, RefsResolve, Exists
    <2>3. Solo' /\ \A p \in Procs : alone'[p] => Facts(op[p])'
        BY <2>1
        DEF NfqwsInv, Solo, Facts, RenameFacts, SwitchFacts, Truthful, Kept, Previewed, Snapshots,
            References, Exists, Updated, RestartsAgain, Restarts
    <2> QED
        BY <2>2, <2>3 DEF NfqwsInv
<1> QED
    BY <1>1, <1>2

(* What every request knows of the files, the lock and its own progress:   *)
(* the frames of all handlers agree with what they have written, whoever   *)
(* else runs, fails or dies.                                               *)
THEOREM NfqwsInvariant == Spec => []NfqwsInv
<1>1. Init => NfqwsInv
    BY InitEstablishes
<1>2. NfqwsInv /\ [Next]_vars => NfqwsInv'
    BY NextKeeps
<1> QED
    BY <1>1, <1>2, PTL DEF Spec

(* No rename, deletion, rollback or crash takes a list away from a config  *)
(* that names it, for any number of requests, lists and faults: what is    *)
(* excused was written with a missing name or within the moment between    *)
(* nf5g5AllowOldSourceRemoval (or its like) and os.Remove.                 *)
THEOREM RefsResolveAlways == Spec => []RefsResolve
<1>1. NfqwsInv => RefsResolve
    BY DEF NfqwsInv, FilesInv
<1> QED
    BY <1>1, NfqwsInvariant, PTL

(* A handler that ran alone answers what is the case, after any sequence   *)
(* of failed writes, failed restarts and deaths of nfqws2 on its way.      *)
THEOREM AnswersTruthfulAlways == Spec => []AnswersTruthful
<1>1. NfqwsInv => AnswersTruthful
    BY DEF NfqwsInv, Facts, AnswersTruthful, At
<1> QED
    BY <1>1, NfqwsInvariant, PTL

(* nf5g2RenameMu is held exactly while a rename is past its plan: every    *)
(* path out of handleNF5G2RenameApply gives it back, nobody else has it,   *)
(* and a crash leaves none behind.                                         *)
THEOREM LockHeldAlways == Spec => []LockHeld
<1>1. NfqwsInv => LockHeld
    BY DEF NfqwsInv, FilesInv
<1> QED
    BY <1>1, NfqwsInvariant, PTL
====
