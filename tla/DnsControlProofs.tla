---- MODULE DnsControlProofs ----
(***************************************************************************)
(* Proofs about the changes of DNS resolvers, for every set of resolvers,  *)
(* domains and slots and every number of operations and faults: what the   *)
(* returned transaction says is true, foreign changes and disabled         *)
(* resolvers are not lost, and the startup configuration stays whole.      *)
(***************************************************************************)
EXTENDS DnsControl, TLAPS

(* Each resolver belongs to one section. *)
LEMMA ProtocolFacts ==
    /\ \A id \in Ids : ProtocolOf(id) \in Protocols /\ (ProtocolOf(id) = "DNS" <=> id \in PlainIds)
    /\ PlainIds \subseteq Ids
    /\ None \notin Ids /\ None \notin Configs
BY ProtocolAssumption DEF Ids, ProtocolOf, Protocols

(* The section written next is one still to write, the plain one last. *)
LEMMA CurrentFacts ==
    ASSUME NEW todo \in SUBSET Protocols, todo # {}
    PROVE  Current(todo) \in todo /\ (todo # {"DNS"} => Current(todo) # "DNS")
<1>1. \E p \in todo : p = "DoT" \/ (p = "DoH" /\ "DoT" \notin todo) \/ todo = {"DNS"}
    <2>1. CASE "DoT" \in todo
        BY <2>1
    <2>2. CASE "DoT" \notin todo /\ "DoH" \in todo
        BY <2>2
    <2>3. CASE "DoT" \notin todo /\ "DoH" \notin todo
        BY <2>3 DEF Protocols
    <2> QED
        BY <2>1, <2>2, <2>3
<1>2. PICK c : c = Current(todo)
    OBVIOUS
<1>3. c \in todo /\ (c = "DoT" \/ (c = "DoH" /\ "DoT" \notin todo) \/ todo = {"DNS"})
    BY <1>1, <1>2, Zenon DEF Current
<1> QED
    BY <1>2, <1>3

(* What an operation is about does not change once it has begun. *)
SameJob(r) ==
    /\ r.id = op.id /\ r.start = op.start /\ r.base = op.base /\ r.desired = op.desired
    /\ r.changed = op.changed
    /\ r.stored = op.stored /\ r.kept = op.kept /\ r.saved = op.saved
    /\ r.before = op.before /\ r.lost = op.lost
    /\ (op.dropped => r.dropped) /\ (op.undo => r.undo) /\ (op.skewed => r.skewed)

(* The types of everything but the frame. *)
Shared ==
    /\ native \in Configs /\ startup \in Configs /\ disabled \in Configs
    /\ touched \subseteq Protocols
    /\ early \in [Ids -> (SUBSET Domains) \cup {None}]
    /\ ops \in 0..MaxOps /\ faults \in 0..MaxFaults

(* What a save of the wanted state leaves in the startup configuration. *)
LEMMA SavedWhole ==
    ASSUME DnsInv, op.pc \in Writing, SameJob(op'), UNCHANGED touched,
           startup' = startup \/ (touched = {} /\ ~op.dropped => Reached(op.changed, startup'))
    PROVE  SavedIsWhole'
<1> USE DEF SameJob
<1>1. Coherent(op) /\ SavedIsWhole
    BY DEF DnsInv
<1>2. /\ op.before \in Configs /\ Same(op.changed, op.base, op.before)
      /\ op.goal = (IF op.undo THEN op.before ELSE op.desired)
      /\ op.skewed => op.undo /\ "DNS" \in op.changed
    BY <1>1 DEF Coherent
<1>3. CASE startup' = startup
    BY <1>1, <1>3 DEF SavedIsWhole
<1>4. CASE touched = {} /\ ~op.dropped => Reached(op.changed, startup')
    <2> SUFFICES ASSUME touched = {}, ~op.dropped
                 PROVE  \E c \in {op.saved, op.base, op.desired} :
                            /\ Same(op.changed \ {"DNS"}, startup', c)
                            /\ \/ Same(op.changed, startup', c)
                               \/ op.skewed /\ \A id \in PlainIds : op.base[id] \subseteq startup'[id]
        BY DEF SavedIsWhole
    <2>1. PICK c \in {op.base, op.desired} : Same(op.changed, op.goal, c) /\ (op.undo => c = op.base)
        BY <1>2 DEF Same
    <2>2. Reached(op.changed, startup')
        BY <1>4
    <2>3. Same(op.changed \ {"DNS"}, startup', c)
        BY <2>1, <2>2 DEF Reached, Same, Sections
    <2>4. CASE op.skewed
        <3>1. \A id \in PlainIds : op.goal[id] = op.base[id]
            BY <1>2, <2>1, <2>4, ProtocolFacts DEF Same, Sections
        <3>2. \A id \in PlainIds : op.goal[id] \subseteq startup'[id]
            BY <1>2, <2>2, <2>4 DEF Reached
        <3> QED
            BY <2>3, <2>4, <3>1, <3>2
    <2>5. CASE ~op.skewed
        <3>1. Same(op.changed, startup', c)
            BY <2>1, <2>2, <2>5 DEF Reached, Same, Sections
        <3> QED
            BY <2>3, <3>1
    <2> QED
        BY <2>4, <2>5
<1> QED
    BY <1>3, <1>4

(* What is wanted is nothing else than what was there or what is asked     *)
(* for, and so is what has been written.                                   *)
LEMMA WantedBounded ==
    ASSUME DnsInv, op.pc \in Writing
    PROVE  NothingElse(op.goal) /\ (touched = {} => NothingElse(native))
<1>1. Coherent(op) /\ StartFacts
    BY DEF DnsInv
<1>2. Same(op.changed, op.base, op.before) /\ op.goal = (IF op.undo THEN op.before ELSE op.desired)
    BY <1>1 DEF Coherent
<1> QED
    BY <1>1, <1>2 DEF StartFacts, NothingElse, Same

(* The operation goes on, writing no section but its own, and saving only  *)
(* what it wants to have written.                                          *)
LEMMA GoOn ==
    ASSUME DnsInv, op.pc \in Writing, op' \in Frames, Coherent(op'), SameJob(op'),
           op'.pc \in Writing, Shared', UNCHANGED <<touched, early>>,
           \A id \in Ids : ProtocolOf(id) \notin op.changed => native'[id] = native[id],
           touched = {} => NothingElse(native'),
           startup' = startup \/ (touched = {} /\ ~op.dropped => Reached(op.changed, startup')),
           WriteFacts', ReadbackFacts'
    PROVE  DnsInv'
<1> USE DEF SameJob
<1>1. Coherent(op) /\ StartFacts /\ EarlyFacts /\ ForeignKept /\ SavedIsWhole
    BY DEF DnsInv
<1>2. TypeOK'
    BY DEF TypeOK, Shared
<1>3. op'.pc \notin {"snapshot", "done", "settle"}
    BY DEF Writing
<1>4. SnapshotFacts' /\ OutcomeFacts' /\ SettledFacts'
    BY <1>3 DEF SnapshotFacts, OutcomeFacts, SettledFacts
<1>5. EarlyFacts' /\ ForeignKept'
    BY <1>1, <1>3 DEF EarlyFacts, ForeignKept
<1>6. SavedIsWhole'
    BY SavedWhole
<1>7. StartFacts'
    BY <1>1 DEF StartFacts, Own, NothingElse, Same
<1> QED
    BY <1>2, <1>4, <1>5, <1>6, <1>7 DEF DnsInv

(* The end of the operation: the fields of a finished frame. *)
LEMMA FinishFrame ==
    ASSUME NEW o \in Frames, NEW tx \in TxTerminal, Advance(o.tx, tx) = tx,
           NEW r, r = Finish(o, tx)
    PROVE  /\ r \in Frames /\ r.tx = tx
           /\ r.pc = IF o.kept # None /\ tx # "Committed" THEN "settle" ELSE "done"
           /\ r.id = o.id /\ r.start = o.start /\ r.base = o.base /\ r.desired = o.desired
           /\ r.changed = o.changed
           /\ r.stored = o.stored /\ r.kept = o.kept /\ r.saved = o.saved
           /\ r.before = o.before /\ r.lost = o.lost /\ r.dropped = o.dropped
           /\ r.skewed = o.skewed /\ r.unseen = o.unseen
           /\ r.undo = o.undo
<1>1. tx \in TxStates
    BY DEF TxTerminal, TxStates
<1>2. PICK phase : phase = IF o.kept # None /\ tx # "Committed" THEN "settle" ELSE "done"
    OBVIOUS
<1>3. phase \in Pcs
    BY <1>2 DEF Pcs
<1>4. r = [o EXCEPT !.tx = tx, !.cur = None, !.goal = None, !.todo = {}, !.gone = {}, !.pc = phase]
    BY <1>2 DEF Finish
<1>5. r \in Frames
    BY <1>1, <1>3, <1>4 DEF Frames
<1> QED
    BY <1>2, <1>4, <1>5 DEF Frames

(* A step fails: the rollback begins, or the outcome is ambiguous. *)
LEMMA FailFrame ==
    ASSUME DnsInv, op.pc \in Writing, NEW r, r = Fail(op)
    PROVE  /\ r \in Frames /\ Coherent(r) /\ SameJob(r)
           /\ \/ r.pc \in {"done", "settle"} /\ r.tx = "Ambiguous" /\ (r.kept # None => r.pc = "settle")
              \/ /\ r.pc \in {"section", "reload"} /\ r.undo /\ r.todo = op.changed
                 /\ r.goal = op.before /\ (r.pc = "section" => "DNS" \notin op.changed)
<1>1. op \in Frames /\ Coherent(op)
    BY DEF DnsInv, TypeOK
<1>2. /\ op.tx = "Applied" /\ op.before \in Configs /\ Same(op.changed, op.base, op.before)
      /\ op.changed # {}
    BY <1>1 DEF Coherent, Writing
<1>3. CASE op.undo
    <2>1. "Ambiguous" \in TxTerminal /\ Advance(op.tx, "Ambiguous") = "Ambiguous"
        BY <1>2 DEF TxTerminal, Advance, CanTransition, Successors
    <2>2. r = Finish(op, "Ambiguous")
        BY <1>3 DEF Fail
    <2>3. /\ r \in Frames /\ r.tx = "Ambiguous"
          /\ r.pc = IF op.kept # None THEN "settle" ELSE "done"
          /\ r.id = op.id /\ r.start = op.start /\ r.base = op.base /\ r.desired = op.desired
          /\ r.changed = op.changed
          /\ r.stored = op.stored /\ r.kept = op.kept /\ r.saved = op.saved
          /\ r.before = op.before /\ r.lost = op.lost /\ r.dropped = op.dropped
          /\ r.skewed = op.skewed /\ r.unseen = op.unseen
          /\ r.undo = op.undo
        BY <1>1, <2>1, <2>2, FinishFrame
    <2>4. Coherent(r)
        BY <1>1, <1>2, <2>3 DEF Coherent, Moves, Writing, TxTerminal
    <2> QED
        BY <2>3, <2>4 DEF SameJob
<1>4. CASE ~op.undo
    <2>1. PICK phase : phase = IF "DNS" \in op.changed THEN "reload" ELSE "section"
        OBVIOUS
    <2>2. phase \in Pcs /\ phase \in Writing
        BY <2>1 DEF Pcs, Writing
    <2>3. r = [op EXCEPT !.undo = TRUE, !.goal = op.before, !.todo = op.changed, !.gone = {},
                         !.pc = phase]
        BY <1>4, <2>1 DEF Fail
    <2>4. r \in Frames
        BY <1>1, <1>2, <2>2, <2>3 DEF Frames
    <2>5. /\ r.undo /\ r.goal = op.before /\ r.todo = op.changed /\ r.pc = phase
          /\ r.id = op.id /\ r.start = op.start /\ r.base = op.base /\ r.desired = op.desired
          /\ r.changed = op.changed
          /\ r.stored = op.stored /\ r.kept = op.kept /\ r.saved = op.saved
          /\ r.before = op.before /\ r.lost = op.lost /\ r.dropped = op.dropped
          /\ r.skewed = op.skewed /\ r.unseen = op.unseen /\ r.tx = op.tx
        BY <1>1, <2>3 DEF Frames
    <2>6. Coherent(r)
        <3>1. ~op.skewed
            BY <1>1, <1>4 DEF Coherent
        <3> QED
            BY <1>1, <1>2, <2>1, <2>2, <2>5, <3>1 DEF Coherent, Moves, Writing
    <2> QED
        BY <2>1, <2>4, <2>5, <2>6 DEF SameJob
<1> QED
    BY <1>3, <1>4

(* Whatever a failing step did to the operation's own sections, the        *)
(* rollback or the ambiguous outcome claims nothing about them.            *)
LEMMA FailKeeps ==
    ASSUME DnsInv, op.pc \in Writing, op' = Fail(op), Shared', UNCHANGED <<touched, early>>,
           \A id \in Ids : ProtocolOf(id) \notin op.changed => native'[id] = native[id],
           touched = {} => NothingElse(native'),
           startup' = startup \/ (touched = {} /\ ~op.dropped => Reached(op.changed, startup'))
    PROVE  DnsInv'
<1>1. PICK r : r = Fail(op)
    OBVIOUS
<1>2. /\ r \in Frames /\ Coherent(r) /\ SameJob(r) /\ op' = r
      /\ \/ r.pc \in {"done", "settle"} /\ r.tx = "Ambiguous" /\ (r.kept # None => r.pc = "settle")
         \/ /\ r.pc \in {"section", "reload"} /\ r.undo /\ r.todo = op.changed
            /\ r.goal = op.before /\ (r.pc = "section" => "DNS" \notin op.changed)
    BY <1>1, FailFrame
<1>3. CASE r.pc \in {"section", "reload"} /\ r.todo = op.changed
           /\ (r.pc = "section" => "DNS" \notin op.changed)
    <2>1. WriteFacts'
        BY <1>2, <1>3 DEF WriteFacts, Reached, Same, Sections, SameJob
    <2>2. ReadbackFacts'
        BY <1>2, <1>3 DEF ReadbackFacts
    <2>3. r.pc \in Writing
        BY <1>3 DEF Writing
    <2> QED
        BY <1>2, <2>1, <2>2, <2>3, GoOn
<1>4. CASE r.pc \in {"done", "settle"} /\ r.tx = "Ambiguous" /\ (r.kept # None => r.pc = "settle")
    <2>1. Coherent(op) /\ EarlyFacts /\ ForeignKept /\ SavedIsWhole
        BY DEF DnsInv
    <2>2. TypeOK'
        BY <1>2 DEF TypeOK, Shared
    <2>3. /\ SnapshotFacts' /\ StartFacts' /\ WriteFacts' /\ ReadbackFacts' /\ OutcomeFacts'
          /\ SettledFacts'
        BY <1>2, <1>4
        DEF SnapshotFacts, StartFacts, Writing, WriteFacts, ReadbackFacts, OutcomeFacts, SettledFacts
    <2>4. EarlyFacts' /\ ForeignKept'
        BY <1>2, <1>4, <2>1 DEF EarlyFacts, ForeignKept, SameJob, Writing
    <2>5. SavedIsWhole'
        BY <1>2, SavedWhole
    <2> QED
        BY <1>2, <2>2, <2>3, <2>4, <2>5 DEF DnsInv
<1> QED
    BY <1>2, <1>3, <1>4

---------------------------------------------------------------------------
(* Writing the sections.                                                   *)

(* The way on when sections remain to be written, or none does. *)
LEMMA RouteFrame ==
    ASSUME NEW o \in Frames, NEW r, r = Route(o)
    PROVE  /\ r \in Frames
           /\ r.pc = IF o.todo = {} THEN "save" ELSE IF o.todo # {"DNS"} THEN "section" ELSE "delete"
           /\ r.pc = "delete" => r.gone = Entries(o.cur) \ Entries(o.goal)
           /\ r.id = o.id /\ r.start = o.start /\ r.base = o.base /\ r.desired = o.desired
           /\ r.changed = o.changed
           /\ r.stored = o.stored /\ r.kept = o.kept /\ r.saved = o.saved
           /\ r.before = o.before /\ r.lost = o.lost /\ r.dropped = o.dropped
           /\ r.skewed = o.skewed /\ r.unseen = o.unseen
           /\ r.undo = o.undo /\ r.goal = o.goal /\ r.cur = o.cur /\ r.todo = o.todo /\ r.tx = o.tx
<1>1. {"save", "section", "delete"} \subseteq Pcs
    BY DEF Pcs
<1>2. CASE o.todo = {}
    <2>1. r = [o EXCEPT !.pc = "save"]
        BY <1>2 DEF Route
    <2> QED
        BY <1>1, <1>2, <2>1 DEF Frames
<1>3. CASE o.todo # {} /\ o.todo # {"DNS"}
    <2>1. r = [o EXCEPT !.pc = "section"]
        BY <1>3 DEF Route
    <2> QED
        BY <1>1, <1>3, <2>1 DEF Frames
<1>4. CASE o.todo = {"DNS"}
    <2>1. PICK gone : gone = Entries(o.cur) \ Entries(o.goal)
        OBVIOUS
    <2>2. gone \in SUBSET (PlainIds \X Domains)
        BY <2>1 DEF Entries
    <2>3. r = [o EXCEPT !.pc = "delete", !.gone = gone]
        BY <1>4, <2>1 DEF Route
    <2>4. r \in Frames /\ r.pc = "delete" /\ r.gone = gone
        <3>1. PICK m : m = [o EXCEPT !.gone = gone]
            OBVIOUS
        <3>2. m \in Frames /\ m.gone = gone
            BY <2>2, <3>1 DEF Frames
        <3>3. r = [m EXCEPT !.pc = "delete"]
            BY <2>3, <3>1 DEF Frames
        <3> QED
            BY <1>1, <3>2, <3>3 DEF Frames
    <2>5. /\ r.id = o.id /\ r.start = o.start /\ r.base = o.base /\ r.desired = o.desired
          /\ r.changed = o.changed /\ r.stored = o.stored /\ r.kept = o.kept /\ r.saved = o.saved
          /\ r.before = o.before /\ r.goal = o.goal /\ r.cur = o.cur /\ r.todo = o.todo
          /\ r.tx = o.tx
        BY <2>3 DEF Frames
    <2>6. /\ r.lost = o.lost /\ r.dropped = o.dropped /\ r.skewed = o.skewed /\ r.unseen = o.unseen
          /\ r.undo = o.undo
        BY <2>3 DEF Frames
    <2> QED
        BY <1>4, <2>1, <2>4, <2>5, <2>6
<1> QED
    BY <1>2, <1>3, <1>4

(* After a section is written. *)
LEMMA WrittenFrame ==
    ASSUME DnsInv, op.pc \in {"section", "add", "delete"}, NEW r, r = Written(op)
    PROVE  /\ r \in Frames /\ Coherent(r) /\ SameJob(r) /\ r.dropped = op.dropped /\ r.skewed = op.skewed /\ r.unseen = op.unseen
           /\ r.pc = IF r.todo = {} THEN "save" ELSE IF r.todo # {"DNS"} THEN "section" ELSE "delete"
           /\ r.pc = "delete" => r.gone = Entries(op.cur) \ Entries(op.goal)
           /\ r.todo = op.todo \ {Current(op.todo)} /\ r.goal = op.goal /\ r.cur = op.cur
<1>1. op \in Frames /\ Coherent(op) /\ op.pc \in Writing
    BY DEF DnsInv, TypeOK, Writing
<1>2. PICK todo : todo = op.todo \ {Current(op.todo)}
    OBVIOUS
<1>3. todo \in SUBSET Protocols
    BY <1>1, <1>2 DEF Frames
<1>4. PICK o : o = [op EXCEPT !.todo = todo]
    OBVIOUS
<1>5. /\ o \in Frames /\ o.todo = todo
      /\ o.id = op.id /\ o.start = op.start /\ o.base = op.base /\ o.desired = op.desired
      /\ o.changed = op.changed
      /\ o.stored = op.stored /\ o.kept = op.kept /\ o.saved = op.saved
      /\ o.before = op.before /\ o.lost = op.lost /\ o.dropped = op.dropped
      /\ o.skewed = op.skewed /\ o.unseen = op.unseen
      /\ o.undo = op.undo /\ o.goal = op.goal /\ o.cur = op.cur /\ o.tx = op.tx
    BY <1>1, <1>3, <1>4 DEF Frames
<1>6. r = Route(o)
    BY <1>2, <1>4 DEF Written
<1>7. /\ r \in Frames
      /\ r.pc = IF todo = {} THEN "save" ELSE IF todo # {"DNS"} THEN "section" ELSE "delete"
      /\ r.pc = "delete" => r.gone = Entries(op.cur) \ Entries(op.goal)
      /\ r.id = op.id /\ r.start = op.start /\ r.base = op.base /\ r.desired = op.desired
      /\ r.changed = op.changed
      /\ r.stored = op.stored /\ r.kept = op.kept /\ r.saved = op.saved
      /\ r.before = op.before /\ r.lost = op.lost /\ r.dropped = op.dropped
      /\ r.skewed = op.skewed /\ r.unseen = op.unseen
      /\ r.undo = op.undo /\ r.goal = op.goal /\ r.cur = op.cur /\ r.todo = todo /\ r.tx = op.tx
    BY <1>5, <1>6, RouteFrame
<1>8. "DNS" \in todo => "DNS" \in op.todo
    BY <1>2
<1>9. Coherent(r)
    BY <1>1, <1>2, <1>7, <1>8 DEF Coherent, Moves, Writing
<1> QED
    BY <1>2, <1>7, <1>9 DEF SameJob

(* One request to the router, done and answered or not. *)
LEMMA CallKeeps ==
    ASSUME DnsInv, op.pc \in Writing, NEW c \in Configs, NEW next \in Frames, Call(c, next),
           Coherent(next), SameJob(next), next.pc \in {"section", "add", "delete", "save"},
           \A id \in Ids : ProtocolOf(id) \notin op.changed => c[id] = native[id],
           touched = {} => NothingElse(c),
           native' = c /\ op' = next => WriteFacts'
    PROVE  DnsInv'
<1>1. Shared /\ op \in Frames
    BY DEF DnsInv, TypeOK, Shared
<1>2. UNCHANGED <<startup, disabled, touched, early, ops>>
    BY DEF Call, history
<1>3. next.pc \in Writing /\ (touched = {} => NothingElse(native))
    BY WantedBounded DEF Writing
<1>4. CASE native' = c /\ op' = next /\ faults' = faults
    <2>1. Shared'
        BY <1>1, <1>2, <1>4 DEF Shared
    <2>2. ReadbackFacts'
        BY <1>4 DEF ReadbackFacts
    <2> QED
        BY <1>2, <1>3, <1>4, <2>1, <2>2, GoOn
<1>5. CASE native' \in {c, native} /\ op' = Fail(op) /\ faults' = faults
    <2>1. Shared'
        BY <1>1, <1>2, <1>5 DEF Shared
    <2> QED
        BY <1>2, <1>3, <1>5, <2>1, FailKeeps
<1>6. CASE /\ faults < MaxFaults /\ faults' = faults + 1 /\ native' = native
           /\ op' = [next EXCEPT !.dropped = TRUE]
    <2>1. Shared'
        BY <1>1, <1>2, <1>6, BoundsAssumption DEF Shared
    <2>2. /\ op' \in Frames /\ op'.dropped /\ op'.pc = next.pc
          /\ op'.id = next.id /\ op'.start = next.start /\ op'.base = next.base
          /\ op'.desired = next.desired
          /\ op'.changed = next.changed /\ op'.stored = next.stored /\ op'.kept = next.kept
          /\ op'.saved = next.saved /\ op'.before = next.before /\ op'.lost = next.lost
          /\ op'.undo = next.undo /\ op'.goal = next.goal /\ op'.cur = next.cur
          /\ op'.todo = next.todo /\ op'.tx = next.tx
          /\ op'.skewed = next.skewed /\ op'.unseen = next.unseen
        BY <1>6 DEF Frames
    <2>3. Coherent(op') /\ SameJob(op')
        BY <2>2 DEF Coherent, Moves, SameJob
    <2>4. WriteFacts' /\ ReadbackFacts'
        BY <2>2 DEF WriteFacts, ReadbackFacts
    <2> QED
        BY <1>2, <1>3, <1>6, <2>1, <2>2, <2>3, <2>4, GoOn
<1> QED
    BY <1>4, <1>5, <1>6 DEF Call

(* A secure section that holds what is wanted is written. *)
LEMMA SectionWritten ==
    ASSUME DnsInv, op.pc \in {"section", "add"}, NEW c \in Configs, native' = c,
           op' = Written(op), touched' = touched,
           \A id \in Ids : ProtocolOf(id) # Current(op.todo) => c[id] = native[id],
           touched = {} /\ ~op.dropped =>
                \A id \in Ids : ProtocolOf(id) = Current(op.todo) => c[id] = op.goal[id]
    PROVE  WriteFacts'
<1>1. op \in Frames /\ Coherent(op) /\ WriteFacts
    BY DEF DnsInv, TypeOK
<1>2. PICK p : p = Current(op.todo)
    OBVIOUS
<1>3. p \in op.todo /\ p # "DNS" /\ op.todo \subseteq op.changed
    <2>1. op.todo \in SUBSET Protocols /\ op.todo # {} /\ op.todo # {"DNS"}
          /\ op.todo \subseteq op.changed
        BY <1>1 DEF Frames, Coherent, Writing
    <2> QED
        BY <1>2, <2>1, CurrentFacts
<1>4. /\ op'.dropped = op.dropped /\ op'.changed = op.changed
      /\ op'.pc = IF op'.todo = {} THEN "save" ELSE IF op'.todo # {"DNS"} THEN "section" ELSE "delete"
      /\ op'.pc = "delete" => op'.gone = Entries(op.cur) \ Entries(op.goal)
      /\ op'.todo = op.todo \ {p} /\ op'.goal = op.goal /\ op'.cur = op.cur
      /\ op'.skewed = op.skewed
    BY <1>2, WrittenFrame DEF SameJob
<1> SUFFICES ASSUME touched = {}, ~op.dropped
             PROVE  /\ Reached(op.changed \ op'.todo, c)
                    /\ op'.pc = "section" /\ "DNS" \in op'.todo /\ ~op.skewed => Same({"DNS"}, op.cur, c)
                    /\ op'.pc = "delete" /\ ~op.skewed =>
                        /\ op'.gone \subseteq Entries(op.cur) \ Entries(op.goal)
                        /\ \A id \in PlainIds, d \in Domains : Reconciling(id, d)'
    BY <1>4 DEF WriteFacts, Reached
<1>5. /\ Reached(op.changed \ op.todo, native)
      /\ "DNS" \in op.todo /\ ~op.skewed => Same({"DNS"}, op.cur, native)
    BY <1>1 DEF WriteFacts
<1>6. Reached(op.changed \ op'.todo, c)
    <2>1. Same((op.changed \ op'.todo) \ {"DNS"}, op.goal, c)
        BY <1>2, <1>3, <1>4, <1>5 DEF Reached, Same, Sections
    <2>2. \A id \in PlainIds : c[id] = native[id]
        BY <1>2, <1>3, ProtocolFacts
    <2> QED
        BY <1>3, <1>4, <1>5, <2>1, <2>2, ProtocolFacts DEF Reached, Same, Sections
<1>7. "DNS" \in op'.todo /\ ~op.skewed => \A id \in PlainIds : c[id] = op.cur[id]
    BY <1>2, <1>3, <1>4, <1>5, ProtocolFacts DEF Same, Sections
<1>8. "DNS" \in op'.todo /\ ~op.skewed => Same({"DNS"}, op.cur, c)
    BY <1>7, ProtocolFacts DEF Same, Sections
<1>9. ASSUME op'.pc = "delete", ~op.skewed, NEW id \in PlainIds, NEW d \in Domains
      PROVE  Reconciling(id, d)'
    <2>1. op'.todo = {"DNS"} /\ op'.gone = Entries(op.cur) \ Entries(op.goal)
        BY <1>4, <1>9
    <2>2. c[id] = op.cur[id]
        BY <1>7, <1>9, <2>1
    <2>3. <<id, d>> \in op'.gone <=> d \in op.cur[id] /\ d \notin op.goal[id]
        BY <2>1 DEF Entries
    <2> QED
        BY <1>4, <2>2, <2>3 DEF Reconciling
<1> QED
    BY <1>4, <1>6, <1>8, <1>9

LEMMA ClearSectionKeeps ==
    ASSUME DnsInv, ClearSection
    PROVE  DnsInv'
<1>1. op \in Frames /\ Coherent(op) /\ WriteFacts /\ native \in Configs /\ op.pc = "section"
    BY DEF DnsInv, TypeOK, ClearSection
<1>2. PICK p : p = Current(op.todo)
    OBVIOUS
<1>3. /\ p \in op.todo /\ p # "DNS" /\ op.todo \subseteq op.changed /\ op.todo # {}
      /\ op.todo # {"DNS"} /\ op.pc \in Writing /\ op.changed # {}
    <2>1. op.todo \in SUBSET Protocols /\ op.todo # {} /\ op.todo # {"DNS"}
          /\ op.todo \subseteq op.changed /\ op.pc \in Writing
        BY <1>1 DEF Frames, Coherent, Writing
    <2> QED
        BY <1>2, <2>1, CurrentFacts
<1>4. PICK c : c = [id \in Ids |-> IF id \in Section(p) THEN {} ELSE native[id]]
    OBVIOUS
<1>5. /\ c \in Configs
      /\ \A id \in Ids : ProtocolOf(id) # p => c[id] = native[id]
      /\ \A id \in Ids : ProtocolOf(id) = p => c[id] = {}
    BY <1>1, <1>4 DEF Configs, Section
<1>6. /\ \A id \in Ids : ProtocolOf(id) \notin op.changed => c[id] = native[id]
      /\ touched = {} => NothingElse(c)
    BY <1>3, <1>5, WantedBounded DEF NothingElse, Sections
<1>7. CASE \A id \in Section(p) : op.goal[id] = {}
    <2>1. PICK r : r = Written(op)
        OBVIOUS
    <2>2. Call(c, r)
        BY <1>2, <1>4, <1>7, <2>1 DEF ClearSection
    <2>3. \A id \in Ids : ProtocolOf(id) = p => c[id] = op.goal[id]
        BY <1>5, <1>7 DEF Section
    <2>4. touched' = touched
        BY <2>2 DEF Call, history
    <2>5. native' = c /\ op' = r => WriteFacts'
        BY <1>1, <1>2, <1>5, <2>1, <2>3, <2>4, SectionWritten
    <2>6. r \in Frames /\ Coherent(r) /\ SameJob(r) /\ r.pc \in {"section", "add", "delete", "save"}
        BY <1>1, <2>1, WrittenFrame
    <2> QED
        BY <1>3, <1>5, <1>6, <2>2, <2>5, <2>6, CallKeeps
<1>8. CASE ~\A id \in Section(p) : op.goal[id] = {}
    <2>1. PICK r : r = [op EXCEPT !.pc = "add"]
        OBVIOUS
    <2>2. Call(c, r)
        BY <1>2, <1>4, <1>8, <2>1 DEF ClearSection
    <2>3. /\ r \in Frames /\ r.pc = "add" /\ r.dropped = op.dropped /\ r.skewed = op.skewed /\ r.unseen = op.unseen
          /\ r.id = op.id /\ r.start = op.start /\ r.base = op.base /\ r.desired = op.desired
          /\ r.changed = op.changed
          /\ r.stored = op.stored /\ r.kept = op.kept /\ r.saved = op.saved
          /\ r.before = op.before /\ r.lost = op.lost
          /\ r.undo = op.undo /\ r.goal = op.goal /\ r.cur = op.cur /\ r.todo = op.todo
          /\ r.tx = op.tx
        BY <1>1, <2>1 DEF Frames, Pcs
    <2>4. Coherent(r) /\ SameJob(r)
        BY <1>1, <1>3, <2>3 DEF Coherent, Moves, Writing, SameJob
    <2>5. touched' = touched
        BY <2>2 DEF Call, history
    <2>6. ASSUME native' = c, op' = r PROVE WriteFacts'
        <3> SUFFICES ASSUME touched = {}, ~op.dropped
                     PROVE  /\ Reached(op.changed \ op.todo, c)
                            /\ "DNS" \in op.todo /\ ~op.skewed => Same({"DNS"}, op.cur, c)
                            /\ \A id \in Section(p) : c[id] = {}
            BY <1>2, <2>3, <2>5, <2>6 DEF WriteFacts, Reached
        <3>1. /\ Reached(op.changed \ op.todo, native)
              /\ "DNS" \in op.todo /\ ~op.skewed => Same({"DNS"}, op.cur, native)
            BY <1>1 DEF WriteFacts
        <3>2. \A id \in PlainIds : c[id] = native[id]
            BY <1>3, <1>5, ProtocolFacts
        <3>3. Reached(op.changed \ op.todo, c)
            BY <1>3, <1>5, <3>1, <3>2, ProtocolFacts DEF Reached, Same, Sections
        <3> QED
            BY <1>3, <1>5, <3>1, <3>3 DEF Same, Sections, Section
    <2> QED
        BY <1>3, <1>5, <1>6, <2>2, <2>3, <2>4, <2>6, CallKeeps
<1> QED
    BY <1>7, <1>8

LEMMA AddEntriesKeeps ==
    ASSUME DnsInv, AddEntries
    PROVE  DnsInv'
<1>1. op \in Frames /\ Coherent(op) /\ WriteFacts /\ native \in Configs /\ op.pc = "add"
    BY DEF DnsInv, TypeOK, AddEntries
<1>2. PICK p : p = Current(op.todo)
    OBVIOUS
<1>3. p \in op.todo /\ op.todo \subseteq op.changed /\ op.pc \in Writing /\ op.goal \in Configs
    <2>1. op.todo \in SUBSET Protocols /\ op.todo # {} /\ op.todo \subseteq op.changed
          /\ op.pc \in Writing /\ op.changed # {}
        BY <1>1 DEF Frames, Coherent, Writing
    <2>2. op.goal \in Configs
        BY <1>1, <2>1 DEF Coherent
    <2> QED
        BY <1>2, <2>1, <2>2, CurrentFacts
<1>4. PICK c : c = [id \in Ids |-> IF id \in Section(p) THEN native[id] \cup op.goal[id]
                                   ELSE native[id]]
    OBVIOUS
<1>5. c \in Configs /\ \A id \in Ids : ProtocolOf(id) # p => c[id] = native[id]
    BY <1>1, <1>3, <1>4 DEF Configs, Section
<1>6. /\ \A id \in Ids : ProtocolOf(id) \notin op.changed => c[id] = native[id]
      /\ touched = {} => NothingElse(c)
    BY <1>3, <1>4, <1>5, WantedBounded DEF NothingElse, Sections
<1>7. touched = {} /\ ~op.dropped => \A id \in Ids : ProtocolOf(id) = p => c[id] = op.goal[id]
    BY <1>1, <1>2, <1>4 DEF WriteFacts, Section
<1>8. PICK r : r = Written(op)
    OBVIOUS
<1>9. Call(c, r)
    BY <1>2, <1>4, <1>8 DEF AddEntries
<1>10. touched' = touched
    BY <1>9 DEF Call, history
<1>11. native' = c /\ op' = r => WriteFacts'
    BY <1>1, <1>2, <1>5, <1>7, <1>8, <1>10, SectionWritten
<1>12. r \in Frames /\ Coherent(r) /\ SameJob(r) /\ r.pc \in {"section", "add", "delete", "save"}
    BY <1>1, <1>8, WrittenFrame
<1> QED
    BY <1>3, <1>5, <1>6, <1>9, <1>11, <1>12, CallKeeps

LEMMA DeletePlainKeeps ==
    ASSUME DnsInv, DeletePlain
    PROVE  DnsInv'
<1>1. op \in Frames /\ Coherent(op) /\ WriteFacts /\ native \in Configs /\ op.pc = "delete"
    BY DEF DnsInv, TypeOK, DeletePlain
<1>2. op.pc \in Writing /\ op.todo = {"DNS"} /\ "DNS" \in op.changed
    BY <1>1 DEF Coherent, Writing
<1>3. PICK e \in op.gone : Call([native EXCEPT ![e[1]] = @ \ {e[2]}], [op EXCEPT !.gone = @ \ {e}])
    BY DEF DeletePlain
<1>4. PICK i \in PlainIds, x \in Domains : e = <<i, x>>
    BY <1>1 DEF Frames
<1>5. PICK c : c = [native EXCEPT ![i] = native[i] \ {x}]
    OBVIOUS
<1>6. PICK r : r = [op EXCEPT !.gone = op.gone \ {e}]
    OBVIOUS
<1>7. Call(c, r)
    <2>1. c = [native EXCEPT ![e[1]] = @ \ {e[2]}]
        BY <1>4, <1>5
    <2> QED
        BY <1>3, <1>6, <2>1
<1>8. /\ c \in Configs
      /\ \A id \in Ids : id # i => c[id] = native[id]
      /\ c[i] = native[i] \ {x}
    BY <1>1, <1>4, <1>5, ProtocolFacts DEF Configs
<1>9. \A id \in Ids : ProtocolOf(id) # "DNS" => c[id] = native[id]
    BY <1>8, ProtocolFacts
<1>10. /\ r \in Frames /\ r.pc = "delete" /\ r.dropped = op.dropped /\ r.skewed = op.skewed /\ r.unseen = op.unseen /\ r.gone = op.gone \ {e}
       /\ r.id = op.id /\ r.start = op.start /\ r.base = op.base /\ r.desired = op.desired
       /\ r.changed = op.changed
       /\ r.stored = op.stored /\ r.kept = op.kept /\ r.saved = op.saved
       /\ r.before = op.before /\ r.lost = op.lost
       /\ r.undo = op.undo /\ r.goal = op.goal /\ r.cur = op.cur /\ r.todo = op.todo /\ r.tx = op.tx
    BY <1>1, <1>6 DEF Frames
<1>11. Coherent(r) /\ SameJob(r)
    BY <1>1, <1>10 DEF Coherent, Moves, SameJob
<1>12. touched' = touched
    BY <1>7 DEF Call, history
<1>13. ASSUME native' = c, op' = r PROVE WriteFacts'
    <2> SUFFICES ASSUME touched = {}, ~op.dropped
                 PROVE  /\ Same(op.changed \ {"DNS"}, op.goal, c)
                        /\ ~op.skewed =>
                            /\ r.gone \subseteq Entries(op.cur) \ Entries(op.goal)
                            /\ \A id \in PlainIds, d \in Domains : Reconciling(id, d)'
        BY <1>2, <1>10, <1>12, <1>13 DEF WriteFacts, Reached, Same, Sections
    <2>1. /\ Same(op.changed \ {"DNS"}, op.goal, native)
          /\ ~op.skewed =>
                /\ op.gone \subseteq Entries(op.cur) \ Entries(op.goal)
                /\ \A id \in PlainIds, d \in Domains : Reconciling(id, d)
        BY <1>1, <1>2 DEF WriteFacts, Reached, Same, Sections
    <2>2. Same(op.changed \ {"DNS"}, op.goal, c)
        BY <1>9, <2>1 DEF Same, Sections
    <2>3. ~op.skewed => x \notin op.goal[i]
        BY <1>4, <2>1 DEF Entries
    <2>4. ASSUME ~op.skewed, NEW id \in PlainIds, NEW d \in Domains PROVE Reconciling(id, d)'
        <3>1. Reconciling(id, d)
            BY <2>1, <2>4
        <3>2. <<id, d>> \in r.gone <=> <<id, d>> \in op.gone /\ ~(id = i /\ d = x)
            BY <1>4, <1>10
        <3>3. d \in c[id] <=> d \in native[id] /\ ~(id = i /\ d = x)
            BY <1>8, ProtocolFacts
        <3> QED
            BY <1>10, <1>13, <2>3, <2>4, <3>1, <3>2, <3>3 DEF Reconciling
    <2> QED
        BY <1>10, <2>1, <2>2, <2>4
<1>14. /\ \A id \in Ids : ProtocolOf(id) \notin op.changed => c[id] = native[id]
       /\ touched = {} => NothingElse(c)
    BY <1>2, <1>8, <1>9, WantedBounded DEF NothingElse, Sections
<1> QED
    BY <1>2, <1>7, <1>8, <1>10, <1>11, <1>13, <1>14, CallKeeps

LEMMA PostPlainKeeps ==
    ASSUME DnsInv, PostPlain
    PROVE  DnsInv'
<1>1. /\ op \in Frames /\ Coherent(op) /\ WriteFacts /\ native \in Configs
      /\ op.pc = "delete" /\ op.gone = {}
    BY DEF DnsInv, TypeOK, PostPlain
<1>2. op.pc \in Writing /\ op.todo = {"DNS"} /\ "DNS" \in op.changed /\ op.goal \in Configs
    BY <1>1 DEF Coherent, Writing
<1>3. PICK r : r = Written(op)
    OBVIOUS
<1>4. /\ r \in Frames /\ Coherent(r) /\ SameJob(r) /\ r.dropped = op.dropped /\ r.skewed = op.skewed /\ r.unseen = op.unseen
      /\ r.pc = "save" /\ r.todo = {} /\ r.goal = op.goal
    <2>1. Current(op.todo) = "DNS"
        BY <1>2, CurrentFacts DEF Protocols
    <2>2. op.todo \ {Current(op.todo)} = {}
        BY <1>2, <2>1
    <2> QED
        BY <1>1, <1>3, <2>2, WrittenFrame
<1>5. ASSUME NEW c \in Configs, native' = c, op' = r, touched' = touched,
             \A id \in Ids : ProtocolOf(id) # "DNS" => c[id] = native[id],
             \A id \in PlainIds, d \in Domains :
                d \in c[id] <=> d \in native[id] \/ (d \in op.goal[id] /\ d \notin op.cur[id])
      PROVE  WriteFacts'
    <2> SUFFICES ASSUME touched = {}, ~op.dropped PROVE Reached(op.changed, c)
        BY <1>4, <1>5 DEF WriteFacts, SameJob, Reached
    <2>1. /\ Same(op.changed \ {"DNS"}, op.goal, native)
          /\ ~op.skewed => \A id \in PlainIds, d \in Domains : Reconciling(id, d)
        BY <1>1, <1>2 DEF WriteFacts, Reached, Same, Sections
    <2>2. Same(op.changed \ {"DNS"}, op.goal, c)
        BY <1>5, <2>1 DEF Same, Sections
    <2>3. \A id \in PlainIds : c[id] \subseteq Domains /\ op.goal[id] \subseteq Domains
        BY <1>2, <1>5, ProtocolFacts DEF Configs
    <2>4. CASE ~op.skewed
        <3>1. \A id \in PlainIds, d \in Domains : d \in c[id] <=> d \in op.goal[id]
            BY <1>1, <1>5, <2>1, <2>4 DEF Reconciling
        <3>2. \A id \in PlainIds : c[id] = op.goal[id]
            BY <2>3, <3>1
        <3> QED
            BY <2>2, <2>4, <3>2, ProtocolFacts DEF Reached, Same, Sections
    <2>5. CASE op.skewed
        <3>1. \A id \in PlainIds : op.cur[id] = {}
            BY <1>1, <2>5 DEF Coherent, NoPlain
        <3>2. \A id \in PlainIds : op.goal[id] \subseteq c[id]
            BY <1>5, <2>3, <3>1
        <3> QED
            BY <2>2, <2>5, <3>2 DEF Reached
    <2> QED
        BY <2>4, <2>5
<1>6. PICK added : added = Entries(op.goal) \ Entries(op.cur)
    OBVIOUS
<1>7. \A id \in PlainIds, d \in Domains :
        <<id, d>> \in added <=> d \in op.goal[id] /\ d \notin op.cur[id]
    BY <1>6 DEF Entries
<1>8. added \subseteq PlainIds \X Domains
    BY <1>6 DEF Entries
<1>9. CASE added = {}
    <2>1. op' = r /\ UNCHANGED <<native, startup, disabled, touched, early, ops, faults>>
        BY <1>3, <1>6, <1>9 DEF PostPlain, history, bounds
    <2>2. WriteFacts'
        <3>1. \A id \in PlainIds, d \in Domains :
                d \in native[id] <=> d \in native[id] \/ (d \in op.goal[id] /\ d \notin op.cur[id])
            BY <1>7, <1>9
        <3> QED
            BY <1>1, <1>5, <2>1, <3>1
    <2>3. ReadbackFacts'
        BY <1>4, <2>1 DEF ReadbackFacts
    <2>4. Shared'
        BY <2>1 DEF DnsInv, TypeOK, Shared
    <2>5. r.pc \in Writing
        BY <1>4 DEF Writing
    <2> QED
        BY <1>2, <1>4, <2>1, <2>2, <2>3, <2>4, <2>5, GoOn, WantedBounded
<1>10. CASE added # {}
    <2>1. PICK c : c = [id \in Ids |-> native[id] \cup {d \in Domains : <<id, d>> \in added}]
        OBVIOUS
    <2>2. Call(c, r)
        BY <1>3, <1>6, <1>10, <2>1 DEF PostPlain
    <2>3. c \in Configs
        BY <1>1, <2>1 DEF Configs
    <2>4. \A id \in Ids : ProtocolOf(id) # "DNS" => c[id] = native[id]
        <3> SUFFICES ASSUME NEW id \in Ids, ProtocolOf(id) # "DNS" PROVE c[id] = native[id]
            OBVIOUS
        <3>1. {d \in Domains : <<id, d>> \in added} = {}
            BY <1>8, ProtocolFacts
        <3> QED
            BY <2>1, <3>1
    <2>5. \A id \in PlainIds, d \in Domains :
            d \in c[id] <=> d \in native[id] \/ (d \in op.goal[id] /\ d \notin op.cur[id])
        BY <1>7, <2>1, ProtocolFacts
    <2>6. touched' = touched
        BY <2>2 DEF Call, history
    <2>7. native' = c /\ op' = r => WriteFacts'
        BY <1>5, <2>3, <2>4, <2>5, <2>6
    <2>8. \A id \in Ids : ProtocolOf(id) \notin op.changed => c[id] = native[id]
        BY <1>2, <2>4
    <2>9. ASSUME touched = {} PROVE NothingElse(c)
        <3>1. \A id \in PlainIds : c[id] \subseteq native[id] \cup op.goal[id]
            BY <2>3, <2>5, ProtocolFacts DEF Configs
        <3>2. NothingElse(native) /\ NothingElse(op.goal)
            BY <1>2, <2>9, WantedBounded
        <3> QED
            BY <2>4, <3>1, <3>2, ProtocolFacts DEF NothingElse, Sections
    <2> QED
        BY <1>2, <1>4, <2>2, <2>3, <2>7, <2>8, <2>9, CallKeeps
<1> QED
    BY <1>9, <1>10

---------------------------------------------------------------------------
(* Saving, reading back and returning.                                     *)

(* The operation returns, and what its outcome says is true. *)
LEMMA FinishKeeps ==
    ASSUME DnsInv, op.pc \in Writing \cup {"snapshot"},
           NEW o \in Frames, SameJob(o), o.skewed = op.skewed,
           NEW tx \in TxTerminal, Advance(o.tx, tx) = tx, op' = Finish(o, tx),
           tx \in {"Committed", "RolledBack"} => op.pc \in Writing,
           UNCHANGED <<native, startup, disabled, touched, early, ops, faults>>,
           NEW seen, seen = IF o.unseen THEN Own \ {"DNS"} ELSE Own,
           tx = "Committed" =>
                /\ Same(seen, op.desired, native)
                /\ touched = {} => Same(seen, op.desired, startup)
                /\ op.stored # None => disabled = op.stored
                /\ o.unseen => NoPlain(op.desired),
           tx = "RolledBack" =>
                Same(seen, op.before, native) /\ (o.unseen => NoPlain(op.before)),
           tx = "Failed" => Same(Own, op.start, native) /\ (touched = {} => startup = op.saved)
    PROVE  DnsInv'
<1>1. Coherent(op) /\ StartFacts /\ EarlyFacts /\ ForeignKept /\ SavedIsWhole /\ Shared
    BY DEF DnsInv, TypeOK, Shared
<1>2. PICK r : r = Finish(o, tx)
    OBVIOUS
<1>3. /\ r \in Frames /\ r.tx = tx /\ op' = r
      /\ r.pc = IF op.kept # None /\ tx # "Committed" THEN "settle" ELSE "done"
      /\ r.id = op.id /\ r.start = op.start /\ r.base = op.base /\ r.desired = op.desired
      /\ r.changed = op.changed /\ r.unseen = o.unseen /\ r.skewed = op.skewed /\ (op.undo => r.undo)
      /\ r.stored = op.stored /\ r.kept = op.kept /\ r.saved = op.saved
      /\ r.before = op.before /\ r.lost = op.lost /\ (op.dropped => r.dropped)
    BY <1>2, FinishFrame DEF SameJob
<1>4. op.changed # {}
    BY <1>1 DEF Coherent, Writing
<1>5. Coherent(r)
    BY <1>1, <1>3, <1>4 DEF Coherent, Moves, Writing
<1>6. TypeOK'
    BY <1>1, <1>3 DEF TypeOK, Shared
<1>7. r.pc \in {"done", "settle"}
    BY <1>3
<1>8. SnapshotFacts' /\ WriteFacts' /\ ReadbackFacts'
    BY <1>3, <1>7 DEF SnapshotFacts, WriteFacts, ReadbackFacts
<1>9. OutcomeFacts' /\ SettledFacts'
    <2>1. Seen' = seen /\ Own' = Own
        BY <1>3 DEF Seen, Own
    <2> QED
        BY <1>3, <2>1 DEF OutcomeFacts, SettledFacts
<1>10. EarlyFacts' /\ ForeignKept'
    BY <1>1, <1>3, <1>4, <1>7 DEF EarlyFacts, ForeignKept, Writing
<1>11. SavedIsWhole'
    BY <1>1, <1>3 DEF SavedIsWhole
<1>12. StartFacts'
    <2>1. r.pc \notin Writing
        BY <1>7 DEF Writing
    <2> QED
        BY <1>1, <1>3, <2>1 DEF StartFacts, Own, NothingElse
<1> QED
    BY <1>3, <1>5, <1>6, <1>8, <1>9, <1>10, <1>11, <1>12 DEF DnsInv

(* The program counter moves on and nothing else in the frame does. *)
LEMMA MoveFrame ==
    ASSUME NEW o \in Frames, NEW phase \in Pcs, NEW r, r = [o EXCEPT !.pc = phase]
    PROVE  /\ r \in Frames /\ r.pc = phase /\ r.tx = o.tx /\ r.undo = o.undo
           /\ r.goal = o.goal /\ r.cur = o.cur /\ r.todo = o.todo
           /\ r.id = o.id /\ r.start = o.start /\ r.base = o.base /\ r.desired = o.desired
           /\ r.changed = o.changed
           /\ r.stored = o.stored /\ r.kept = o.kept /\ r.saved = o.saved
           /\ r.before = o.before /\ r.lost = o.lost /\ r.dropped = o.dropped
           /\ r.skewed = o.skewed /\ r.unseen = o.unseen
BY DEF Frames

LEMMA SaveKeeps ==
    ASSUME DnsInv, Save
    PROVE  DnsInv'
<1>1. op \in Frames /\ Coherent(op) /\ WriteFacts /\ Shared /\ op.pc = "save"
    BY DEF DnsInv, TypeOK, Shared, Save
<1>2. op.pc \in Writing /\ op.todo = {}
    BY <1>1 DEF Coherent, Writing
<1>3. UNCHANGED <<native, disabled, touched, early, ops, faults>>
    BY DEF Save, history, bounds
<1>4. Shared'
    BY <1>1, <1>3 DEF Shared, Save
<1>5. startup' = startup \/ (touched = {} /\ ~op.dropped => Reached(op.changed, startup'))
    BY <1>1, <1>2 DEF WriteFacts, Save
<1>6. CASE startup' = native /\ op' = [op EXCEPT !.pc = "verify"]
    <2>1. PICK r : r = [op EXCEPT !.pc = "verify"]
        OBVIOUS
    <2>2. "verify" \in Pcs /\ "verify" \in Writing
        BY DEF Pcs, Writing
    <2>3. /\ r \in Frames /\ r.pc = "verify" /\ r.tx = op.tx /\ r.undo = op.undo
          /\ r.goal = op.goal /\ r.cur = op.cur /\ r.todo = op.todo
          /\ r.id = op.id /\ r.start = op.start /\ r.base = op.base /\ r.desired = op.desired
          /\ r.changed = op.changed
          /\ r.stored = op.stored /\ r.kept = op.kept /\ r.saved = op.saved
          /\ r.before = op.before /\ r.lost = op.lost /\ r.dropped = op.dropped
          /\ r.skewed = op.skewed /\ r.unseen = op.unseen
        BY <1>1, <2>1, <2>2, MoveFrame
    <2>4. Coherent(r) /\ SameJob(r)
        BY <1>1, <1>2, <2>2, <2>3 DEF Coherent, Moves, SameJob
    <2>5. WriteFacts' /\ ReadbackFacts'
        BY <1>3, <1>6, <2>1, <2>3 DEF WriteFacts, ReadbackFacts
    <2> QED
        BY <1>2, <1>3, <1>4, <1>5, <1>6, <2>1, <2>2, <2>3, <2>4, <2>5, GoOn, WantedBounded
<1>7. CASE op' = Fail(op)
    BY <1>2, <1>3, <1>4, <1>5, <1>7, FailKeeps, WantedBounded
<1> QED
    BY <1>6, <1>7 DEF Save

(* What a readback that passes tells of the router, and that a plain       *)
(* section it did not see was to be empty.                                 *)
LEMMA ReadbackSees ==
    ASSUME op \in Frames, native \in Configs, NEW load \in Loads, Same(op.changed, op.goal, load),
           NEW u \in BOOLEAN, u = ~Same(op.changed, load, native),
           NEW seen, seen = IF u THEN Own \ {"DNS"} ELSE Own
    PROVE  Same(seen, op.goal, native) /\ (u => NoPlain(op.goal))
<1>1. \A id \in Ids : id \notin PlainIds => load[id] = native[id]
    BY DEF Loads, Hide
<1>2. CASE ~u
    BY <1>2 DEF Same, Sections, Own
<1>3. CASE u
    <2>1. load = Hide(native)
        BY <1>3 DEF Loads, Same
    <2>2. "DNS" \in op.changed
        BY <1>1, <1>3, ProtocolFacts DEF Same, Sections
    <2>3. \A id \in PlainIds : op.goal[id] = {}
        BY <2>1, <2>2, ProtocolFacts DEF Same, Sections, Hide
    <2>4. Same(Own \ {"DNS"}, op.goal, native)
        BY <1>1, ProtocolFacts DEF Same, Sections, Own
    <2> QED
        BY <1>3, <2>3, <2>4 DEF NoPlain
<1> QED
    BY <1>2, <1>3

LEMMA VerifyKeeps ==
    ASSUME DnsInv, Verify
    PROVE  DnsInv'
<1>1. op \in Frames /\ Coherent(op) /\ ReadbackFacts /\ Shared /\ op.pc = "verify"
    BY DEF DnsInv, TypeOK, Shared, Verify
<1>2. /\ op.pc \in Writing /\ op.tx = "Applied" /\ op.changed # {}
      /\ op.goal = IF op.undo THEN op.before ELSE op.desired
    BY <1>1 DEF Coherent, Writing
<1>3. UNCHANGED <<native, startup, disabled, touched, early, ops, faults>>
    BY DEF Verify, history, bounds
<1>4. Shared'
    BY <1>1, <1>3 DEF Shared
<1>5. CASE op' = Fail(op)
    BY <1>2, <1>3, <1>4, <1>5, FailKeeps, WantedBounded
<1>6. ASSUME NEW load \in Loads, Same(op.changed, op.goal, load), NEW o,
             o = [op EXCEPT !.unseen = ~Same(op.changed, load, native)],
             op' = IF op.undo THEN Finish(o, "RolledBack")
                   ELSE [o EXCEPT !.pc = IF op.stored # None THEN "metadata" ELSE "probe"]
      PROVE  DnsInv'
    <2>1. PICK u \in BOOLEAN : u = ~Same(op.changed, load, native)
        OBVIOUS
    <2>2. /\ o \in Frames /\ o.unseen = u /\ o.pc = op.pc /\ o.tx = op.tx /\ o.undo = op.undo
          /\ o.goal = op.goal /\ o.cur = op.cur /\ o.todo = op.todo
          /\ o.id = op.id /\ o.start = op.start /\ o.base = op.base /\ o.desired = op.desired
          /\ o.changed = op.changed /\ o.stored = op.stored /\ o.kept = op.kept
          /\ o.saved = op.saved /\ o.before = op.before /\ o.lost = op.lost
          /\ o.dropped = op.dropped /\ o.skewed = op.skewed
        <3>1. o = [op EXCEPT !.unseen = u]
            BY <1>6, <2>1
        <3> QED
            BY <1>1, <3>1 DEF Frames
    <2>3. PICK seen : seen = IF u THEN Own \ {"DNS"} ELSE Own
        OBVIOUS
    <2>4. Same(seen, op.goal, native) /\ (u => NoPlain(op.goal))
        BY <1>1, <1>6, <2>1, <2>3, ReadbackSees DEF Shared
    <2>5. CASE op.undo
        <3>1. "RolledBack" \in TxTerminal /\ Advance(o.tx, "RolledBack") = "RolledBack"
            BY <1>2, <2>2 DEF TxTerminal, Advance, CanTransition, Successors
        <3>2. SameJob(o)
            BY <2>2 DEF SameJob
        <3>3. op' = Finish(o, "RolledBack") /\ op.goal = op.before
            BY <1>2, <1>6, <2>5
        <3> QED
            BY <1>2, <1>3, <2>2, <2>3, <2>4, <3>1, <3>2, <3>3, FinishKeeps
    <2>6. CASE ~op.undo
        <3>1. PICK phase : phase = IF op.stored # None THEN "metadata" ELSE "probe"
            OBVIOUS
        <3>2. PICK r : r = [o EXCEPT !.pc = phase]
            OBVIOUS
        <3>3. phase \in Pcs /\ phase \in Writing /\ op' = r /\ op.goal = op.desired
            BY <1>2, <1>6, <2>6, <3>1, <3>2 DEF Pcs, Writing
        <3>4. /\ r \in Frames /\ r.pc = phase /\ r.tx = op.tx /\ r.undo = op.undo
              /\ r.goal = op.goal /\ r.cur = op.cur /\ r.todo = op.todo
              /\ r.id = op.id /\ r.start = op.start /\ r.base = op.base /\ r.desired = op.desired
              /\ r.changed = op.changed /\ r.stored = op.stored /\ r.kept = op.kept
              /\ r.saved = op.saved /\ r.before = op.before /\ r.lost = op.lost
              /\ r.dropped = op.dropped /\ r.skewed = op.skewed /\ r.unseen = u
            BY <2>2, <3>2, <3>3, MoveFrame
        <3>5. Coherent(r) /\ SameJob(r)
            BY <1>1, <1>2, <2>6, <3>1, <3>3, <3>4 DEF Coherent, Moves, SameJob
        <3>6. WriteFacts'
            BY <3>1, <3>3, <3>4 DEF WriteFacts
        <3>7. Seen' = seen
            BY <1>3, <2>3, <3>3, <3>4 DEF Seen, Own
        <3>8. touched = {} => startup = native
            BY <1>1 DEF ReadbackFacts
        <3>9. ReadbackFacts'
            BY <1>3, <2>4, <3>1, <3>3, <3>4, <3>7, <3>8 DEF ReadbackFacts
        <3> QED
            BY <1>2, <1>3, <1>4, <3>3, <3>4, <3>5, <3>6, <3>9, GoOn, WantedBounded
    <2> QED
        BY <2>5, <2>6
<1> QED
    BY <1>5, <1>6 DEF Verify

LEMMA WriteMetadataKeeps ==
    ASSUME DnsInv, WriteMetadata
    PROVE  DnsInv'
<1>1. op \in Frames /\ Coherent(op) /\ ReadbackFacts /\ Shared /\ op.pc = "metadata"
    BY DEF DnsInv, TypeOK, Shared, WriteMetadata
<1>2. op.pc \in Writing /\ op.stored \in Configs
    BY <1>1 DEF Coherent, Writing, Frames
<1>3. UNCHANGED <<native, startup, touched, early, ops, faults>>
    BY DEF WriteMetadata, history, bounds
<1>4. Shared'
    BY <1>1, <1>2, <1>3 DEF Shared, WriteMetadata
<1>5. CASE disabled' = op.stored /\ op' = [op EXCEPT !.pc = "probe"]
    <2>1. PICK r : r = [op EXCEPT !.pc = "probe"]
        OBVIOUS
    <2>2. "probe" \in Pcs /\ "probe" \in Writing
        BY DEF Pcs, Writing
    <2>3. /\ r \in Frames /\ r.pc = "probe" /\ r.tx = op.tx /\ r.undo = op.undo
          /\ r.goal = op.goal /\ r.cur = op.cur /\ r.todo = op.todo
          /\ r.id = op.id /\ r.start = op.start /\ r.base = op.base /\ r.desired = op.desired
          /\ r.changed = op.changed
          /\ r.stored = op.stored /\ r.kept = op.kept /\ r.saved = op.saved
          /\ r.before = op.before /\ r.lost = op.lost /\ r.dropped = op.dropped
          /\ r.skewed = op.skewed /\ r.unseen = op.unseen
        BY <1>1, <2>1, <2>2, MoveFrame
    <2>4. Coherent(r) /\ SameJob(r)
        BY <1>1, <1>2, <2>2, <2>3 DEF Coherent, Moves, SameJob
    <2>5. WriteFacts'
        BY <1>5, <2>1, <2>3 DEF WriteFacts
    <2>6. ReadbackFacts'
        BY <1>1, <1>3, <1>5, <2>1, <2>3 DEF ReadbackFacts, Own, Seen
    <2> QED
        BY <1>2, <1>3, <1>4, <1>5, <2>1, <2>2, <2>3, <2>4, <2>5, <2>6, GoOn, WantedBounded
<1>6. CASE op' = Fail(op)
    BY <1>2, <1>3, <1>4, <1>6, FailKeeps, WantedBounded
<1> QED
    BY <1>5, <1>6 DEF WriteMetadata

LEMMA RuntimeProbeKeeps ==
    ASSUME DnsInv, RuntimeProbe
    PROVE  DnsInv'
<1>1. op \in Frames /\ Coherent(op) /\ ReadbackFacts /\ Shared /\ op.pc = "probe"
    BY DEF DnsInv, TypeOK, Shared, RuntimeProbe
<1>2. op.pc \in Writing /\ op.tx = "Applied"
    BY <1>1 DEF Coherent, Writing
<1>3. UNCHANGED <<native, startup, disabled, touched, early, ops, faults>>
    BY DEF RuntimeProbe, history, bounds
<1>4. Shared'
    BY <1>1, <1>3 DEF Shared
<1>5. CASE op' = Fail(op)
    BY <1>2, <1>3, <1>4, <1>5, FailKeeps, WantedBounded
<1>6. CASE op' = Finish([op EXCEPT !.tx = Advance(@, "Verified")], "Committed")
    <2>1. Advance(op.tx, "Verified") = "Verified" /\ "Verified" \in TxStates
        BY <1>2 DEF Advance, CanTransition, Successors, TxStates
    <2>2. PICK o : o = [op EXCEPT !.tx = "Verified"]
        OBVIOUS
    <2>3. o = [op EXCEPT !.tx = Advance(@, "Verified")]
        BY <2>1, <2>2
    <2>4. /\ o \in Frames /\ SameJob(o) /\ o.tx = "Verified"
          /\ o.skewed = op.skewed /\ o.unseen = op.unseen
        BY <1>1, <2>1, <2>2 DEF Frames, SameJob
    <2>5. "Committed" \in TxTerminal /\ Advance(o.tx, "Committed") = "Committed"
        BY <2>4 DEF TxTerminal, Advance, CanTransition, Successors
    <2>6. op' = Finish(o, "Committed")
        BY <1>6, <2>3
    <2>7. /\ Same(Seen, op.desired, native)
          /\ touched = {} => Same(Seen, op.desired, startup)
          /\ op.stored # None => disabled = op.stored
          /\ o.unseen => NoPlain(op.desired)
          /\ Seen = IF o.unseen THEN Own \ {"DNS"} ELSE Own
        BY <1>1, <2>4 DEF ReadbackFacts, Seen
    <2> QED
        BY <1>2, <1>3, <2>4, <2>5, <2>6, <2>7, FinishKeeps
<1> QED
    BY <1>5, <1>6 DEF RuntimeProbe

(* The writing starts from what the router has, or from a plain section    *)
(* that was not seen.                                                      *)
LEMMA RouteStarts ==
    ASSUME NEW o \in Frames, o.skewed \/ o.cur = native, o.todo = o.changed, native \in Configs,
           native' = native, touched' = touched, op' = Route(o)
    PROVE  WriteFacts' /\ ReadbackFacts'
<1>1. PICK r : r = Route(o)
    OBVIOUS
<1>2. /\ op' = r
      /\ r.pc = IF o.todo = {} THEN "save" ELSE IF o.todo # {"DNS"} THEN "section" ELSE "delete"
      /\ r.pc = "delete" => r.gone = Entries(o.cur) \ Entries(o.goal)
      /\ r.changed = o.changed /\ r.goal = o.goal /\ r.cur = o.cur /\ r.todo = o.todo
      /\ r.skewed = o.skewed
    BY <1>1, RouteFrame
<1>3. ASSUME r.pc = "delete", ~o.skewed, NEW id \in PlainIds, NEW d \in Domains
      PROVE  Reconciling(id, d)'
    <2>1. <<id, d>> \in r.gone <=> d \in native[id] /\ d \notin o.goal[id]
        BY <1>2, <1>3 DEF Entries
    <2> QED
        BY <1>2, <1>3, <2>1 DEF Reconciling
<1>4. WriteFacts'
    <2>1. Reached(r.changed \ r.todo, native)'
        BY <1>2 DEF Reached, Same, Sections
    <2> QED
        BY <1>2, <1>3, <2>1 DEF WriteFacts, Same
<1> QED
    BY <1>2, <1>4 DEF ReadbackFacts

LEMMA ReloadKeeps ==
    ASSUME DnsInv, Reload
    PROVE  DnsInv'
<1>1. op \in Frames /\ Coherent(op) /\ Shared /\ op.pc = "reload"
    BY DEF DnsInv, TypeOK, Shared, Reload
<1>2. op.pc \in Writing /\ op.undo /\ "DNS" \in op.changed /\ op.todo = op.changed
    BY <1>1 DEF Coherent, Writing
<1>3. UNCHANGED <<native, startup, disabled, touched, early, ops, faults>>
    BY DEF Reload, history, bounds
<1>4. Shared' /\ native \in Configs
    BY <1>1, <1>3 DEF Shared
<1>5. CASE op' = Fail(op)
    BY <1>2, <1>3, <1>4, <1>5, FailKeeps, WantedBounded
<1>6. ASSUME NEW load \in Loads, op' = Route([op EXCEPT !.cur = load, !.skewed = load # native])
      PROVE  DnsInv'
    <2>1. PICK skewed \in BOOLEAN : skewed = (load # native)
        OBVIOUS
    <2>2. PICK o : o = [op EXCEPT !.cur = load, !.skewed = skewed]
        OBVIOUS
    <2>3. /\ load \in Configs /\ (skewed => NoPlain(load)) /\ ~op.skewed
        BY <1>1, <1>4, <2>1 DEF Loads, Hide, NoPlain, Configs, Coherent, Ids
    <2>4. /\ o \in Frames /\ o.cur = load /\ o.todo = op.todo /\ o.goal = op.goal
          /\ o.id = op.id /\ o.start = op.start /\ o.base = op.base /\ o.desired = op.desired
          /\ o.changed = op.changed /\ o.stored = op.stored /\ o.kept = op.kept
          /\ o.saved = op.saved /\ o.before = op.before /\ o.lost = op.lost
          /\ o.dropped = op.dropped /\ o.undo = op.undo /\ o.tx = op.tx /\ o.skewed = skewed
        BY <1>1, <2>2, <2>3 DEF Frames
    <2>5. PICK r : r = Route(o)
        OBVIOUS
    <2>6. op' = r
        BY <1>6, <2>1, <2>2, <2>5
    <2>7. /\ r \in Frames
          /\ r.pc = IF op.todo # {"DNS"} THEN "section" ELSE "delete"
          /\ r.id = op.id /\ r.start = op.start /\ r.base = op.base /\ r.desired = op.desired
          /\ r.changed = op.changed /\ r.stored = op.stored /\ r.kept = op.kept
          /\ r.saved = op.saved /\ r.before = op.before /\ r.lost = op.lost
          /\ r.dropped = op.dropped /\ r.skewed = skewed
          /\ r.undo = op.undo /\ r.goal = op.goal /\ r.cur = load /\ r.todo = op.todo
          /\ r.tx = op.tx
        <3>1. op.todo # {}
            BY <1>2
        <3> QED
            BY <2>4, <2>5, <3>1, RouteFrame
    <2>8. Coherent(r) /\ SameJob(r) /\ r.pc \in Writing
        BY <1>1, <1>2, <2>3, <2>7 DEF Coherent, Moves, Writing, SameJob
    <2>9. WriteFacts' /\ ReadbackFacts'
        BY <1>2, <1>3, <1>4, <2>1, <2>4, <2>5, <2>6, RouteStarts
    <2> QED
        BY <1>2, <1>3, <1>4, <2>6, <2>7, <2>8, <2>9, GoOn, WantedBounded
<1> QED
    BY <1>5, <1>6 DEF Reload

LEMMA SettleKeeps ==
    ASSUME DnsInv, Settle
    PROVE  DnsInv'
<1>1. /\ op \in Frames /\ Coherent(op) /\ Shared /\ op.pc = "settle"
      /\ StartFacts /\ EarlyFacts /\ OutcomeFacts /\ ForeignKept /\ SavedIsWhole
    BY DEF DnsInv, TypeOK, Shared, Settle
<1>2. op.kept \in Configs /\ op.tx # "Committed" /\ op.changed # {} /\ op.kept # None
    BY <1>1 DEF Coherent
<1>3. UNCHANGED <<native, startup, touched, early, ops, faults>>
    BY DEF Settle, history, bounds
<1>4. Shared'
    BY <1>1, <1>2, <1>3 DEF Shared, Settle
<1>5. PICK lost \in BOOLEAN : op' = [op EXCEPT !.pc = "done", !.lost = lost]
                             /\ (~lost => disabled' = op.kept)
    <2>1. op.lost \in BOOLEAN
        BY <1>1 DEF Frames
    <2>2. CASE disabled' = op.kept /\ op' = [op EXCEPT !.pc = "done"]
        <3>1. op' = [op EXCEPT !.pc = "done", !.lost = op.lost]
            BY <1>1, <2>2 DEF Frames
        <3> QED
            BY <2>1, <2>2, <3>1
    <2>3. CASE op' = [op EXCEPT !.pc = "done", !.lost = TRUE]
        BY <2>3
    <2> QED
        BY <2>2, <2>3 DEF Settle
<1>6. /\ op' \in Frames /\ op'.pc = "done" /\ op'.lost = lost
      /\ op'.id = op.id /\ op'.start = op.start /\ op'.base = op.base /\ op'.desired = op.desired
      /\ op'.changed = op.changed
      /\ op'.stored = op.stored /\ op'.kept = op.kept /\ op'.saved = op.saved
      /\ op'.before = op.before /\ op'.dropped = op.dropped /\ op'.tx = op.tx
      /\ op'.undo = op.undo /\ op'.skewed = op.skewed /\ op'.unseen = op.unseen
    BY <1>1, <1>5 DEF Frames, Pcs
<1>7. Coherent(op')
    BY <1>1, <1>2, <1>6 DEF Coherent, Moves, Writing
<1>8. TypeOK'
    BY <1>4, <1>6 DEF TypeOK, Shared
<1>9. SnapshotFacts' /\ WriteFacts' /\ ReadbackFacts'
    BY <1>6 DEF SnapshotFacts, WriteFacts, ReadbackFacts
<1>10. OutcomeFacts' /\ SettledFacts'
    BY <1>1, <1>2, <1>3, <1>5, <1>6 DEF OutcomeFacts, SettledFacts, Own, Seen
<1>11. EarlyFacts' /\ ForeignKept'
    BY <1>1, <1>2, <1>3, <1>6 DEF EarlyFacts, ForeignKept, Writing
<1>12. SavedIsWhole'
    BY <1>1, <1>3, <1>6 DEF SavedIsWhole
<1>13. StartFacts'
    BY <1>1, <1>3, <1>6 DEF StartFacts, Own, NothingElse, Writing
<1> QED
    BY <1>7, <1>8, <1>9, <1>10, <1>11, <1>12, <1>13 DEF DnsInv

(* The comparison with the state read first: a section changed meanwhile   *)
(* by the router's interface is refused.                                   *)
LEMMA SnapshotKeeps ==
    ASSUME DnsInv, Snapshot
    PROVE  DnsInv'
<1>1. /\ op \in Frames /\ Coherent(op) /\ Shared /\ op.pc = "snapshot"
      /\ SnapshotFacts /\ EarlyFacts /\ ForeignKept /\ SavedIsWhole
    BY DEF DnsInv, TypeOK, Shared, Snapshot
<1>2. op.tx = "Precheck" /\ ~op.undo /\ op.changed # {} /\ op.desired \in Configs
    BY <1>1 DEF Coherent
<1>3. UNCHANGED <<native, startup, disabled, touched, early, ops, faults>>
    BY DEF Snapshot, history, bounds
<1>4. Shared' /\ native \in Configs
    BY <1>1, <1>3 DEF Shared
<1>5. Same(Own, op.start, native) /\ (touched = {} => startup = op.saved)
    BY <1>1 DEF SnapshotFacts, Same, Sections, Own
<1>6. "Failed" \in TxTerminal
    BY DEF TxTerminal
<1>7. CASE op' = Finish(op, "Failed")
    <2>1. Advance(op.tx, "Failed") = "Failed"
        BY <1>2 DEF Advance, CanTransition, Successors
    <2>2. SameJob(op)
        BY DEF SameJob
    <2> QED
        BY <1>1, <1>3, <1>5, <1>6, <1>7, <2>1, <2>2, FinishKeeps
<1>8. CASE op' = Finish([op EXCEPT !.tx = Advance(@, "Snapshot")], "Failed")
    <2>1. Advance(op.tx, "Snapshot") = "Snapshot" /\ "Snapshot" \in TxStates
        BY <1>2 DEF Advance, CanTransition, Successors, TxStates
    <2>2. PICK o : o = [op EXCEPT !.tx = "Snapshot"]
        OBVIOUS
    <2>3. o = [op EXCEPT !.tx = Advance(@, "Snapshot")]
        BY <2>1, <2>2
    <2>4. o \in Frames /\ SameJob(o) /\ o.tx = "Snapshot" /\ o.skewed = op.skewed
        BY <1>1, <2>1, <2>2 DEF Frames, SameJob
    <2>5. Advance(o.tx, "Failed") = "Failed"
        BY <2>4 DEF Advance, CanTransition, Successors
    <2>6. op' = Finish(o, "Failed")
        BY <1>8, <2>3
    <2> QED
        BY <1>1, <1>3, <1>5, <1>6, <2>4, <2>5, <2>6, FinishKeeps
<1>9. CASE /\ Same(op.changed, op.base, native)
           /\ op' = Route([op EXCEPT
                    !.tx = Advance(Advance(Advance(@, "Snapshot"), "Validated"), "Applied"),
                    !.before = native, !.cur = native, !.goal = op.desired, !.todo = op.changed])
    <2>1. Advance(Advance(Advance(op.tx, "Snapshot"), "Validated"), "Applied") = "Applied"
          /\ "Applied" \in TxStates
        BY <1>2 DEF Advance, CanTransition, Successors, TxStates
    <2>2. PICK o : o = [op EXCEPT !.tx = "Applied", !.before = native, !.cur = native,
                                  !.goal = op.desired, !.todo = op.changed]
        OBVIOUS
    <2>3. op' = Route(o)
        BY <1>9, <2>1, <2>2
    <2>4. /\ o \in Frames /\ o.cur = native /\ o.todo = op.changed /\ o.goal = op.desired
          /\ o.id = op.id /\ o.start = op.start /\ o.base = op.base /\ o.desired = op.desired
          /\ o.changed = op.changed
          /\ o.stored = op.stored /\ o.kept = op.kept /\ o.saved = op.saved
          /\ o.before = native /\ o.lost = op.lost /\ o.dropped = op.dropped
          /\ o.skewed = op.skewed /\ o.unseen = op.unseen
          /\ o.undo = op.undo /\ o.tx = "Applied"
        BY <1>1, <1>2, <1>4, <2>1, <2>2 DEF Frames
    <2>5. PICK r : r = Route(o)
        OBVIOUS
    <2>6. /\ r \in Frames
          /\ r.pc = IF op.changed # {"DNS"} THEN "section" ELSE "delete"
          /\ r.id = op.id /\ r.start = op.start /\ r.base = op.base /\ r.desired = op.desired
          /\ r.changed = op.changed
          /\ r.stored = op.stored /\ r.kept = op.kept /\ r.saved = op.saved
          /\ r.before = native /\ r.lost = op.lost /\ r.dropped = op.dropped
          /\ r.skewed = op.skewed /\ r.unseen = op.unseen
          /\ r.undo = op.undo /\ r.goal = op.desired /\ r.cur = native /\ r.todo = op.changed
          /\ r.tx = "Applied" /\ op' = r
        BY <1>2, <2>3, <2>4, <2>5, RouteFrame
    <2>7. Coherent(r) /\ r.pc \in Writing
        BY <1>1, <1>2, <1>4, <1>9, <2>6 DEF Coherent, Moves, Writing
    <2>8. TypeOK'
        BY <1>4, <2>6 DEF TypeOK, Shared
    <2>9. WriteFacts' /\ ReadbackFacts'
        BY <1>3, <1>4, <2>3, <2>4, RouteStarts
    <2>13. StartFacts'
        <3>1. Same(Own, op.base, op.start)
            BY <1>5, <1>9 DEF Same, Sections, Own
        <3>2. NothingElse(native)
            BY <1>9 DEF NothingElse, Same
        <3> QED
            BY <1>3, <2>6, <3>1, <3>2 DEF StartFacts, Own, NothingElse
    <2>10. SnapshotFacts' /\ OutcomeFacts' /\ SettledFacts'
        BY <2>6 DEF SnapshotFacts, OutcomeFacts, SettledFacts
    <2>11. EarlyFacts'
        BY <1>1, <1>2, <1>3, <1>9, <2>6 DEF EarlyFacts, Same, Sections
    <2>12. ForeignKept' /\ SavedIsWhole'
        BY <1>1, <1>3, <2>6 DEF ForeignKept, SavedIsWhole
    <2> QED
        BY <2>6, <2>7, <2>8, <2>9, <2>10, <2>11, <2>12, <2>13 DEF DnsInv
<1> QED
    BY <1>7, <1>8, <1>9 DEF Snapshot

---------------------------------------------------------------------------
(* The requests.                                                           *)

(* The frame of a new operation, or of none. *)
LEMMA BlankFrame ==
    /\ Blank \in Frames /\ Blank.pc = "done" /\ Blank.tx = "Precheck" /\ Blank.changed = {}
    /\ Blank.kept = None /\ ~Blank.undo /\ ~Blank.lost /\ ~Blank.skewed /\ ~Blank.unseen
BY DEF Blank, Frames, Pcs, TxStates

(* Nothing is claimed of an operation that has no sections. *)
LEMMA IdleKeeps ==
    ASSUME Shared', op' \in Frames, op'.pc = "done", op'.tx = "Precheck", op'.changed = {},
           op'.kept = None, ~op'.skewed, early' = [id \in Ids |-> None]
    PROVE  DnsInv'
<1>1. Coherent(op')
    BY DEF Coherent, Writing, TxTerminal
<1>2. TypeOK'
    BY DEF TypeOK, Shared
<1>3. /\ SnapshotFacts' /\ StartFacts' /\ WriteFacts' /\ ReadbackFacts' /\ OutcomeFacts'
      /\ SettledFacts'
    BY DEF SnapshotFacts, StartFacts, Writing, WriteFacts, ReadbackFacts, OutcomeFacts, SettledFacts
<1>4. EarlyFacts' /\ ForeignKept'
    BY DEF EarlyFacts, ForeignKept
<1>5. SavedIsWhole'
    BY DEF SavedIsWhole
<1> QED
    BY <1>1, <1>2, <1>3, <1>4, <1>5 DEF DnsInv

LEMMA BeginKeeps ==
    ASSUME DnsInv, NEW id \in Ids, NEW read \in Configs, NEW desired \in Configs, NEW changed \in SUBSET Protocols,
           ProtocolOf(id) \in changed, NEW stored \in Configs \cup {None},
           stored # None =>
               \/ read[id] = {} /\ desired[id] = disabled[id] /\ stored[id] = {}
               \/ disabled[id] = {} /\ desired[id] = {} /\ stored[id] = read[id],
           Begin(id, read, desired, changed, stored)
    PROVE  DnsInv'
<1>1. native \in Configs /\ startup \in Configs /\ disabled \in Configs /\ Shared
    BY DEF DnsInv, TypeOK, Shared
<1>2. /\ UNCHANGED <<native, startup, disabled, faults>>
      /\ touched' = {} /\ early' = [i \in Ids |-> None]
    BY DEF Begin, Untouched
<1>3. Shared'
    <2>1. early' \in [Ids -> (SUBSET Domains) \cup {None}]
        BY <1>2
    <2>2. ops' \in 0..MaxOps
        BY <1>1, BoundsAssumption DEF Begin, Shared
    <2> QED
        BY <1>1, <1>2, <2>1, <2>2 DEF Shared
<1>4. PICK kept : kept = IF stored = None THEN None ELSE disabled
    OBVIOUS
<1>5. PICK start \in Configs, base \in Configs, saved \in Configs :
        start = native /\ base = read /\ saved = startup
    BY <1>1
<1>6. PICK o : o = [Blank EXCEPT !.pc = "snapshot", !.id = id, !.start = start, !.base = base, !.saved = saved,
                                 !.desired = desired, !.changed = changed, !.stored = stored,
                                 !.kept = kept]
    OBVIOUS
<1>7. op' = IF WithinLimits(desired, changed) THEN o ELSE Finish(o, "Failed")
    BY <1>4, <1>5, <1>6 DEF Begin
<1>8. kept \in Configs \cup {None}
    BY <1>1, <1>4
<1>9. /\ o \in Frames /\ o.pc = "snapshot" /\ o.tx = "Precheck" /\ ~o.undo /\ ~o.lost
      /\ ~o.skewed /\ o.start = start
      /\ o.id = id /\ o.base = base /\ o.saved = saved /\ o.desired = desired
      /\ o.changed = changed /\ o.stored = stored /\ o.kept = kept
    <2>1. "snapshot" \in Pcs
        BY DEF Pcs
    <2>2. PICK b : b = Blank
        OBVIOUS
    <2>3. b \in Frames /\ b.tx = "Precheck" /\ ~b.undo /\ ~b.lost /\ ~b.skewed
        BY <2>2, BlankFrame
    <2>4. o = [b EXCEPT !.pc = "snapshot", !.id = id, !.start = start, !.base = base, !.saved = saved,
                        !.desired = desired, !.changed = changed, !.stored = stored, !.kept = kept]
        BY <1>6, <2>2
    <2>5. o \in Frames
        BY <1>8, <2>1, <2>3, <2>4 DEF Frames
    <2> QED
        BY <2>3, <2>4, <2>5 DEF Frames
<1>10. Coherent(o)
    <2>1. kept # None => stored # None /\ kept = disabled
        BY <1>4
    <2>2. kept # None => Moves(o) /\ stored \in Configs /\ kept \in Configs
        BY <1>1, <1>5, <1>9, <2>1 DEF Moves
    <2> QED
        BY <1>9, <2>2 DEF Coherent, Writing
<1>11. ASSUME NEW r \in Frames, op' = r, r.start = start, r.base = base, r.saved = saved, r.changed = changed,
              Coherent(r),
              \/ r.pc = "snapshot"
              \/ /\ r.pc \in {"done", "settle"} /\ r.tx = "Failed"
                 /\ r.kept # None => r.pc = "settle"
       PROVE  DnsInv'
    <2>1. TypeOK'
        BY <1>3, <1>11 DEF TypeOK, Shared
    <2>2. SnapshotFacts' /\ StartFacts' /\ WriteFacts' /\ ReadbackFacts' /\ SettledFacts'
        BY <1>2, <1>5, <1>11
        DEF SnapshotFacts, StartFacts, Coherent, Writing, WriteFacts, ReadbackFacts, SettledFacts
    <2>3. OutcomeFacts'
        BY <1>2, <1>5, <1>11 DEF OutcomeFacts, Same
    <2>4. EarlyFacts' /\ ForeignKept'
        BY <1>2 DEF EarlyFacts, ForeignKept
    <2>5. SavedIsWhole'
        BY <1>2, <1>5, <1>11 DEF SavedIsWhole, Same
    <2> QED
        BY <1>11, <2>1, <2>2, <2>3, <2>4, <2>5 DEF DnsInv
<1>12. CASE WithinLimits(desired, changed)
    BY <1>7, <1>9, <1>10, <1>11, <1>12
<1>13. CASE ~WithinLimits(desired, changed)
    <2>1. "Failed" \in TxTerminal /\ Advance(o.tx, "Failed") = "Failed"
        BY <1>9 DEF TxTerminal, Advance, CanTransition, Successors
    <2>2. PICK r : r = Finish(o, "Failed")
        OBVIOUS
    <2>3. /\ r \in Frames /\ r.tx = "Failed"
          /\ r.pc = IF o.kept # None THEN "settle" ELSE "done"
          /\ r.id = o.id /\ r.start = o.start /\ r.base = o.base /\ r.desired = o.desired
          /\ r.changed = o.changed
          /\ r.stored = o.stored /\ r.kept = o.kept /\ r.saved = o.saved /\ r.skewed = o.skewed
        BY <1>9, <2>1, <2>2, FinishFrame
    <2>4. Coherent(r)
        BY <1>9, <1>10, <2>1, <2>3 DEF Coherent, Moves, Writing
    <2>5. op' = r
        BY <1>7, <1>13, <2>2
    <2> QED
        BY <1>9, <1>11, <2>3, <2>4, <2>5
<1> QED
    BY <1>12, <1>13

LEMMA RewriteKeeps ==
    ASSUME DnsInv, NEW id \in Ids, NEW store \in Configs, Rewrite(id, store)
    PROVE  DnsInv'
<1>1. Shared
    BY DEF DnsInv, TypeOK, Shared
<1>2. Shared'
    <2>1. early' \in [Ids -> (SUBSET Domains) \cup {None}] /\ touched' = {}
        BY DEF Rewrite, Untouched
    <2>2. ops' \in 0..MaxOps
        BY <1>1, BoundsAssumption DEF Rewrite, Shared
    <2> QED
        BY <1>1, <2>1, <2>2 DEF Shared, Rewrite
<1>3. /\ op' \in Frames /\ op'.pc = "done" /\ op'.tx = "Precheck" /\ op'.changed = {}
      /\ op'.kept = None /\ ~op'.skewed
    BY BlankFrame DEF Rewrite, Frames
<1> QED
    BY <1>2, <1>3, IdleKeeps DEF Rewrite, Untouched

LEMMA RequestKeeps ==
    ASSUME DnsInv, NEW id \in Ids, NEW c \in Contents, NEW new \in Ids, NEW read \in Loads,
           Create(id, c, read) \/ Update(id, new, c, read) \/ Delete(id, read) \/ Disable(id, read) \/ Enable(id, read)
    PROVE  DnsInv'
<1>1. read \in Configs /\ disabled \in Configs
    BY DEF DnsInv, TypeOK, Loads, Hide, Configs
<1>2. c \in SUBSET Domains /\ PresetEntries \in SUBSET Domains
    BY ProtocolAssumption DEF Contents
<1>3. PICK p \in SUBSET Protocols : p = {ProtocolOf(id)}
    BY ProtocolFacts
<1>4. CASE Create(id, c, read)
    <2>1. PICK want : want = [read EXCEPT ![id] = c]
        OBVIOUS
    <2>2. want \in Configs
        BY <1>1, <1>2, <2>1 DEF Configs
    <2>3. Begin(id, read, want, p, None)
        BY <1>3, <1>4, <2>1 DEF Create
    <2> QED
        BY <1>1, <1>3, <2>2, <2>3, BeginKeeps
<1>5. CASE Update(id, new, c, read)
    <2>1. CASE disabled[id] # {}
        <3>1. PICK store : store = [disabled EXCEPT ![id] = {}, ![new] = c]
            OBVIOUS
        <3>2. store \in Configs
            BY <1>1, <1>2, <3>1 DEF Configs
        <3>3. Rewrite(id, store)
            BY <1>5, <2>1, <3>1 DEF Update
        <3> QED
            BY <3>2, <3>3, RewriteKeeps
    <2>2. CASE disabled[id] = {}
        <3>1. PICK want : want = [read EXCEPT ![id] = {}, ![new] = c]
            OBVIOUS
        <3>2. want \in Configs
            BY <1>1, <1>2, <3>1 DEF Configs
        <3>3. PICK both \in SUBSET Protocols : both = {ProtocolOf(id), ProtocolOf(new)}
            BY ProtocolFacts
        <3>4. Begin(id, read, want, both, None)
            BY <1>5, <2>2, <3>1, <3>3 DEF Update
        <3> QED
            BY <1>1, <3>2, <3>3, <3>4, BeginKeeps
    <2> QED
        BY <2>1, <2>2
<1>6. PICK without : without = [read EXCEPT ![id] = {}]
    OBVIOUS
<1>7. without \in Configs /\ without[id] = {}
    BY <1>1, <1>6 DEF Configs
<1>8. CASE Delete(id, read)
    <2>1. CASE disabled[id] # {}
        <3>1. PICK store : store = [disabled EXCEPT ![id] = {}]
            OBVIOUS
        <3>2. store \in Configs
            BY <1>1, <3>1 DEF Configs
        <3>3. Rewrite(id, store)
            BY <1>8, <2>1, <3>1 DEF Delete
        <3> QED
            BY <3>2, <3>3, RewriteKeeps
    <2>2. CASE disabled[id] = {}
        <3>1. Begin(id, read, without, p, None)
            BY <1>3, <1>6, <1>8, <2>2 DEF Delete
        <3> QED
            BY <1>1, <1>3, <1>7, <3>1, BeginKeeps
    <2> QED
        BY <2>1, <2>2
<1>9. CASE Disable(id, read)
    <2>1. CASE id \in Presets
        <3>1. Begin(id, read, without, p, None)
            BY <1>3, <1>6, <1>9, <2>1 DEF Disable
        <3> QED
            BY <1>1, <1>3, <1>7, <3>1, BeginKeeps
    <2>2. CASE id \notin Presets
        <3>1. PICK store : store = [disabled EXCEPT ![id] = read[id]]
            OBVIOUS
        <3>2. store \in Configs /\ store[id] = read[id]
            BY <1>1, <3>1 DEF Configs
        <3>3. disabled[id] = {} /\ Begin(id, read, without, p, store)
            BY <1>3, <1>6, <1>9, <2>2, <3>1 DEF Disable
        <3> QED
            BY <1>1, <1>3, <1>7, <3>2, <3>3, BeginKeeps
    <2> QED
        BY <2>1, <2>2
<1>10. CASE Enable(id, read)
    <2>1. CASE disabled[id] = {}
        <3>1. PICK want : want = [read EXCEPT ![id] = PresetEntries]
            OBVIOUS
        <3>2. want \in Configs
            BY <1>1, <1>2, <3>1 DEF Configs
        <3>3. Begin(id, read, want, p, None)
            BY <1>3, <1>10, <2>1, <3>1 DEF Enable
        <3> QED
            BY <1>1, <1>3, <3>2, <3>3, BeginKeeps
    <2>2. CASE disabled[id] # {}
        <3>1. PICK want : want = [read EXCEPT ![id] = disabled[id]]
            OBVIOUS
        <3>2. PICK store : store = [disabled EXCEPT ![id] = {}]
            OBVIOUS
        <3>3. want \in Configs /\ want[id] = disabled[id] /\ store \in Configs /\ store[id] = {}
            BY <1>1, <3>1, <3>2 DEF Configs
        <3>4. read[id] = {} /\ Begin(id, read, want, p, store)
            BY <1>3, <1>10, <2>2, <3>1, <3>2 DEF Enable
        <3> QED
            BY <1>1, <1>3, <3>3, <3>4, BeginKeeps
    <2> QED
        BY <2>1, <2>2
<1> QED
    BY <1>4, <1>5, <1>8, <1>9, <1>10

---------------------------------------------------------------------------
(* The environment.                                                        *)

LEMMA ExternalKeeps ==
    ASSUME DnsInv, NEW id \in Ids, NEW c \in SUBSET Domains, External(id, c)
    PROVE  DnsInv'
<1>1. op \in Frames /\ Coherent(op) /\ Shared
    BY DEF DnsInv, TypeOK, Shared
<1>2. /\ native' = [native EXCEPT ![id] = c] /\ touched' = touched \cup {ProtocolOf(id)}
      /\ UNCHANGED <<disabled, op, ops>>
      /\ startup' \in {startup, native'}
    BY DEF External
<1>3. native' \in Configs /\ native'[id] = c /\ \A i \in Ids : i # id => native'[i] = native[i]
    BY <1>1, <1>2 DEF Shared, Configs
<1>4. PICK mark \in (SUBSET Domains) \cup {None} : mark = IF op.pc = "snapshot" THEN c ELSE None
    OBVIOUS
<1>5. early' = [early EXCEPT ![id] = mark]
    BY <1>4 DEF External
<1>6. /\ early' \in [Ids -> (SUBSET Domains) \cup {None}] /\ early'[id] = mark
      /\ \A i \in Ids : i # id => early'[i] = early[i]
    BY <1>1, <1>5 DEF Shared
<1>7. TypeOK'
    <2>1. faults' \in 0..MaxFaults
        BY <1>1, BoundsAssumption DEF Shared, External
    <2>2. startup' \in Configs /\ touched' \subseteq Protocols
        BY <1>1, <1>2, <1>3, ProtocolFacts DEF Shared
    <2> QED
        BY <1>1, <1>2, <1>3, <1>6, <2>1, <2>2 DEF TypeOK, Shared
<1>8. touched' # {}
    BY <1>2
<1>9. WriteFacts' /\ SavedIsWhole'
    BY <1>8 DEF WriteFacts, SavedIsWhole
<1>10. SnapshotFacts'
    BY <1>2, <1>3, <1>8 DEF DnsInv, SnapshotFacts
<1>11. EarlyFacts'
    <2>1. op.pc = "snapshot" => op.changed # {} /\ op.pc \notin Writing
        BY <1>1 DEF Coherent, Writing
    <2>2. EarlyFacts
        BY DEF DnsInv
    <2> QED
        BY <1>2, <1>3, <1>4, <1>6, <2>1, <2>2 DEF EarlyFacts
<1>12. ForeignKept'
    BY <1>2, <1>3, <1>4, <1>6 DEF DnsInv, ForeignKept
<1>13. \A d : /\ Same(Own, d, native) => Same(Own, d, native)'
              /\ Same(Seen, d, native) => Same(Seen, d, native)'
    BY <1>2, <1>3 DEF Same, Seen, Own, Sections
<1>14. ReadbackFacts'
    BY <1>2, <1>8, <1>13 DEF DnsInv, ReadbackFacts
<1>15. OutcomeFacts' /\ SettledFacts'
    BY <1>2, <1>8, <1>13 DEF DnsInv, OutcomeFacts, SettledFacts
<1>16. StartFacts'
    BY <1>2, <1>8 DEF DnsInv, StartFacts, Same, Own, Sections
<1> QED
    BY <1>1, <1>2, <1>7, <1>9, <1>10, <1>11, <1>12, <1>14, <1>15, <1>16 DEF DnsInv

LEMMA CrashKeeps ==
    ASSUME DnsInv, Crash
    PROVE  DnsInv'
<1>1. Shared
    BY DEF DnsInv, TypeOK, Shared
<1>2. Shared'
    <2>1. early' \in [Ids -> (SUBSET Domains) \cup {None}] /\ touched' = {}
        BY DEF Crash, Untouched
    <2>2. faults' \in 0..MaxFaults
        BY <1>1, BoundsAssumption DEF Crash, Shared
    <2> QED
        BY <1>1, <2>1, <2>2 DEF Shared, Crash
<1> QED
    BY <1>2, BlankFrame, IdleKeeps DEF Crash, Untouched

---------------------------------------------------------------------------
(* The theorems.                                                           *)

LEMMA NextKeeps ==
    ASSUME DnsInv, [Next]_vars
    PROVE  DnsInv'
<1>1. CASE Request
    <2>1. PresetEntries \in Contents
        BY ProtocolAssumption
    <2> QED
        BY <1>1, <2>1, RequestKeeps DEF Request
<1>2. CASE OpStep
    BY <1>2, SnapshotKeeps, ClearSectionKeeps, AddEntriesKeeps, DeletePlainKeeps, PostPlainKeeps,
       SaveKeeps, VerifyKeeps, WriteMetadataKeeps, RuntimeProbeKeeps, ReloadKeeps, SettleKeeps
    DEF OpStep
<1>3. CASE \E id \in Ids, c \in SUBSET Domains : External(id, c)
    BY <1>3, ExternalKeeps
<1>4. CASE Crash
    BY <1>4, CrashKeeps
<1>5. CASE UNCHANGED vars
    BY <1>5 DEF vars, DnsInv, TypeOK, SnapshotFacts, EarlyFacts, WriteFacts, Reconciling, ReadbackFacts,
        OutcomeFacts, SettledFacts, ForeignKept, SavedIsWhole, Own, Seen, StartFacts, NothingElse,
        Reached
<1> QED
    BY <1>1, <1>2, <1>3, <1>4, <1>5 DEF Next

LEMMA InitEstablishes ==
    ASSUME Init
    PROVE  DnsInv
<1>1. /\ native \in Configs /\ startup = native /\ disabled \in Configs /\ op = Blank
      /\ touched = {} /\ early = [id \in Ids |-> None] /\ ops = 0 /\ faults = 0
    BY DEF Init
<1>2. TypeOK
    BY <1>1, BlankFrame, BoundsAssumption DEF TypeOK
<1>3. Coherent(op)
    BY <1>1, BlankFrame DEF Coherent, Writing, TxTerminal
<1>4. /\ SnapshotFacts /\ StartFacts /\ WriteFacts /\ ReadbackFacts /\ OutcomeFacts /\ SettledFacts
    BY <1>1, BlankFrame DEF SnapshotFacts, StartFacts, Writing, WriteFacts, ReadbackFacts, OutcomeFacts, SettledFacts
<1>5. EarlyFacts /\ ForeignKept /\ SavedIsWhole
    BY <1>1, BlankFrame DEF EarlyFacts, ForeignKept, SavedIsWhole
<1> QED
    BY <1>2, <1>3, <1>4, <1>5 DEF DnsInv

(* The frame of a DNS operation agrees with its phase, and each phase      *)
(* knows what the running, the startup and the module's configuration      *)
(* hold, whatever requests fail, are dropped or lose their answer and      *)
(* whatever the router's interface changes (applyMutation).                *)
THEOREM DnsInvariant == Spec => []DnsInv
<1>1. Init => DnsInv
    BY InitEstablishes
<1>2. DnsInv /\ [Next]_vars => DnsInv'
    BY NextKeeps
<1> QED
    BY <1>1, <1>2, PTL DEF Spec

(* The transaction an operation returns says what happened to the running  *)
(* and the startup configuration and to the metadata.                      *)
THEOREM OutcomeTruthfulAlways == Spec => []OutcomeTruthful
<1>1. DnsInv => OutcomeTruthful
    BY DEF DnsInv, OutcomeFacts, OutcomeTruthful
<1> QED
    BY <1>1, DnsInvariant, PTL

(* An operation never overwrites a change that the router's interface made *)
(* between its first read and the snapshot of its transaction.             *)
THEOREM ForeignKeptAlways == Spec => []ForeignKept
<1>1. DnsInv => ForeignKept
    BY DEF DnsInv
<1> QED
    BY <1>1, DnsInvariant, PTL

(* The startup configuration never holds a half-written section.           *)
THEOREM SavedIsWholeAlways == Spec => []SavedIsWhole
<1>1. DnsInv => SavedIsWhole
    BY DEF DnsInv
<1> QED
    BY <1>1, DnsInvariant, PTL

(* Enable and Disable keep the entries of the resolver between the         *)
(* router's configuration and the metadata, and in only one of them unless *)
(* the readback did not see its section.                                   *)
THEOREM EntriesKeptAlways == Spec => []EntriesKept
<1>1. ASSUME DnsInv PROVE EntriesKept
    <2> SUFFICES ASSUME op.pc = "done", op.kept # None, ~op.lost, op.tx # "Ambiguous", touched = {}
                 PROVE  /\ native[op.id] \cup disabled[op.id] = op.start[op.id] \cup op.kept[op.id]
                        /\ ~op.unseen /\ (op.start[op.id] = {} \/ op.kept[op.id] = {}) =>
                            native[op.id] = {} \/ disabled[op.id] = {}
        BY DEF EntriesKept
    <2>1. Coherent(op) /\ StartFacts /\ OutcomeFacts /\ SettledFacts
        BY <1>1 DEF DnsInv
    <2>2. /\ op.changed # {} /\ Moves(op) /\ op.stored \in Configs /\ op.stored # None
          /\ op.tx \in {"Committed", "RolledBack", "Failed"}
        BY <2>1, ProtocolFacts DEF Coherent, TxTerminal
    <2>3. op.id \in Ids /\ op.id \in Sections(op.changed) /\ op.id \in Sections(Own)
        BY <2>2 DEF Moves, Sections, Own
    <2>4. op.id \notin Sections(Seen) => op.unseen /\ op.id \in PlainIds
        BY <2>3, ProtocolFacts DEF Seen, Sections
    <2>5. op.tx # "Failed" =>
            /\ op.base[op.id] = op.start[op.id]
            /\ native[op.id] \subseteq op.base[op.id] \cup op.desired[op.id]
        BY <2>1, <2>2, <2>3 DEF StartFacts, Same, NothingElse
    <2>6. op.tx # "Committed" => disabled = op.kept
        BY <2>1 DEF SettledFacts
    <2>7. CASE op.tx = "Committed"
        <3>1. disabled = op.stored
            BY <2>1, <2>2, <2>7 DEF OutcomeFacts
        <3>2. CASE op.id \in Sections(Seen)
            <4>1. native[op.id] = op.desired[op.id]
                BY <2>1, <2>7, <3>2 DEF OutcomeFacts, Same
            <4> QED
                BY <2>2, <2>5, <2>7, <3>1, <4>1 DEF Moves
        <3>3. CASE op.id \notin Sections(Seen)
            <4>1. op.desired[op.id] = {} /\ op.unseen
                BY <2>1, <2>4, <2>7, <3>3 DEF OutcomeFacts, NoPlain
            <4> QED
                BY <2>2, <2>5, <2>7, <3>1, <4>1 DEF Moves
        <3> QED
            BY <3>2, <3>3
    <2>8. CASE op.tx = "RolledBack"
        <3>1. op.before[op.id] = op.start[op.id]
            BY <2>1, <2>3, <2>5, <2>8 DEF Coherent, Same
        <3>2. CASE op.id \in Sections(Seen)
            <4>1. native[op.id] = op.before[op.id]
                BY <2>1, <2>8, <3>2 DEF OutcomeFacts, Same
            <4> QED
                BY <2>6, <2>8, <3>1, <4>1
        <3>3. CASE op.id \notin Sections(Seen)
            <4>1. op.before[op.id] = {} /\ op.unseen
                BY <2>1, <2>4, <2>8, <3>3 DEF OutcomeFacts, NoPlain
            <4> QED
                BY <2>2, <2>5, <2>6, <2>8, <3>1, <4>1 DEF Moves
        <3> QED
            BY <3>2, <3>3
    <2>9. CASE op.tx = "Failed"
        <3>1. native[op.id] = op.start[op.id]
            BY <2>1, <2>3, <2>9 DEF OutcomeFacts, Same
        <3> QED
            BY <2>6, <2>9, <3>1
    <2> QED
        BY <2>2, <2>7, <2>8, <2>9
<1>2. DnsInv => EntriesKept
    BY <1>1
<1> QED
    BY <1>2, DnsInvariant, PTL
====
