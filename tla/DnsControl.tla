---- MODULE DnsControl ----
(***************************************************************************)
(* modules/dns/runtime/dns_control.go: create, update, delete, disable and *)
(* enable a DNS resolver of the router.                                    *)
(*                                                                         *)
(* The resolvers live in the router's own configuration, reached by HTTP   *)
(* (RCI): one section per protocol, each a set of physical entries, and a  *)
(* startup copy made by configuration/save that the router boots from.  A  *)
(* disabled resolver lives in a metadata file of the module.  One          *)
(* operation runs at a time (dnsControlManager.mu is held from the first   *)
(* read to the return), but every call of it can fail, with or without its *)
(* effect, the client can go away, the daemon can be killed, the router    *)
(* can reboot, and the router's own interface changes the same sections.   *)
(*                                                                         *)
(* A resolver id stands for the normalised endpoint it is the hash of, and *)
(* determines the protocol; its entries differ in their domain.  Dynamic   *)
(* resolvers (DHCP) are read-only and left out, as are List and Preview,   *)
(* which change nothing.  One load reads all the sections; a name-server   *)
(* read that the router answers with 404 or 400 is no error: the load then *)
(* shows an empty plain section, and only the transaction's own snapshot   *)
(* looks at the flag that says so.                                         *)
(***************************************************************************)
EXTENDS Integers, FiniteSets, FiniteSetsExt, Transaction

CONSTANTS
    PlainIds, DotIds, DohIds,  \* resolver ids of each protocol
    Presets,                   \* ids of the built-in public resolvers
    Domains,                   \* tell the physical entries of a resolver apart
    PresetEntries,             \* the entries of a built-in resolver
    SlotLimit,                 \* dnsKeeneticDoTSlotLimit, dnsKeeneticDoHSlotLimit
    None,
    MaxOps,
    MaxFaults                  \* bound on crashes, changes by the router's interface and
                               \* requests the router accepts and drops

Ids       == PlainIds \cup DotIds \cup DohIds
Protocols == {"DoT", "DoH", "DNS"}
Configs   == [Ids -> SUBSET Domains]   \* {}: the resolver is not there
Contents  == (SUBSET Domains) \ {{}}

ASSUME ProtocolAssumption ==
    /\ PlainIds \cap DotIds = {} /\ PlainIds \cap DohIds = {} /\ DotIds \cap DohIds = {}
    /\ Presets \subseteq Ids /\ None \notin Ids /\ None \notin Configs
    /\ \A c \in SUBSET Domains : c # None
    /\ PresetEntries \in Contents

ASSUME BoundsAssumption ==
    SlotLimit \in Nat /\ MaxOps \in Nat /\ MaxFaults \in Nat

VARIABLES
    native,    \* the router's running configuration
    startup,   \* the configuration the router boots from
    disabled,  \* the module's metadata file of disabled resolvers
    op,        \* the operation holding mu, or the last one
    touched,   \* history: protocols the router's interface changed since it began
    early,     \* history: what it last gave a resolver before the snapshot was taken
    ops, faults

bounds == <<ops, faults>>
history == <<touched, early>>
vars == <<native, startup, disabled, op, touched, early, ops, faults>>

Untouched == touched' = {} /\ early' = [id \in Ids |-> None]

ProtocolOf(id) == IF id \in PlainIds THEN "DNS" ELSE IF id \in DotIds THEN "DoT" ELSE "DoH"
Section(p)     == {id \in Ids : ProtocolOf(id) = p}
Sections(P)    == {id \in Ids : ProtocolOf(id) \in P}
Same(P, c, d)  == \A id \in Sections(P) : c[id] = d[id]
Slots(p, c)    == MapThenSumSet(LAMBDA id : Cardinality(c[id]), Section(p))
Entries(c)     == {e \in PlainIds \X Domains : e[2] \in c[e[1]]}

(* loadState: what a load shows when the name-server read is refused, and  *)
(* what it may show.                                                       *)
Hide(c) == [id \in Ids |-> IF id \in PlainIds THEN {} ELSE c[id]]
Loads   == {native, Hide(native)}

Pcs == {"done", "snapshot", "section", "add", "delete", "save", "verify",
        "metadata", "probe", "reload", "settle"}

(* A frame: base is the state the operation read first, before the         *)
(* transaction's own snapshot, start the one that was there, cur the plain *)
(* DNS section the reconciliation starts from, goal the state being        *)
(* written, todo the sections still to write, gone the plain entries still *)
(* to delete, stored and kept the metadata after and before (None: the     *)
(* operation has none), saved the startup configuration when it began,     *)
(* undo: the rollback is under way, skewed: it started from a plain        *)
(* section it did not see, unseen: the last readback that passed did not   *)
(* see the plain section, dropped: the router has accepted a request and   *)
(* ignored it, lost: the metadata could not be put back.                   *)
Blank == [pc |-> "done", id |-> None, start |-> None, base |-> None, before |-> None,
          cur |-> None, desired |-> None, goal |-> None, changed |-> {}, todo |-> {}, gone |-> {},
          stored |-> None, kept |-> None, saved |-> None, undo |-> FALSE, skewed |-> FALSE,
          unseen |-> FALSE, dropped |-> FALSE, lost |-> FALSE, tx |-> "Precheck"]

Init ==
    /\ native \in Configs
    /\ startup = native
    /\ disabled \in Configs /\ \A id \in Ids : native[id] = {} \/ disabled[id] = {}
    /\ op = Blank
    /\ touched = {} /\ early = [id \in Ids |-> None]
    /\ ops = 0 /\ faults = 0

(* The return from applyMutation.  Enable and Disable put the metadata     *)
(* back on every error, whatever became of the router's configuration.     *)
Finish(o, tx) ==
    [o EXCEPT !.tx = Advance(@, tx),
              !.cur = None, !.goal = None, !.todo = {}, !.gone = {},
              !.pc = IF o.kept # None /\ tx # "Committed" THEN "settle" ELSE "done"]

(* validateDNSMutationDesired: the slots of the secure protocols. *)
WithinLimits(desired, changed) ==
    \A p \in changed \ {"DNS"} : Slots(p, desired) <= SlotLimit

Begin(id, read, desired, changed, stored) ==
    /\ op.pc = "done" /\ ops < MaxOps
    /\ ops' = ops + 1
    /\ Untouched
    /\ LET o == [Blank EXCEPT !.pc = "snapshot", !.id = id,
                              !.start = native, !.base = read, !.saved = startup,
                              !.desired = desired, !.changed = changed,
                              !.stored = stored,
                              !.kept = IF stored = None THEN None ELSE disabled]
       IN op' = IF WithinLimits(desired, changed) THEN o ELSE Finish(o, "Failed")
    /\ UNCHANGED <<native, startup, disabled, faults>>

(* Update and Delete of a disabled resolver only rewrite the metadata. *)
Rewrite(id, store) ==
    /\ op.pc = "done" /\ ops < MaxOps
    /\ ops' = ops + 1
    /\ Untouched
    /\ disabled' \in {disabled, store}
    /\ op' = [Blank EXCEPT !.id = id]
    /\ UNCHANGED <<native, startup, faults>>

(* The requests, each from what its first load shows. *)
Create(id, c, read) ==
    /\ read[id] = {} /\ disabled[id] = {}
    /\ Begin(id, read, [read EXCEPT ![id] = c], {ProtocolOf(id)}, None)

(* The new specification may have another id, even another protocol. *)
Update(id, new, c, read) ==
    /\ id \notin Presets
    /\ new # id => read[new] = {} /\ disabled[new] = {}
    /\ IF disabled[id] # {}
       THEN Rewrite(id, [disabled EXCEPT ![id] = {}, ![new] = c])
       ELSE /\ read[id] # {}
            /\ Begin(id, read, [read EXCEPT ![id] = {}, ![new] = c],
                     {ProtocolOf(id), ProtocolOf(new)}, None)

Delete(id, read) ==
    /\ id \notin Presets
    /\ IF disabled[id] # {}
       THEN Rewrite(id, [disabled EXCEPT ![id] = {}])
       ELSE /\ read[id] # {}
            /\ Begin(id, read, [read EXCEPT ![id] = {}], {ProtocolOf(id)}, None)

(* A built-in resolver is only removed: it can be enabled again without    *)
(* metadata.                                                               *)
Disable(id, read) ==
    /\ read[id] # {}
    /\ LET without == [read EXCEPT ![id] = {}] IN
       IF id \in Presets
       THEN Begin(id, read, without, {ProtocolOf(id)}, None)
       ELSE /\ disabled[id] = {}
            /\ Begin(id, read, without, {ProtocolOf(id)},
                     [disabled EXCEPT ![id] = read[id]])

Enable(id, read) ==
    /\ read[id] = {}
    /\ IF disabled[id] = {}
       THEN /\ id \in Presets
            /\ Begin(id, read, [read EXCEPT ![id] = PresetEntries],
                     {ProtocolOf(id)}, None)
       ELSE Begin(id, read, [read EXCEPT ![id] = disabled[id]], {ProtocolOf(id)},
                  [disabled EXCEPT ![id] = {}])

---------------------------------------------------------------------------
(* applyMutation.                                                          *)

(* The next section, in the order of the code, or the save. *)
Current(todo) == CHOOSE p \in todo : \/ p = "DoT"
                                     \/ p = "DoH" /\ "DoT" \notin todo
                                     \/ todo = {"DNS"}
Route(o) ==
    IF o.todo = {} THEN [o EXCEPT !.pc = "save"]
    ELSE IF o.todo # {"DNS"} THEN [o EXCEPT !.pc = "section"]
    ELSE [o EXCEPT !.pc = "delete", !.gone = Entries(o.cur) \ Entries(o.goal)]
Written(o) == Route([o EXCEPT !.todo = @ \ {Current(@)}])

(* Mutant: the baseline is not compared. *)
SnapshotUnchecked ==
    /\ op.pc = "snapshot"
    /\ op' = Route([op EXCEPT !.tx = "Applied", !.before = native, !.cur = native,
                              !.goal = op.desired, !.todo = op.changed])
    /\ UNCHANGED <<native, startup, disabled, history, bounds>>

(* The second load, and the comparison of every changed section with the   *)
(* one the operation started from.  It may also fail, or find that the     *)
(* firmware does not show the plain section.                               *)
Snapshot ==
    /\ op.pc = "snapshot"
    /\ \/ op' = Finish(op, "Failed")
       \/ op' = IF Same(op.changed, op.base, native)
                THEN Route([op EXCEPT
                            !.tx = Advance(Advance(Advance(@, "Snapshot"), "Validated"), "Applied"),
                            !.before = native, !.cur = native, !.goal = op.desired,
                            !.todo = op.changed])
                ELSE Finish([op EXCEPT !.tx = Advance(@, "Snapshot")], "Failed")
    /\ UNCHANGED <<native, startup, disabled, history, bounds>>

(* Mutant: an error while a section is written does not stop the save. *)
FailLate(o) ==
    IF o.undo THEN Finish(o, "Ambiguous")
    ELSE IF o.pc = "add" THEN [o EXCEPT !.pc = "save"]
    ELSE [o EXCEPT !.undo = TRUE, !.goal = o.before, !.todo = o.changed, !.gone = {},
                   !.pc = IF "DNS" \in o.changed THEN "reload" ELSE "section"]

(* Mutant: a rollback that fails is tried again. *)
FailAgain(o) ==
    [o EXCEPT !.undo = TRUE, !.goal = o.before, !.todo = o.changed, !.gone = {},
              !.pc = IF "DNS" \in o.changed THEN "reload" ELSE "section"]

(* A step fails: the rollback begins, under the same context, or is itself *)
(* over.                                                                   *)
Fail(o) ==
    IF o.undo THEN Finish(o, "Ambiguous")
    ELSE [o EXCEPT !.undo = TRUE, !.goal = o.before, !.todo = o.changed, !.gone = {},
                   !.pc = IF "DNS" \in o.changed THEN "reload" ELSE "section"]

(* One request to the router that would give configuration c.  It is done  *)
(* or not, and answered or not: firmware accepts and drops what it does    *)
(* not understand, an answer is lost, a client that goes away makes every  *)
(* later request of the operation fail, those of the rollback included.    *)
Call(c, next) ==
    /\ \/ native' = c /\ op' \in {next, Fail(op)} /\ UNCHANGED faults
       \/ native' = native /\ op' = Fail(op) /\ UNCHANGED faults
       \/ /\ faults < MaxFaults
          /\ faults' = faults + 1
          /\ native' = native
          /\ op' = [next EXCEPT !.dropped = TRUE]
    /\ UNCHANGED <<startup, disabled, history, ops>>

(* replaceProtocol clears a secure section, then adds its entries. *)
ClearSection ==
    /\ op.pc = "section"
    /\ LET S == Section(Current(op.todo)) IN
       Call([id \in Ids |-> IF id \in S THEN {} ELSE native[id]],
            IF \A id \in S : op.goal[id] = {} THEN Written(op)
            ELSE [op EXCEPT !.pc = "add"])

AddEntries ==
    /\ op.pc = "add"
    /\ LET S == Section(Current(op.todo)) IN
       Call([id \in Ids |-> IF id \in S THEN native[id] \cup op.goal[id] ELSE native[id]],
            Written(op))

(* reconcilePlainDNS deletes the entries that are not wanted one by one,   *)
(* then adds the missing ones together.                                    *)
DeletePlain ==
    /\ op.pc = "delete"
    /\ \E e \in op.gone :
        Call([native EXCEPT ![e[1]] = @ \ {e[2]}], [op EXCEPT !.gone = @ \ {e}])

PostPlain ==
    /\ op.pc = "delete" /\ op.gone = {}
    /\ LET added == Entries(op.goal) \ Entries(op.cur) IN
       IF added = {}
       THEN op' = Written(op) /\ UNCHANGED <<native, startup, disabled, history, bounds>>
       ELSE Call([id \in Ids |-> native[id] \cup {d \in Domains : <<id, d>> \in added}],
                 Written(op))

Save ==
    /\ op.pc = "save"
    /\ \/ startup' = native /\ op' \in {[op EXCEPT !.pc = "verify"], Fail(op)}
       \/ startup' = startup /\ op' = Fail(op)
    /\ UNCHANGED <<native, disabled, history, bounds>>

(* Mutant: the readback of a rollback is not compared. *)
VerifyTrusting ==
    /\ op.pc = "verify"
    /\ op' = IF op.undo THEN Finish(op, "RolledBack")
             ELSE IF Same(op.changed, op.goal, native)
             THEN [op EXCEPT !.pc = IF op.stored # None THEN "metadata" ELSE "probe"]
             ELSE Fail(op)
    /\ UNCHANGED <<native, startup, disabled, history, bounds>>

(* verifyProtocols: the readback must be exactly what was wanted, an       *)
(* unreadable plain section taken for an empty one.                        *)
Verify ==
    /\ op.pc = "verify"
    /\ \/ op' = Fail(op)
       \/ \E load \in Loads :
            /\ Same(op.changed, op.goal, load)
            /\ LET o == [op EXCEPT !.unseen = ~Same(op.changed, load, native)] IN
               op' = IF op.undo THEN Finish(o, "RolledBack")
                     ELSE [o EXCEPT !.pc = IF op.stored # None THEN "metadata" ELSE "probe"]
    /\ UNCHANGED <<native, startup, disabled, history, bounds>>

(* The metadata is replaced by a rename; an error can follow the rename. *)
WriteMetadata ==
    /\ op.pc = "metadata"
    /\ \/ disabled' = op.stored /\ op' \in {[op EXCEPT !.pc = "probe"], Fail(op)}
       \/ disabled' = disabled /\ op' = Fail(op)
    /\ UNCHANGED <<native, startup, history, bounds>>

(* The health check of the module's own socket. *)
RuntimeProbe ==
    /\ op.pc = "probe"
    /\ \/ op' = Fail(op)
       \/ op' = Finish([op EXCEPT !.tx = Advance(@, "Verified")], "Committed")
    /\ UNCHANGED <<native, startup, disabled, history, bounds>>

(* A rollback of the plain section starts from what a load shows now. *)
Reload ==
    /\ op.pc = "reload"
    /\ \/ op' = Fail(op)
       \/ \E load \in Loads : op' = Route([op EXCEPT !.cur = load, !.skewed = load # native])
    /\ UNCHANGED <<native, startup, disabled, history, bounds>>

(* Mutant: Enable and Disable return without putting the metadata back. *)
SettleNothing ==
    /\ op.pc = "settle"
    /\ op' = [op EXCEPT !.pc = "done"]
    /\ UNCHANGED <<native, startup, disabled, history, bounds>>

(* Enable and Disable after an error: the outcome of the write is ignored. *)
Settle ==
    /\ op.pc = "settle"
    /\ \/ disabled' = op.kept /\ op' = [op EXCEPT !.pc = "done"]
       \/ disabled' = disabled /\ op' = [op EXCEPT !.pc = "done", !.lost = TRUE]
    /\ UNCHANGED <<native, startup, history, bounds>>

---------------------------------------------------------------------------
(* The environment.                                                        *)

(* The router's own interface replaces the entries of a resolver, and may  *)
(* save the whole configuration.                                           *)
External(id, c) ==
    /\ faults < MaxFaults
    /\ c # native[id]
    /\ faults' = faults + 1
    /\ native' = [native EXCEPT ![id] = c]
    /\ startup' \in {startup, native'}
    /\ touched' = touched \cup {ProtocolOf(id)}
    /\ early' = [early EXCEPT ![id] = IF op.pc = "snapshot" THEN c ELSE None]
    /\ UNCHANGED <<disabled, op, ops>>

(* The daemon is killed, alone or with the router. *)
Crash ==
    /\ faults < MaxFaults
    /\ faults' = faults + 1
    /\ native' \in {native, startup}
    /\ op' = Blank
    /\ Untouched
    /\ UNCHANGED <<startup, disabled, ops>>

OpStep ==
    \/ Snapshot \/ ClearSection \/ AddEntries \/ DeletePlain \/ PostPlain \/ Save
    \/ Verify \/ WriteMetadata \/ RuntimeProbe \/ Reload \/ Settle

Request ==
    \E id \in Ids, read \in Loads :
        \/ \E c \in Contents : Create(id, c, read) \/ \E new \in Ids : Update(id, new, c, read)
        \/ Delete(id, read) \/ Disable(id, read) \/ Enable(id, read)

Next ==
    \/ Request
    \/ OpStep
    \/ \E id \in Ids, c \in SUBSET Domains : External(id, c)
    \/ Crash

Spec == Init /\ [][Next]_vars

(* Every request to the router and to the module's socket has a timeout.   *)
FairSpec == Spec /\ WF_vars(OpStep)

---------------------------------------------------------------------------
(* Properties.                                                             *)

Frames ==
    [pc : Pcs, id : Ids \cup {None}, start : Configs \cup {None}, base : Configs \cup {None},
     before : Configs \cup {None},
     cur : Configs \cup {None}, desired : Configs \cup {None}, goal : Configs \cup {None},
     changed : SUBSET Protocols, todo : SUBSET Protocols, gone : SUBSET (PlainIds \X Domains),
     stored : Configs \cup {None}, kept : Configs \cup {None}, saved : Configs \cup {None},
     lost : BOOLEAN, undo : BOOLEAN, skewed : BOOLEAN, unseen : BOOLEAN, dropped : BOOLEAN, tx : TxStates]

TypeOK ==
    /\ native \in Configs /\ startup \in Configs /\ disabled \in Configs
    /\ op \in Frames
    /\ touched \subseteq Protocols
    /\ early \in [Ids -> (SUBSET Domains) \cup {None}]
    /\ ops \in 0..MaxOps /\ faults \in 0..MaxFaults

(* The sections of the operation nobody else has changed meanwhile, and    *)
(* those of them the readback has seen.                                    *)
Own  == op.changed \ touched
Seen == IF op.unseen THEN Own \ {"DNS"} ELSE Own

NoPlain(c) == \A id \in PlainIds : c[id] = {}

(* What the returned transaction says is what happened, whatever calls     *)
(* failed or lost their answer and whenever the client left.  Committed:   *)
(* the operation's sections and metadata are the wanted ones, in the       *)
(* running and in the startup configuration.  RolledBack: the sections are *)
(* as they were.  Failed: nothing was changed, and no change the router's  *)
(* interface made since the operation began was overwritten.  A plain      *)
(* section that the readback did not see is the exception, and only if it  *)
(* was to be empty: then leftovers of it pass for none.                    *)
OutcomeTruthful ==
    op.pc = "done" =>
    /\ op.tx = "Committed" =>
          /\ Same(Seen, op.desired, native)
          /\ touched = {} => Same(Seen, op.desired, startup)
          /\ op.stored # None => disabled = op.stored
          /\ op.unseen => NoPlain(op.desired)
    /\ op.tx = "RolledBack" =>
          /\ Same(Seen, op.before, native)
          /\ op.unseen => NoPlain(op.before)
    /\ op.tx = "Failed" =>
          /\ Same(Own, op.start, native)
          /\ touched = {} => startup = op.saved

(* A change the router's interface made before the transaction took its    *)
(* snapshot survives the operation: in another section because that is not *)
(* written, in the same one because the operation is refused.  A change    *)
(* taken back before the snapshot is none.                                 *)
ForeignKept ==
    \A id \in Ids : early[id] # None /\ early[id] # op.base[id] => native[id] = early[id]

(* Enabling or disabling a resolver never loses an entry of it and never   *)
(* makes one up: unless the transaction is reported ambiguous, the         *)
(* router's interface interfered or the metadata could not be put back,    *)
(* the router's configuration and the metadata hold between them what they *)
(* held when the operation began.  If only one of them held the resolver,  *)
(* only one of them does, unless the readback did not see its section.     *)
EntriesKept ==
    /\ op.pc = "done" /\ op.kept # None /\ ~op.lost
    /\ op.tx # "Ambiguous"
    /\ touched = {}
    => /\ native[op.id] \cup disabled[op.id] = op.start[op.id] \cup op.kept[op.id]
       /\ ~op.unseen /\ (op.start[op.id] = {} \/ op.kept[op.id] = {}) =>
            native[op.id] = {} \/ disabled[op.id] = {}

(* The router never boots into a half-written section: at every moment of  *)
(* an operation the startup configuration holds its sections as they were  *)
(* saved before, as they were, or as they are wanted, though the running   *)
(* one is cleared and filled entry by entry.  Two exceptions.  A request   *)
(* that the firmware accepts and drops: the configuration is saved before  *)
(* it is read back.  And a rollback that did not see the plain section: it *)
(* deletes nothing there, so that what it saves may hold too much, but     *)
(* never too little.                                                       *)
SavedIsWhole ==
    op.changed # {} /\ touched = {} /\ ~op.dropped =>
    \E c \in {op.saved, op.base, op.desired} :
        /\ Same(op.changed \ {"DNS"}, startup, c)
        /\ \/ Same(op.changed, startup, c)
           \/ op.skewed /\ \A id \in PlainIds : op.base[id] \subseteq startup[id]

(* The inductive invariant: the frame, then what each phase knows.         *)

Writing == {"section", "add", "delete", "save", "verify", "metadata", "probe", "reload"}

(* Enable and Disable move the entries of the resolver between the         *)
(* router's configuration and the metadata.                                *)
Moves(o) ==
    /\ o.id \in Ids /\ ProtocolOf(o.id) \in o.changed
    /\ \/ o.base[o.id] = {} /\ o.desired[o.id] = o.kept[o.id] /\ o.stored[o.id] = {}
       \/ o.kept[o.id] = {} /\ o.desired[o.id] = {} /\ o.stored[o.id] = o.base[o.id]

(* How the fields of the frame agree with its program counter. *)
Coherent(o) ==
    /\ o.pc # "done" => o.changed # {}
    /\ IF o.changed = {} THEN o.tx = "Precheck" /\ o.kept = None
       ELSE /\ o.base \in Configs /\ o.desired \in Configs /\ o.saved \in Configs
            /\ o.start \in Configs
    /\ o.kept # None => o.kept \in Configs /\ o.stored \in Configs /\ Moves(o)
    /\ o.pc = "snapshot" => o.tx = "Precheck" /\ ~o.undo
    /\ o.pc \in Writing \/ o.tx = "RolledBack" =>
        o.before \in Configs /\ Same(o.changed, o.base, o.before)
    /\ o.pc \in Writing =>
        /\ o.tx = "Applied"
        /\ o.goal = IF o.undo THEN o.before ELSE o.desired
        /\ o.todo \subseteq o.changed
    /\ o.pc \in {"section", "add"} => o.todo \notin {{}, {"DNS"}}
    /\ o.pc = "delete" => o.todo = {"DNS"}
    /\ o.pc \in {"section", "add", "delete"} /\ "DNS" \in o.todo => o.cur \in Configs
    /\ o.pc = "save" => o.todo = {}
    /\ o.skewed => o.undo /\ "DNS" \in o.changed
    /\ o.skewed /\ o.pc \in {"section", "add", "delete"} => NoPlain(o.cur)
    /\ o.pc = "reload" => ~o.skewed /\ o.undo /\ "DNS" \in o.changed /\ o.todo = o.changed
    /\ o.pc \in {"metadata", "probe"} => ~o.undo
    /\ o.pc = "metadata" => o.stored # None
    /\ o.pc = "settle" => o.kept # None /\ o.tx # "Committed"
    /\ o.pc \in {"done", "settle"} /\ o.changed # {} => o.tx \in TxTerminal

(* Until the snapshot nothing is written. *)
SnapshotFacts ==
    op.pc = "snapshot" =>
        /\ \A id \in Ids : ProtocolOf(id) \notin touched => native[id] = op.start[id]
        /\ touched = {} => startup = op.saved

NothingElse(c) ==
    \A id \in Sections(op.changed) : c[id] \subseteq op.base[id] \cup op.desired[id]

(* Past the snapshot the sections were as the operation first read them,   *)
(* and hold nothing but what they held and what is wanted.                 *)
StartFacts ==
    op.pc \in Writing \/ op.tx \in {"Committed", "RolledBack"} =>
        /\ Same(Own, op.base, op.start)
        /\ touched = {} => NothingElse(native)

(* Foreign changes that came before the snapshot are in sections the       *)
(* operation does not write, or were taken back.                           *)
EarlyFacts ==
    \A id \in Ids : early[id] # None =>
        /\ op.changed # {}
        /\ op.pc = "snapshot" => native[id] = early[id]
        /\ op.pc \in Writing /\ ProtocolOf(id) \in op.changed => early[id] = op.base[id]

(* How far the sections are written, when nobody interferes. *)
Reconciling(id, d) ==
    d \in native[id] <=> (d \in op.goal[id] /\ d \in op.cur[id]) \/ <<id, d>> \in op.gone

(* The sections P of c are as wanted, or the plain one is at least that. *)
Reached(P, c) ==
    /\ Same(P \ {"DNS"}, op.goal, c)
    /\ "DNS" \in P => IF op.skewed THEN \A id \in PlainIds : op.goal[id] \subseteq c[id]
                      ELSE Same({"DNS"}, op.goal, c)

WriteFacts ==
    touched = {} /\ ~op.dropped =>
        /\ op.pc \in {"section", "add", "delete", "save"} => Reached(op.changed \ op.todo, native)
        /\ op.pc \in {"section", "add"} /\ "DNS" \in op.todo /\ ~op.skewed =>
            Same({"DNS"}, op.cur, native)
        /\ op.pc = "add" => \A id \in Section(Current(op.todo)) : native[id] = {}
        /\ op.pc = "delete" /\ ~op.skewed =>
            /\ op.gone \subseteq Entries(op.cur) \ Entries(op.goal)
            /\ \A id \in PlainIds, d \in Domains : Reconciling(id, d)

(* What was saved and read back stays, as long as nobody interferes. *)
ReadbackFacts ==
    /\ op.pc = "verify" /\ touched = {} => startup = native
    /\ op.pc \in {"metadata", "probe"} =>
        /\ Same(Seen, op.desired, native)
        /\ touched = {} => Same(Seen, op.desired, startup)
        /\ op.unseen => NoPlain(op.desired)
    /\ op.pc = "probe" /\ op.stored # None => disabled = op.stored

OutcomeFacts ==
    op.pc \in {"done", "settle"} =>
        /\ op.tx = "Committed" =>
            /\ Same(Seen, op.desired, native)
            /\ touched = {} => Same(Seen, op.desired, startup)
            /\ op.stored # None => disabled = op.stored
            /\ op.unseen => NoPlain(op.desired)
        /\ op.tx = "RolledBack" =>
            /\ Same(Seen, op.before, native)
            /\ op.unseen => NoPlain(op.before)
        /\ op.tx = "Failed" => Same(Own, op.start, native) /\ (touched = {} => startup = op.saved)

SettledFacts ==
    op.pc = "done" /\ op.kept # None /\ ~op.lost /\ op.tx # "Committed" => disabled = op.kept

DnsInv ==
    /\ TypeOK /\ Coherent(op)
    /\ SnapshotFacts /\ StartFacts /\ EarlyFacts /\ WriteFacts /\ ReadbackFacts /\ OutcomeFacts /\ SettledFacts
    /\ ForeignKept /\ SavedIsWhole

(* An operation returns and releases the mutex, whatever fails. *)
OpsReturn == op.pc # "done" ~> op.pc = "done"
====
