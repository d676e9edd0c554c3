---- MODULE Telemetry ----
(***************************************************************************)
(* Installation accounting: the telemetry manager of Core                  *)
(* (internal/telemetry/telemetry.go), its settings handler                 *)
(* (components/core/telemetry_api.go), the collector that receives the     *)
(* events (services/telemetry-collector/collector.py) and the network      *)
(* between them.                                                           *)
(*                                                                         *)
(* The manager keeps one record in memory and in a state file: who the     *)
(* installation is, whether the collector knows it, and the identifiers of *)
(* the events it still has to deliver.  An event is chosen under the       *)
(* mutex, sent without it, and its outcome applied under it again, so the  *)
(* settings handler, a write error, a restart of Core or a request that    *)
(* reaches the collector after the client gave up fall in between.         *)
(*                                                                         *)
(* Identifiers are numbers handed out by a counter (randID never repeats); *)
(* 0 stands for the empty identifier and the zero time.  lastDiagnostic is *)
(* also 0 for a record written by schema 1.  What an event reports besides *)
(* its identifiers is left out, and so is lastError, which is only shown.  *)
(***************************************************************************)
EXTENDS Naturals, FiniteSets

CONSTANTS
    MaxRounds,      \* the requests of one Tick (three in the code)
    MaxDays,        \* bound on the clock, in periods of DailyPeriod
    MaxChanges,     \* bound on the changes of the diagnostics setting
    MaxFaults,      \* bound on failed writes, connections and answers
    MaxRestarts     \* bound on the restarts of Core

ASSUME TelemetryAssumption ==
    /\ MaxRounds \in Nat \ {0}
    /\ MaxDays \in Nat \ {0}
    /\ {MaxChanges, MaxFaults, MaxRestarts} \subseteq Nat

VARIABLES
    disk,       \* telemetry-state.json
    config,     \* telemetry.json: absent, on, off, or not readable
    mem,        \* Manager.state
    loaded,     \* Manager.loaded
    booted,     \* Run has taken its first Status and waits for the timer
    rounds,     \* the requests the current Tick may still make; 0: no Tick runs
    send,       \* the event between nextLocked and its outcome
    answering,  \* a settings request has changed the setting, Status follows
    net,        \* requests on their way, abandoned ones included
    installs,   \* the collector's installations
    events,     \* the collector's event identifiers
    day,        \* the router's clock
    ids,        \* identifiers handed out so far
    changes, faults, restarts,
    settled,    \* history: identifiers acknowledged, or dropped by an opt-out
    unsaved     \* history: identifiers whose write to the state file failed

router == <<disk, config, mem, loaded, booted, rounds, send, answering>>
collector == <<installs, events>>
history == <<settled, unsaved>>
vars == <<router, net, collector, day, ids, changes, faults, restarts, history>>

NoState == [id |-> 0, registered |-> FALSE, register |-> 0, presence |-> 0,
            diagnostic |-> 0, lastPresence |-> 0, lastDiagnostic |-> 0]

NoEvent == [kind |-> "none", id |-> 0, installation |-> 0]

Idle == [event |-> NoEvent, stage |-> "idle", cancelled |-> FALSE]

Init ==
    /\ disk = NoState /\ mem = NoState /\ loaded = FALSE
    /\ config \in {"absent", "bad"}
    /\ booted = FALSE /\ rounds = 0 /\ send = Idle /\ answering = FALSE
    /\ net = {} /\ installs = {} /\ events = {}
    /\ day = 1 /\ ids = 0 /\ changes = 0 /\ faults = 0 /\ restarts = 0
    /\ settled = {} /\ unsaved = {}

-----------------------------------------------------------------------------
(* The state file and the settings. *)

Fault == faults < MaxFaults /\ faults' = faults + 1

\* persist(statePath, s): the temporary file replaces the old one, or nothing
\* changes.
Persist(s, ok) ==
    IF ok THEN disk' = s /\ UNCHANGED faults ELSE Fault /\ UNCHANGED disk

\* A file that cannot be read or has no setting counts as off.
DiagnosticsEnabled == config \in {"absent", "on"}

\* initLocked draws an identity only when the state file does not exist.
Missing == ~loaded /\ disk = NoState

Identity ==
    IF loaded THEN mem
    ELSE IF Missing
    THEN [NoState EXCEPT !.id = ids + 1, !.register = ids + 2]
    ELSE disk

-----------------------------------------------------------------------------
(* Tick *)

Elapsed(last) == last = 0 \/ day > last

Due(s) ==
    IF ~s.registered THEN "register"
    ELSE IF Elapsed(s.lastPresence) THEN "presence"
    ELSE IF DiagnosticsEnabled /\ Elapsed(s.lastDiagnostic) THEN "diagnostic"
    ELSE "none"

\* The record with an identifier for an event of kind k; a pending identifier
\* is used again.
WithId(s, k) ==
    IF k \in {"presence", "diagnostic"} /\ s[k] = 0
    THEN [s EXCEPT ![k] = ids + 1] ELSE s

Tick ==
    /\ booted /\ rounds = 0
    /\ rounds' = MaxRounds
    /\ UNCHANGED <<disk, config, mem, loaded, booted, send, answering, net,
                   collector, day, ids, changes, faults, restarts, history>>

\* Mutant of Written: a new event identifier is kept in memory only.
WrittenLater(s, ok) == IF Missing THEN Persist(s, ok) ELSE ok /\ UNCHANGED <<disk, faults>>

\* What Pick does with the state file: an identity or an event identifier that
\* is new is written before it is used.
Written(s, ok) == Persist(s, ok)

\* nextLocked, and the bookkeeping of Tick before the mutex is released.
Pick ==
    /\ rounds > 0 /\ send = Idle
    /\ \E ok \in BOOLEAN :
         LET s == Identity
             k == Due(s)
             t == WithId(s, k)
             new == Missing \/ t # s
         IN /\ mem' = t
            /\ IF new THEN Written(t, ok) ELSE ok /\ UNCHANGED <<disk, faults>>
            /\ loaded' = (ok \/ ~Missing)
            /\ ids' = ids + (IF Missing THEN 2 ELSE IF new THEN 1 ELSE 0)
            /\ unsaved' = IF ok THEN unsaved ELSE unsaved \cup (ids + 1)..ids'
            /\ IF ok /\ k # "none"
               THEN /\ send' = [event |-> [kind |-> k, id |-> t[k],
                                           installation |-> t.id],
                                stage |-> "picked", cancelled |-> FALSE]
                    /\ UNCHANGED rounds
               ELSE rounds' = 0 /\ UNCHANGED send
    /\ UNCHANGED <<config, booted, answering, net, collector, day, changes,
                   restarts, settled>>

Stage(s) == send' = [send EXCEPT !.stage = s]

Remote == UNCHANGED <<disk, config, mem, loaded, booted, rounds, answering, day,
                      ids, changes, restarts, history>>

\* httpClient.Do: a context that is cancelled already sends nothing.
Transmit ==
    /\ send.stage = "picked"
    /\ IF send.cancelled
       THEN Stage("failed") /\ UNCHANGED net
       ELSE Stage("sent") /\ net' = net \cup {send.event}
    /\ Remote /\ UNCHANGED <<collector, faults>>

\* No connection, an answer that is lost or late, or a cancelled request: the
\* client gives up, and a request under way may still arrive.
GiveUp ==
    /\ send.stage \in {"picked", "sent"}
    /\ IF send.cancelled THEN UNCHANGED faults ELSE Fault
    /\ Stage("failed")
    /\ Remote /\ UNCHANGED <<net, collector>>

\* Mutant of Receive: an identifier seen before is refused.
ReceiveOnce(e) ==
    /\ net' = net \ {e}
    /\ LET accepted == e.id \notin events
                        /\ (e.kind = "register" \/ e.installation \in installs)
       IN /\ IF accepted
             THEN /\ events' = events \cup {e.id}
                  /\ installs' = installs \cup {e.installation}
             ELSE UNCHANGED collector
          /\ IF send.stage = "sent" /\ send.event = e
             THEN Stage(IF accepted THEN "acked" ELSE "failed")
             ELSE UNCHANGED send
    /\ Remote /\ UNCHANGED faults

\* Store.receive and do_POST: an identifier seen before is accepted again and
\* changes nothing; only a registration adds an installation.
Receive(e) ==
    /\ net' = net \ {e}
    /\ LET known == e.id \in events
           accepted == known \/ e.kind = "register" \/ e.installation \in installs
       IN /\ IF accepted /\ ~known
             THEN /\ events' = events \cup {e.id}
                  /\ installs' = installs \cup {e.installation}
             ELSE UNCHANGED collector
          /\ IF send.stage = "sent" /\ send.event = e
             THEN Stage(IF accepted THEN "acked" ELSE "failed")
             ELSE UNCHANGED send
    /\ Remote /\ UNCHANGED faults

\* The switch on the kind of an acknowledged event.
Acknowledged(s, k) ==
    CASE k = "register" ->
            [s EXCEPT !.registered = TRUE, !.register = 0, !.lastPresence = day]
      [] k = "presence" -> [s EXCEPT !.presence = 0, !.lastPresence = day]
      [] k = "diagnostic" -> [s EXCEPT !.diagnostic = 0, !.lastDiagnostic = day]

\* The second half of a round of Tick, under the mutex.
Conclude ==
    /\ send.stage \in {"acked", "failed"}
    /\ send' = Idle
    /\ IF send.stage = "failed"
       THEN rounds' = 0 /\ UNCHANGED <<disk, mem, faults, settled>>
       ELSE \E ok \in BOOLEAN :
              /\ mem' = Acknowledged(mem, send.event.kind)
              /\ Persist(mem', ok)
              /\ rounds' = IF ok THEN rounds - 1 ELSE 0
              /\ settled' = settled \cup {send.event.id}
    /\ UNCHANGED <<config, loaded, booted, answering, net, collector, day, ids,
                   changes, restarts, unsaved>>

-----------------------------------------------------------------------------
(* Status and the setting *)

\* Mutant of Identify: loaded is set before the identity is written.
IdentifyEager ==
    /\ IF loaded
       THEN UNCHANGED <<disk, mem, loaded, ids, faults, unsaved>>
       ELSE \E ok \in BOOLEAN :
              /\ mem' = Identity
              /\ IF Missing
                 THEN Persist(mem', ok) ELSE ok /\ UNCHANGED <<disk, faults>>
              /\ loaded' = TRUE
              /\ ids' = IF Missing THEN ids + 2 ELSE ids
              /\ unsaved' = IF ok THEN unsaved ELSE unsaved \cup {ids + 1, ids + 2}
    /\ UNCHANGED <<config, rounds, send, net, collector, day, changes, restarts,
                   settled>>

\* initLocked outside Tick: what Status does to the state.
Identify ==
    /\ IF loaded
       THEN UNCHANGED <<disk, mem, loaded, ids, faults, unsaved>>
       ELSE \E ok \in BOOLEAN :
              /\ mem' = Identity
              /\ IF Missing
                 THEN Persist(mem', ok) ELSE ok /\ UNCHANGED <<disk, faults>>
              /\ loaded' = ok
              /\ ids' = IF Missing THEN ids + 2 ELSE ids
              /\ unsaved' = IF ok THEN unsaved ELSE unsaved \cup {ids + 1, ids + 2}
    /\ UNCHANGED <<config, rounds, send, net, collector, day, changes, restarts,
                   settled>>

\* Run persists the identity before its first wait, whatever the outcome.
Start == ~booted /\ booted' = TRUE /\ Identify /\ UNCHANGED answering

\* A GET of the setting, or the end of a POST.
Status == answering' = FALSE /\ Identify /\ UNCHANGED booted

\* Mutant of Cancel: the request in progress is left alone.
CancelNothing == UNCHANGED send

\* sendCancel, when the request in progress is a diagnostic one.
Cancel ==
    send' = IF send.event.kind = "diagnostic"
            THEN [send EXCEPT !.cancelled = TRUE] ELSE send

\* SetDiagnostics: the setting is written first; an opt-out then stops the
\* request in progress and forgets the pending identifier.
SetDiagnostics(enabled) ==
    /\ changes < MaxChanges /\ ~answering
    /\ changes' = changes + 1
    /\ \/ Fault /\ UNCHANGED <<disk, config, mem, send, answering, settled>>
       \/ /\ config' = IF enabled THEN "on" ELSE "off"
          /\ answering' = TRUE
          /\ IF enabled THEN UNCHANGED send ELSE Cancel
          /\ IF ~enabled /\ loaded /\ mem.diagnostic # 0
             THEN /\ mem' = [mem EXCEPT !.diagnostic = 0]
                  /\ settled' = settled \cup {mem.diagnostic}
                  /\ \E ok \in BOOLEAN : Persist(mem', ok)
             ELSE UNCHANGED <<disk, mem, faults, settled>>
    /\ UNCHANGED <<loaded, booted, rounds, net, collector, day, ids, restarts,
                   unsaved>>

-----------------------------------------------------------------------------
(* The surroundings *)

\* Core stops anywhere and starts again; a router without a battery-backed
\* clock may come up with an earlier time.
Restart ==
    /\ restarts < MaxRestarts /\ restarts' = restarts + 1
    /\ mem' = NoState /\ loaded' = FALSE /\ booted' = FALSE
    /\ rounds' = 0 /\ send' = Idle /\ answering' = FALSE
    /\ day' \in 1..day
    /\ UNCHANGED <<disk, config, net, collector, ids, changes, faults, history>>

NextDay ==
    /\ day < MaxDays /\ day' = day + 1
    /\ UNCHANGED <<router, net, collector, ids, changes, faults, restarts, history>>

TickStep == Tick \/ Pick \/ Transmit \/ Conclude

Next ==
    \/ Start
    \/ TickStep
    \/ GiveUp
    \/ \E e \in net : Receive(e)
    \/ Status
    \/ \E enabled \in BOOLEAN : SetDiagnostics(enabled)
    \/ Restart
    \/ NextDay

Spec == Init /\ [][Next]_vars

\* Run's goroutine goes on, its ticker fires again and again, and the collector
\* answers a request the client is still waiting for.
FairSpec ==
    /\ Spec
    /\ WF_vars(Start) /\ WF_vars(TickStep)
    /\ WF_vars(\E e \in net : send.event = e /\ Receive(e))

-----------------------------------------------------------------------------
(* Properties *)

\* Records and requests whose identifiers are at most n.
RecordsTo(n) == [id : 0..n, registered : BOOLEAN, register : 0..n,
                 presence : 0..n, diagnostic : 0..n,
                 lastPresence : 0..MaxDays, lastDiagnostic : 0..MaxDays]

Kinds == {"register", "presence", "diagnostic"}

RequestsTo(n) == [kind : Kinds, id : 1..n, installation : 1..n]

TypeOK ==
    /\ ids \in Nat /\ day \in 1..MaxDays
    /\ disk \in RecordsTo(ids) /\ mem \in RecordsTo(ids)
    /\ config \in {"absent", "bad", "on", "off"}
    /\ loaded \in BOOLEAN
    /\ rounds \in 0..MaxRounds /\ (rounds = 0 => send = Idle)
    /\ \/ send = Idle
       \/ send \in [event : RequestsTo(ids), cancelled : BOOLEAN,
                   stage : {"picked", "sent", "acked", "failed"}]
    /\ net \subseteq RequestsTo(ids)
    /\ events \subseteq 1..ids /\ installs \subseteq 1..ids

\* An installation is one installation for ever: whatever write fails and
\* whenever Core stops, the collector has never heard of another identity than
\* the one in the state file, and a registration the state file calls confirmed
\* is one the collector holds (initLocked marks itself loaded only after the
\* identity is written; Tick records the confirmation only after the answer).
IdentityAgrees ==
    /\ installs \subseteq {disk.id}
    /\ disk.registered => disk.id \in installs

\* A retry is recognised as one: an event the collector has counted and the
\* manager has not settled is still in the state file, so that it is repeated
\* under the same identifier even after a restart.  Excepted is an identifier
\* whose write failed: nextLocked keeps it in memory and sends it in the next
\* Tick without writing it.
RetriesReuseId ==
    events \subseteq settled \cup unsaved
                        \cup {disk.register, disk.presence, disk.diagnostic}

\* While the diagnostics are switched off no diagnostic request is put on the
\* wire, not even the one Tick had already chosen when the setting changed
\* (SetDiagnostics cancels its context).
OptOutHolds ==
    [][\A e \in net' \ net : e.kind = "diagnostic" => DiagnosticsEnabled]_vars

\* Who the installation is: the state file is empty or names an identity; a
\* loaded manager and every request carry it; and what the manager or an answer
\* calls confirmed, the collector holds.
IdentityKept ==
    /\ disk.id = 0 => disk = NoState
    /\ loaded => disk.id # 0 /\ mem.id = disk.id
    /\ send # Idle => loaded /\ send.event.installation = disk.id
    /\ \A e \in net : e.installation = disk.id
    /\ events # {} \/ send.stage = "acked" \/ mem.registered => disk.id \in installs

\* A pending identifier in the state file (d) and in memory (m) differ only where
\* a write failed: the file is behind with a settled one, or lacks a new one.
Lags(d, m) == d \in {0, m} \cup settled /\ m \in {0, d} \cup unsaved

\* An identifier the manager can still account for.
Tracked(id) == id \in settled \cup unsaved
                            \cup {disk.register, disk.presence, disk.diagnostic}

\* What becomes of identifiers: the unconfirmed registration keeps its own, the
\* file lags behind memory only as a failed write leaves it, every request on its
\* way is accounted for, and the one in progress is the pending one of its kind
\* or dropped.
IdsKept ==
    /\ disk.id # 0 => disk.registered \/ disk.register # 0
    /\ loaded => /\ mem.registered \/ mem.register # 0
                 /\ Lags(disk.register, mem.register)
                 /\ Lags(disk.presence, mem.presence)
                 /\ Lags(disk.diagnostic, mem.diagnostic)
    /\ \A e \in net : Tracked(e.id)
    /\ send # Idle =>
        /\ Tracked(send.event.id)
        /\ send.event.kind = "register" => mem.register \in {0, send.event.id}
        /\ send.event.kind = "presence" => mem.presence \in {0, send.event.id}
        /\ send.event.kind = "diagnostic" => mem.diagnostic \in {0, send.event.id}

\* A diagnostic request chosen before an opt-out is cancelled.
OptOutCancels ==
    send.stage = "picked" /\ send.event.kind = "diagnostic" =>
        DiagnosticsEnabled \/ send.cancelled

\* The inductive invariant.
TelemetryInv ==
    /\ TypeOK
    /\ IdentityKept /\ IdentityAgrees
    /\ IdsKept /\ RetriesReuseId
    /\ OptOutCancels

\* However often a request, an answer, a write or Core itself fails, the
\* collector's confirmation finally reaches the manager and stays (the collector
\* accepts an identifier it has seen before).
RegistrationConfirmed == <>[](mem.registered /\ mem.id \in installs)

====
