---- MODULE TelemetryProofs ----
(***************************************************************************)
(* Proofs about the telemetry manager and its collector: one identity for  *)
(* ever, retries under the same identifier, and the opt-out, for every     *)
(* number of rounds, days, changes of the setting, faults and restarts.    *)
(***************************************************************************)
EXTENDS Telemetry, TLAPS

(* The record of a manager that has read nothing. *)
LEMMA NoStateIsRecord == ids \in Nat => NoState \in RecordsTo(ids)
BY TelemetryAssumption DEF NoState, RecordsTo

(* The collector knows nobody, and nothing is on its way. *)
LEMMA InitEstablishesInv == Init => TelemetryInv
<1> SUFFICES ASSUME Init PROVE TelemetryInv
    OBVIOUS
<1> USE TelemetryAssumption DEF Init
<1>1. TypeOK
    <2>1. ids \in Nat /\ day \in 1..MaxDays /\ rounds \in 0..MaxRounds
        OBVIOUS
    <2> QED
        BY <2>1, NoStateIsRecord DEF TypeOK
<1>2. IdentityKept /\ IdentityAgrees
    BY DEF IdentityKept, IdentityAgrees, NoState, Idle
<1>3. IdsKept /\ RetriesReuseId /\ OptOutCancels
    BY DEF IdsKept, RetriesReuseId, OptOutCancels, NoState, Idle
<1> QED
    BY <1>1, <1>2, <1>3 DEF TelemetryInv

(* What is recorded of an acknowledged event. *)
LEMMA AcknowledgedRecord ==
    ASSUME TypeOK, NEW s \in RecordsTo(ids), NEW k \in Kinds, NEW t, t = Acknowledged(s, k)
    PROVE  /\ t \in RecordsTo(ids)
           /\ t.id = s.id /\ (t.registered <=> s.registered \/ k = "register")
           /\ t.register = IF k = "register" THEN 0 ELSE s.register
           /\ t.presence = IF k = "presence" THEN 0 ELSE s.presence
           /\ t.diagnostic = IF k = "diagnostic" THEN 0 ELSE s.diagnostic
<1>0. day \in 0..MaxDays /\ 0 \in 0..ids
    BY TelemetryAssumption DEF TypeOK
<1>1. CASE k = "register"
    <2>1. t = [s EXCEPT !.registered = TRUE, !.register = 0, !.lastPresence = day]
        BY <1>1 DEF Acknowledged
    <2>2. t \in RecordsTo(ids)
        BY <1>0, <2>1 DEF RecordsTo
    <2>3. /\ t.id = s.id /\ (t.registered <=> s.registered \/ k = "register")
          /\ t.register = IF k = "register" THEN 0 ELSE s.register
          /\ t.presence = IF k = "presence" THEN 0 ELSE s.presence
          /\ t.diagnostic = IF k = "diagnostic" THEN 0 ELSE s.diagnostic
        BY <1>1, <2>1 DEF RecordsTo
    <2> QED
        BY <2>2, <2>3
<1>2. CASE k = "presence"
    <2>1. t = [s EXCEPT !.presence = 0, !.lastPresence = day]
        BY <1>2 DEF Acknowledged
    <2>2. t \in RecordsTo(ids)
        BY <1>0, <2>1 DEF RecordsTo
    <2>3. /\ t.id = s.id /\ (t.registered <=> s.registered \/ k = "register")
          /\ t.register = IF k = "register" THEN 0 ELSE s.register
          /\ t.presence = IF k = "presence" THEN 0 ELSE s.presence
          /\ t.diagnostic = IF k = "diagnostic" THEN 0 ELSE s.diagnostic
        BY <1>2, <2>1 DEF RecordsTo
    <2> QED
        BY <2>2, <2>3
<1>3. CASE k = "diagnostic"
    <2>1. t = [s EXCEPT !.diagnostic = 0, !.lastDiagnostic = day]
        BY <1>3 DEF Acknowledged
    <2>2. t \in RecordsTo(ids)
        BY <1>0, <2>1 DEF RecordsTo
    <2>3. /\ t.id = s.id /\ (t.registered <=> s.registered \/ k = "register")
          /\ t.register = IF k = "register" THEN 0 ELSE s.register
          /\ t.presence = IF k = "presence" THEN 0 ELSE s.presence
          /\ t.diagnostic = IF k = "diagnostic" THEN 0 ELSE s.diagnostic
        BY <1>3, <2>1 DEF RecordsTo
    <2> QED
        BY <2>2, <2>3
<1> QED
    BY <1>1, <1>2, <1>3 DEF Kinds

(* The outcome of a request is applied. *)
LEMMA ConcludePreservesInv ==
    ASSUME TelemetryInv, Conclude
    PROVE  TelemetryInv'
<1> USE DEF TelemetryInv
<1>1. CASE send.stage = "failed"
    <2> USE <1>1 DEF Conclude, collector, history
    <2>1. TypeOK'
        BY TelemetryAssumption DEF TypeOK, RecordsTo, RequestsTo
    <2>2. IdentityKept' /\ IdentityAgrees'
        BY DEF IdentityKept, IdentityAgrees, Idle
    <2>3. IdsKept' /\ RetriesReuseId' /\ OptOutCancels'
        BY DEF IdsKept, Lags, Tracked, RetriesReuseId, OptOutCancels, Idle
    <2> QED
        BY <2>1, <2>2, <2>3
<1>2. CASE send.stage = "acked"
    <2> DEFINE k == send.event.kind
               t == Acknowledged(mem, k)
    <2>1. /\ send # Idle /\ k \in Kinds /\ send.event.id \in 1..ids
          /\ loaded /\ disk.id \in installs
        BY <1>2 DEF TypeOK, RequestsTo, Idle, IdentityKept
    <2>2. /\ t \in RecordsTo(ids) /\ t.id = mem.id
          /\ (t.registered <=> mem.registered \/ k = "register")
          /\ t.register = IF k = "register" THEN 0 ELSE mem.register
          /\ t.presence = IF k = "presence" THEN 0 ELSE mem.presence
          /\ t.diagnostic = IF k = "diagnostic" THEN 0 ELSE mem.diagnostic
        BY <2>1, AcknowledgedRecord DEF TypeOK
    <2>3. PICK ok \in BOOLEAN :
            /\ mem' = t /\ Persist(t, ok)
            /\ rounds' = IF ok THEN rounds - 1 ELSE 0
        BY <1>2 DEF Conclude
    <2>4. /\ disk' = IF ok THEN t ELSE disk
          /\ send' = Idle /\ settled' = settled \cup {send.event.id}
          /\ UNCHANGED <<config, loaded, net, installs, events, day, ids, unsaved>>
        BY <1>2, <2>3 DEF Conclude, Persist, collector
    <2> HIDE DEF k, t
    <2>5. TypeOK'
        <3>1. rounds' \in 0..MaxRounds
            BY <2>1, <2>3, TelemetryAssumption DEF TypeOK
        <3> QED
            BY <2>2, <2>3, <2>4, <3>1 DEF TypeOK, RecordsTo, RequestsTo
    <2>6. IdentityKept' /\ IdentityAgrees'
        BY <2>1, <2>2, <2>3, <2>4 DEF TypeOK, RecordsTo, IdentityKept, IdentityAgrees, Idle
    <2>7. IdsKept' /\ RetriesReuseId' /\ OptOutCancels'
        BY <2>1, <2>2, <2>3, <2>4
        DEF k, Kinds, TypeOK, RecordsTo, IdsKept, Lags, Tracked, RetriesReuseId, OptOutCancels, Idle
    <2> QED
        BY <2>5, <2>6, <2>7
<1> QED
    BY <1>1, <1>2 DEF Conclude

(* What initLocked yields: the identity of the state file, or a new one if *)
(* there is no state file - and then nobody has heard of another.          *)
LEMMA IdentityRecord ==
    ASSUME TelemetryInv, NEW s, s = Identity
    PROVE  /\ s.id # 0
           /\ s.registered \/ s.register # 0
           /\ s.registered => disk.id \in installs
           /\ ~Missing => /\ s \in RecordsTo(ids)
                          /\ disk.id # 0 /\ s.id = disk.id
                          /\ Lags(disk.register, s.register)
                          /\ Lags(disk.presence, s.presence)
                          /\ Lags(disk.diagnostic, s.diagnostic)
           /\ Missing => /\ s \in RecordsTo(ids + 2) /\ ~s.registered
                         /\ s.presence = 0 /\ s.diagnostic = 0
                         /\ disk = NoState
                         /\ net = {} /\ events = {} /\ installs = {}
<1> USE DEF TelemetryInv
<1>1. CASE loaded
    BY <1>1 DEF Identity, Missing, TypeOK, IdentityKept, IdsKept
<1>2. CASE ~loaded /\ ~Missing
    <2>1. s = disk /\ disk.id # 0
        BY <1>2 DEF Identity, Missing, IdentityKept
    <2> QED
        BY <1>2, <2>1 DEF TypeOK, IdentityKept, IdentityAgrees, IdsKept, Lags
<1>3. CASE Missing
    <2>1. /\ s = [NoState EXCEPT !.id = ids + 1, !.register = ids + 2]
          /\ disk = NoState /\ disk.id = 0
        BY <1>3 DEF Identity, Missing, NoState
    <2>2. s \in RecordsTo(ids + 2)
        <3>1. {0, ids + 1, ids + 2} \subseteq 0..(ids + 2) /\ 0 \in 0..MaxDays
            BY TelemetryAssumption DEF TypeOK
        <3> QED
            BY <2>1, <3>1 DEF NoState, RecordsTo
    <2>3. /\ s.id # 0 /\ s.register # 0 /\ ~s.registered
          /\ s.presence = 0 /\ s.diagnostic = 0
        BY <2>1 DEF NoState, TypeOK
    <2>4. net = {} /\ events = {} /\ installs = {}
        BY <2>1 DEF TypeOK, RequestsTo, IdentityKept, IdentityAgrees
    <2> QED
        BY <1>3, <2>1, <2>2, <2>3, <2>4
<1> QED
    BY <1>1, <1>2, <1>3

(* The record with an identifier for the next event. *)
LEMMA WithIdRecord ==
    ASSUME TypeOK, NEW s \in RecordsTo(ids), NEW k \in Kinds \cup {"none"},
           NEW t, t = WithId(s, k)
    PROVE  /\ t \in RecordsTo(ids + 1)
           /\ t.id = s.id /\ (t.registered <=> s.registered) /\ t.register = s.register
           /\ t.presence = IF k = "presence" /\ s.presence = 0 THEN ids + 1 ELSE s.presence
           /\ t.diagnostic = IF k = "diagnostic" /\ s.diagnostic = 0
                             THEN ids + 1 ELSE s.diagnostic
<1>0. ids \in Nat /\ s \in RecordsTo(ids + 1)
    BY DEF TypeOK, RecordsTo
<1>1. CASE k = "presence" /\ s.presence = 0
    <2>1. t = [s EXCEPT !.presence = ids + 1]
        BY <1>1 DEF WithId
    <2> QED
        BY <1>0, <1>1, <2>1 DEF RecordsTo
<1>2. CASE k = "diagnostic" /\ s.diagnostic = 0
    <2>1. t = [s EXCEPT !.diagnostic = ids + 1]
        BY <1>2 DEF WithId
    <2> QED
        BY <1>0, <1>2, <2>1 DEF RecordsTo
<1>3. CASE /\ ~(k = "presence" /\ s.presence = 0)
           /\ ~(k = "diagnostic" /\ s.diagnostic = 0)
    <2>1. t = s
        BY <1>3 DEF WithId, Kinds
    <2> QED
        BY <1>0, <1>3, <2>1
<1> QED
    BY <1>1, <1>2, <1>3

(* Identifiers that are handed out leave the older ones as they are. *)
LEMMA MoreIds ==
    ASSUME TypeOK, NEW n \in Nat, n >= ids
    PROVE  RecordsTo(ids) \subseteq RecordsTo(n) /\ RequestsTo(ids) \subseteq RequestsTo(n)
BY DEF TypeOK, RecordsTo, RequestsTo

(* What Due chooses. *)
LEMMA DueKind ==
    ASSUME NEW s, NEW k, k = Due(s)
    PROVE  /\ k \in Kinds \cup {"none"}
           /\ k = "register" <=> ~s.registered
           /\ k = "diagnostic" => DiagnosticsEnabled
BY DEF Due, Kinds

(* An event is chosen, and what is new is written before it is used. *)
LEMMA PickPreservesInv ==
    ASSUME TelemetryInv, Pick
    PROVE  TelemetryInv'
<1> USE DEF TelemetryInv
<1>0. PICK s, k, t : s = Identity /\ k = Due(s) /\ t = WithId(s, k)
    OBVIOUS
<1> DEFINE new == Missing \/ t # s
           picked == [event |-> [kind |-> k, id |-> t[k], installation |-> t.id],
                      stage |-> "picked", cancelled |-> FALSE]
<1>1. PICK ok \in BOOLEAN :
        /\ mem' = t
        /\ IF new THEN Written(t, ok) ELSE ok /\ UNCHANGED <<disk, faults>>
        /\ loaded' = (ok \/ ~Missing)
        /\ ids' = ids + (IF Missing THEN 2 ELSE IF new THEN 1 ELSE 0)
        /\ unsaved' = IF ok THEN unsaved ELSE unsaved \cup (ids + 1)..ids'
        /\ IF ok /\ k # "none"
           THEN send' = picked /\ UNCHANGED rounds
           ELSE rounds' = 0 /\ UNCHANGED send
    BY <1>0 DEF Pick
<1>2. /\ send = Idle /\ rounds > 0
      /\ UNCHANGED <<config, net, installs, events, day, settled>>
    BY DEF Pick, collector
<1>3. disk' = (IF new /\ ok THEN t ELSE disk) /\ (new \/ ok)
    BY <1>1 DEF Written, Persist
<1>4. /\ s.id # 0 /\ (s.registered \/ s.register # 0)
      /\ s.registered => disk.id \in installs
      /\ ~Missing => /\ s \in RecordsTo(ids)
                     /\ disk.id # 0 /\ s.id = disk.id
                     /\ Lags(disk.register, s.register)
                     /\ Lags(disk.presence, s.presence)
                     /\ Lags(disk.diagnostic, s.diagnostic)
      /\ Missing => /\ s \in RecordsTo(ids + 2) /\ ~s.registered
                    /\ s.presence = 0 /\ s.diagnostic = 0
                    /\ disk = NoState
                    /\ net = {} /\ events = {} /\ installs = {}
    BY <1>0, IdentityRecord
<1>5. /\ k \in Kinds \cup {"none"}
      /\ k = "register" <=> ~s.registered
      /\ k = "diagnostic" => DiagnosticsEnabled
    BY <1>0, DueKind
<1>6. Missing => t = s /\ k = "register"
    BY <1>0, <1>4, <1>5 DEF WithId
<1>7. ~Missing =>
        /\ t \in RecordsTo(ids + 1)
        /\ t.id = s.id /\ (t.registered <=> s.registered) /\ t.register = s.register
        /\ t.presence = IF k = "presence" /\ s.presence = 0 THEN ids + 1 ELSE s.presence
        /\ t.diagnostic = IF k = "diagnostic" /\ s.diagnostic = 0
                          THEN ids + 1 ELSE s.diagnostic
    BY <1>0, <1>4, <1>5, WithIdRecord
<1>8. ids \in Nat /\ ids' \in Nat /\ ids' >= ids
    BY <1>1 DEF TypeOK
<1>9. t \in RecordsTo(ids')
    BY <1>1, <1>4, <1>6, <1>7, <1>8
<1>10. k # "none" => t[k] \in 1..ids' /\ t.id \in 1..ids'
    <2>1. k = "register" => t[k] = t.register /\ t.register # 0
        BY <1>4, <1>5, <1>6, <1>7
    <2>2. k = "presence" => t[k] = t.presence /\ t.presence # 0
        BY <1>4, <1>5, <1>6, <1>7, <1>8
    <2>3. k = "diagnostic" => t[k] = t.diagnostic /\ t.diagnostic # 0
        BY <1>4, <1>5, <1>6, <1>7, <1>8
    <2>4. t.id # 0
        BY <1>4, <1>6, <1>7
    <2> QED
        BY <1>5, <1>8, <1>9, <2>1, <2>2, <2>3, <2>4 DEF Kinds, RecordsTo
<1> HIDE DEF new, picked
<1>11. TypeOK'
    <2>1. net' \subseteq RequestsTo(ids') /\ events' \subseteq 1..ids' /\ installs' \subseteq 1..ids'
        BY <1>2, <1>8, MoreIds DEF TypeOK
    <2>2. disk' \in RecordsTo(ids') /\ mem' \in RecordsTo(ids')
        BY <1>1, <1>3, <1>8, <1>9, MoreIds DEF TypeOK
    <2>3. \/ send' = Idle
          \/ send' \in [event : RequestsTo(ids'), cancelled : BOOLEAN,
                       stage : {"picked", "sent", "acked", "failed"}]
        <3>1. CASE ok /\ k # "none"
            <4>1. send' = picked
                BY <1>1, <3>1
            <4>2. [kind |-> k, id |-> t[k], installation |-> t.id] \in RequestsTo(ids')
                BY <1>5, <1>10, <3>1 DEF RequestsTo
            <4> QED
                BY <4>1, <4>2 DEF picked
        <3>2. CASE ~(ok /\ k # "none")
            BY <1>1, <1>2, <3>2
        <3> QED
            BY <3>1, <3>2
    <2>4. rounds' \in 0..MaxRounds /\ (rounds' = 0 => send' = Idle)
        BY <1>1, <1>2, TelemetryAssumption DEF TypeOK
    <2> QED
        BY <1>1, <1>2, <1>8, <2>1, <2>2, <2>3, <2>4 DEF TypeOK
<1>14. OptOutCancels'
    BY <1>1, <1>2, <1>5 DEF picked, OptOutCancels, DiagnosticsEnabled, Idle
<1>12. CASE ~ok
    <2>1. /\ send' = Idle /\ disk' = disk /\ mem' = t /\ (loaded' <=> ~Missing)
          /\ unsaved' = unsaved \cup (ids + 1)..ids'
        BY <1>1, <1>2, <1>3, <1>12
    <2>2. ~Missing => ids' = ids + 1
        BY <1>1, <1>3, <1>12 DEF new
    <2>3. IdentityKept' /\ IdentityAgrees'
        BY <1>2, <1>4, <1>6, <1>7, <2>1 DEF IdentityKept, IdentityAgrees, Idle
    <2>4. loaded' => /\ Lags(disk.register, mem.register)'
                     /\ Lags(disk.presence, mem.presence)'
                     /\ Lags(disk.diagnostic, mem.diagnostic)'
        BY <1>2, <1>4, <1>7, <1>8, <2>1, <2>2 DEF Lags
    <2>5. IdsKept' /\ RetriesReuseId'
        BY <1>2, <1>4, <1>6, <1>7, <2>1, <2>4 DEF IdsKept, Tracked, RetriesReuseId
    <2> QED
        BY <2>3, <2>5, <1>11, <1>14
<1>13. CASE ok
    <2>1. /\ mem' = t /\ loaded' /\ unsaved' = unsaved
          /\ k = "none" => send' = Idle
          /\ k # "none" => send' = picked
        BY <1>1, <1>2, <1>13
    <2>2. t.id # 0 /\ t.id = disk'.id /\ (~Missing => t.id = disk.id)
        BY <1>3, <1>4, <1>6, <1>7, <1>13 DEF new
    <2>3. IdentityKept' /\ IdentityAgrees'
        BY <1>2, <1>3, <1>4, <1>6, <1>7, <1>13, <2>1, <2>2
        DEF new, picked, IdentityKept, IdentityAgrees, Idle, NoState
    <2>4. /\ Lags(disk.register, mem.register)'
          /\ Lags(disk.presence, mem.presence)'
          /\ Lags(disk.diagnostic, mem.diagnostic)'
        BY <1>2, <1>3, <1>4, <1>6, <1>7, <1>13, <2>1 DEF new, Lags
    <2>5. \A i \in 1..ids : Tracked(i) => Tracked(i)'
        BY <1>2, <1>3, <1>4, <1>6, <1>7, <1>8, <1>13, <2>1 DEF new, Lags, Tracked, NoState
    <2>6. k # "none" => Tracked(t[k])'
        BY <1>5, <1>10, <2>1, <2>4 DEF Lags, Tracked, Kinds
    <2>7. IdsKept' /\ RetriesReuseId'
        BY <1>2, <1>3, <1>4, <1>5, <1>6, <1>7, <2>1, <2>4, <2>5, <2>6
        DEF picked, Kinds, TypeOK, RequestsTo, IdsKept, Tracked, RetriesReuseId, Idle, NoState
    <2> QED
        BY <2>3, <2>7, <1>11, <1>14
<1> QED
    BY <1>12, <1>13

(* initLocked outside Tick. *)
LEMMA IdentifyPreservesInv ==
    ASSUME TelemetryInv, Identify
    PROVE  TelemetryInv'
<1> USE DEF TelemetryInv
<1>0. UNCHANGED <<config, rounds, send, net, installs, events, day, settled>>
    BY DEF Identify, collector
<1>1. CASE loaded
    <2>1. UNCHANGED <<disk, mem, loaded, ids, unsaved>>
        BY <1>1 DEF Identify
    <2> QED
        BY <1>0, <2>1 DEF TypeOK, IdentityKept, IdentityAgrees, IdsKept, Lags, Tracked,
            RetriesReuseId, OptOutCancels, DiagnosticsEnabled
<1>2. CASE ~loaded
    <2>0. PICK s : s = Identity
        OBVIOUS
    <2>1. PICK ok \in BOOLEAN :
            /\ mem' = s
            /\ IF Missing THEN Persist(s, ok) ELSE ok /\ UNCHANGED <<disk, faults>>
            /\ loaded' = ok
            /\ ids' = IF Missing THEN ids + 2 ELSE ids
            /\ unsaved' = IF ok THEN unsaved ELSE unsaved \cup {ids + 1, ids + 2}
        BY <1>2, <2>0 DEF Identify
    <2>2. disk' = (IF Missing /\ ok THEN s ELSE disk) /\ (Missing \/ ok)
        BY <2>1 DEF Persist
    <2>3. /\ s.id # 0 /\ (s.registered \/ s.register # 0)
          /\ s.registered => disk.id \in installs
          /\ ~Missing => /\ s \in RecordsTo(ids)
                         /\ disk.id # 0 /\ s.id = disk.id
                         /\ Lags(disk.register, s.register)
                         /\ Lags(disk.presence, s.presence)
                         /\ Lags(disk.diagnostic, s.diagnostic)
          /\ Missing => /\ s \in RecordsTo(ids + 2) /\ ~s.registered
                        /\ s.presence = 0 /\ s.diagnostic = 0
                        /\ disk = NoState
                        /\ net = {} /\ events = {} /\ installs = {}
        BY <2>0, IdentityRecord
    <2>4. send = Idle
        BY <1>2 DEF IdentityKept
    <2>5. ids \in Nat /\ ids' \in Nat /\ ids' >= ids
        BY <2>1 DEF TypeOK
    <2>6. TypeOK'
        <3>1. /\ net' \subseteq RequestsTo(ids')
              /\ events' \subseteq 1..ids' /\ installs' \subseteq 1..ids'
            BY <1>0, <2>5, MoreIds DEF TypeOK
        <3>2. disk' \in RecordsTo(ids') /\ mem' \in RecordsTo(ids')
            BY <2>1, <2>2, <2>3, <2>5, MoreIds DEF TypeOK
        <3> QED
            BY <1>0, <2>1, <2>4, <2>5, <3>1, <3>2 DEF TypeOK
    <2>7. IdentityKept' /\ IdentityAgrees'
        BY <1>0, <2>1, <2>2, <2>3, <2>4 DEF IdentityKept, IdentityAgrees, Idle, NoState
    <2>8. IdsKept' /\ RetriesReuseId'
        BY <1>0, <2>1, <2>2, <2>3, <2>4 DEF IdsKept, Lags, Tracked, RetriesReuseId
    <2>9. OptOutCancels'
        BY <1>0 DEF OptOutCancels, DiagnosticsEnabled
    <2> QED
        BY <2>6, <2>7, <2>8, <2>9
<1> QED
    BY <1>1, <1>2

(* The setting changes; an opt-out cancels and forgets. *)
LEMMA SetDiagnosticsPreservesInv ==
    ASSUME TelemetryInv, NEW enabled \in BOOLEAN, SetDiagnostics(enabled)
    PROVE  TelemetryInv'
<1> USE DEF TelemetryInv
<1>0. UNCHANGED <<loaded, rounds, net, installs, events, day, ids, unsaved>>
    BY DEF SetDiagnostics, collector
<1>1. CASE UNCHANGED <<disk, config, mem, send, settled>>
    BY <1>0, <1>1 DEF TypeOK, IdentityKept, IdentityAgrees, IdsKept, Lags, Tracked,
        RetriesReuseId, OptOutCancels, DiagnosticsEnabled
<1>2. CASE ~UNCHANGED <<disk, config, mem, send, settled>>
    <2>1. /\ config' = IF enabled THEN "on" ELSE "off"
          /\ IF enabled THEN UNCHANGED send ELSE Cancel
          /\ IF ~enabled /\ loaded /\ mem.diagnostic # 0
             THEN /\ mem' = [mem EXCEPT !.diagnostic = 0]
                  /\ settled' = settled \cup {mem.diagnostic}
                  /\ \E ok \in BOOLEAN : Persist(mem', ok)
             ELSE UNCHANGED <<disk, mem, faults, settled>>
        BY <1>2 DEF SetDiagnostics
    <2>2. \/ UNCHANGED send
          \/ send' = [send EXCEPT !.cancelled = TRUE] /\ send.event.kind = "diagnostic"
        BY <2>1 DEF Cancel
    <2>3. /\ send'.event = send.event /\ send'.stage = send.stage
          /\ send = Idle <=> send' = Idle
          /\ send' # Idle => send' \in [event : RequestsTo(ids), cancelled : BOOLEAN,
                                       stage : {"picked", "sent", "acked", "failed"}]
        <3>1. CASE UNCHANGED send
            BY <3>1 DEF TypeOK
        <3>2. CASE send' = [send EXCEPT !.cancelled = TRUE] /\ send.event.kind = "diagnostic"
            <4>1. send # Idle
                BY <3>2 DEF Idle, NoEvent
            <4>2. send \in [event : RequestsTo(ids), cancelled : BOOLEAN,
                            stage : {"picked", "sent", "acked", "failed"}]
                BY <4>1 DEF TypeOK
            <4>3. send'.event = send.event /\ send'.stage = send.stage
                BY <3>2, <4>2
            <4>4. send' # Idle
                BY <3>2, <4>3 DEF Idle, NoEvent
            <4> QED
                BY <3>2, <4>1, <4>2, <4>3, <4>4
        <3> QED
            BY <2>2, <3>1, <3>2
    <2>4. ~enabled /\ send.event.kind = "diagnostic" => send'.cancelled
        BY <2>1 DEF Cancel, TypeOK, Idle, NoEvent
    <2>5. /\ mem' \in RecordsTo(ids) /\ mem'.id = mem.id
          /\ (mem'.registered <=> mem.registered) /\ mem'.register = mem.register
          /\ mem'.presence = mem.presence
          /\ mem'.diagnostic = mem.diagnostic \/ mem'.diagnostic = 0
        BY <2>1 DEF TypeOK, RecordsTo
    <2>6. /\ disk' = disk \/ (loaded /\ disk' = mem')
          /\ settled \subseteq settled'
          /\ mem'.diagnostic # mem.diagnostic => mem.diagnostic \in settled'
        BY <2>1 DEF Persist
    <2>7. TypeOK'
        BY <1>0, <2>1, <2>3, <2>5, <2>6 DEF TypeOK
    <2>8. IdentityKept' /\ IdentityAgrees'
        BY <1>0, <2>3, <2>5, <2>6 DEF IdentityKept, IdentityAgrees
    <2>9. \A i \in 1..ids : Tracked(i) => Tracked(i)'
        BY <1>0, <2>5, <2>6 DEF IdsKept, Lags, Tracked
    <2>10. IdsKept' /\ RetriesReuseId'
        <3>1. loaded' => /\ Lags(disk.register, mem.register)'
                         /\ Lags(disk.presence, mem.presence)'
                         /\ Lags(disk.diagnostic, mem.diagnostic)'
            BY <1>0, <2>5, <2>6 DEF IdsKept, Lags
        <3>2. /\ \A i \in events' : Tracked(i)'
              /\ \A e \in net' : Tracked(e.id)'
              /\ send' # Idle => Tracked(send.event.id)'
            BY <1>0, <2>3, <2>9 DEF IdsKept, RetriesReuseId, Tracked, TypeOK, RequestsTo
        <3> QED
            BY <1>0, <2>3, <2>5, <2>6, <3>1, <3>2 DEF IdsKept, Tracked, RetriesReuseId
    <2>11. OptOutCancels'
        BY <2>1, <2>2, <2>3, <2>4 DEF OptOutCancels, DiagnosticsEnabled
    <2> QED
        BY <2>7, <2>8, <2>10, <2>11
<1> QED
    BY <1>1, <1>2

(* Every step of Core, of the network and of the collector keeps the       *)
(* invariant.                                                              *)
LEMMA NextPreservesInv == TelemetryInv /\ [Next]_vars => TelemetryInv'
<1> SUFFICES ASSUME TelemetryInv, [Next]_vars PROVE TelemetryInv'
    OBVIOUS
<1> USE TelemetryAssumption
    DEF collector, history, router, Remote, Stage, Idle, NoEvent, Kinds, Fault
<1>1. CASE Tick
    <2> USE <1>1 DEF TelemetryInv, Tick
    <2>1. TypeOK'
        BY DEF TypeOK, RecordsTo, RequestsTo
    <2>2. IdentityKept' /\ IdentityAgrees'
        BY DEF TypeOK, RecordsTo, RequestsTo, IdentityKept, IdentityAgrees
    <2>3. IdsKept' /\ RetriesReuseId'
        BY DEF TypeOK, RecordsTo, RequestsTo, IdentityKept, IdsKept, Lags, Tracked,
            RetriesReuseId
    <2>4. OptOutCancels'
        BY DEF TypeOK, RequestsTo, OptOutCancels, DiagnosticsEnabled
    <2> QED
        BY <2>1, <2>2, <2>3, <2>4
<1>2. CASE Transmit
    <2> USE <1>2 DEF TelemetryInv, Transmit
    <2>1. TypeOK'
        BY DEF TypeOK, RecordsTo, RequestsTo
    <2>2. IdentityKept' /\ IdentityAgrees'
        BY DEF TypeOK, RecordsTo, RequestsTo, IdentityKept, IdentityAgrees
    <2>3. IdsKept' /\ RetriesReuseId'
        BY DEF TypeOK, RecordsTo, RequestsTo, IdentityKept, IdsKept, Lags, Tracked,
            RetriesReuseId
    <2>4. OptOutCancels'
        BY DEF TypeOK, RequestsTo, OptOutCancels, DiagnosticsEnabled
    <2> QED
        BY <2>1, <2>2, <2>3, <2>4
<1>3. CASE GiveUp
    <2> USE <1>3 DEF TelemetryInv, GiveUp
    <2>1. TypeOK'
        BY DEF TypeOK, RecordsTo, RequestsTo
    <2>2. IdentityKept' /\ IdentityAgrees'
        BY DEF TypeOK, RecordsTo, RequestsTo, IdentityKept, IdentityAgrees
    <2>3. IdsKept' /\ RetriesReuseId'
        BY DEF TypeOK, RecordsTo, RequestsTo, IdentityKept, IdsKept, Lags, Tracked,
            RetriesReuseId
    <2>4. OptOutCancels'
        BY DEF TypeOK, RequestsTo, OptOutCancels, DiagnosticsEnabled
    <2> QED
        BY <2>1, <2>2, <2>3, <2>4
<1>4. ASSUME NEW e \in net, Receive(e) PROVE TelemetryInv'
    <2> USE <1>4 DEF TelemetryInv, Receive
    <2>1. TypeOK'
        BY DEF TypeOK, RecordsTo, RequestsTo
    <2>2. IdentityKept' /\ IdentityAgrees'
        BY DEF TypeOK, RecordsTo, RequestsTo, IdentityKept, IdentityAgrees
    <2>3. IdsKept' /\ RetriesReuseId'
        BY DEF TypeOK, RecordsTo, RequestsTo, IdentityKept, IdsKept, Lags, Tracked,
            RetriesReuseId
    <2>4. OptOutCancels'
        BY DEF TypeOK, RequestsTo, OptOutCancels, DiagnosticsEnabled
    <2> QED
        BY <2>1, <2>2, <2>3, <2>4
<1>5. CASE NextDay
    <2> USE <1>5 DEF TelemetryInv, NextDay
    <2>1. TypeOK'
        BY DEF TypeOK, RecordsTo, RequestsTo
    <2>2. IdentityKept' /\ IdentityAgrees'
        BY DEF TypeOK, RecordsTo, RequestsTo, IdentityKept, IdentityAgrees
    <2>3. IdsKept' /\ RetriesReuseId'
        BY DEF TypeOK, RecordsTo, RequestsTo, IdentityKept, IdsKept, Lags, Tracked,
            RetriesReuseId
    <2>4. OptOutCancels'
        BY DEF TypeOK, RequestsTo, OptOutCancels, DiagnosticsEnabled
    <2> QED
        BY <2>1, <2>2, <2>3, <2>4
<1>6. CASE Restart
    <2>1. mem' = NoState /\ ~loaded' /\ send' = Idle /\ rounds' = 0 /\ day' \in 1..day
        BY <1>6 DEF Restart
    <2>2. UNCHANGED <<disk, config, net, installs, events, ids, settled, unsaved>>
        BY <1>6 DEF Restart
    <2>3. TypeOK'
        <3>1. day' \in 1..MaxDays
            BY <2>1 DEF TypeOK, TelemetryInv
        <3>2. loaded' = FALSE /\ NoState \in RecordsTo(ids)
            BY <1>6, NoStateIsRecord DEF Restart, TypeOK, TelemetryInv
        <3> QED
            <4> HIDE DEF Idle
            <4>1. 0 \in 0..MaxRounds
                OBVIOUS
            <4> QED
                BY <2>1, <2>2, <3>1, <3>2, <4>1 DEF TelemetryInv, TypeOK
    <2>4. IdentityKept' /\ IdentityAgrees'
        BY <2>1, <2>2 DEF TelemetryInv, IdentityKept, IdentityAgrees, NoState
    <2>5. IdsKept' /\ RetriesReuseId' /\ OptOutCancels'
        BY <2>1, <2>2 DEF TelemetryInv, IdsKept, Tracked, RetriesReuseId, OptOutCancels
    <2> QED
        BY <2>3, <2>4, <2>5 DEF TelemetryInv
<1>7. CASE UNCHANGED vars
    BY <1>7 DEF vars, TelemetryInv, TypeOK, IdentityKept, IdentityAgrees, IdsKept, Lags,
        Tracked, RetriesReuseId, OptOutCancels, DiagnosticsEnabled
<1> QED
    BY <1>1, <1>2, <1>3, <1>4, <1>5, <1>6, <1>7, PickPreservesInv, ConcludePreservesInv,
        IdentifyPreservesInv, SetDiagnosticsPreservesInv
    DEF Next, TickStep, Start, Status

(* Manager, state file, requests under way and collector agree in every    *)
(* reachable state, across failed writes, lost answers and restarts.       *)
THEOREM TelemetryInvariant == Spec => []TelemetryInv
BY InitEstablishesInv, NextPreservesInv, PTL DEF Spec

(* The collector never hears of a second identity, and a registration the  *)
(* state file calls confirmed is one the collector holds.                  *)
THEOREM IdentityAgreesAlways == Spec => []IdentityAgrees
BY TelemetryInvariant, PTL DEF TelemetryInv

(* A counted event that is not settled is still in the state file, unless  *)
(* the write of its identifier failed.                                     *)
THEOREM RetriesReuseIdAlways == Spec => []RetriesReuseId
BY TelemetryInvariant, PTL DEF TelemetryInv

(* No step puts a diagnostic request on the wire while the diagnostics are *)
(* switched off: only Transmit sends, and what it sends has been cancelled *)
(* by an opt-out that came after Pick.                                     *)
THEOREM OptOutHoldsAlways == Spec => OptOutHolds
<1>1. TelemetryInv /\ [Next]_vars =>
        [\A e \in net' \ net : e.kind = "diagnostic" => DiagnosticsEnabled]_vars
    <2> SUFFICES ASSUME TelemetryInv, Next, NEW e \in net' \ net, e.kind = "diagnostic"
                 PROVE  DiagnosticsEnabled
        OBVIOUS
    <2>1. Transmit
        BY DEF Next, TickStep, Tick, Pick, Conclude, GiveUp, Receive, Start, Status, Identify,
            SetDiagnostics, Restart, NextDay, router
    <2>2. e = send.event /\ send.stage = "picked" /\ ~send.cancelled
        BY <2>1 DEF Transmit
    <2> QED
        BY <2>2 DEF TelemetryInv, OptOutCancels
<1> QED
    BY <1>1, TelemetryInvariant, PTL DEF Spec, OptOutHolds
====
