---- MODULE TerminalSessionsProofs ----
(***************************************************************************)
(* Proofs about the registry of interactive terminals: its bounds and the  *)
(* custody of open terminals, for every number of handlers, browsers and   *)
(* shells and every limit; and about the bounded windows of output, among  *)
(* them the buffer such a terminal is read from.                           *)
(***************************************************************************)
EXTENDS TerminalSessions, Sequences, FiniteSetTheorems, SequenceTheorems, TLAPS

(* Requests are threads, the janitor is none of them, shells are numbers.  *)
LEMMA Names ==
    /\ Requests \subseteq Threads /\ Janitor \in Threads
    /\ Janitor \notin Requests
    /\ None \notin Clients /\ None \notin Shells
BY TerminalAssumption DEF Threads

(* A table of sessions is finite. *)
LEMMA TableFinite ==
    ASSUME NEW S \in SUBSET Shells
    PROVE  IsFiniteSet(S) /\ Cardinality(S) \in Nat
<1>1. IsFiniteSet(Shells)
    BY TerminalAssumption, FS_Interval DEF Shells
<1> QED
    BY <1>1, FS_Subset, FS_CardinalityType

(* A session fits into a table that is not full. *)
LEMMA TableGrows ==
    ASSUME NEW S \in SUBSET Shells, NEW s \in Shells, ~(Cardinality(S) >= Limit)
    PROVE  Cardinality(S \cup {s}) <= Limit
<1>1. IsFiniteSet(S) /\ Cardinality(S) \in Nat /\ Cardinality(S) < Limit
    BY TableFinite, TerminalAssumption
<1>2. CASE s \in S
    <2>1. S \cup {s} = S
        BY <1>2
    <2> QED
        BY <1>1, <2>1, TerminalAssumption
<1>3. CASE s \notin S
    <2>1. Cardinality(S \cup {s}) = Cardinality(S) + 1
        BY <1>1, <1>3, FS_AddElement
    <2> QED
        BY <1>1, <2>1, TerminalAssumption
<1> QED
    BY <1>2, <1>3

(* Taking sessions from the table keeps its bounds. *)
LEMMA TableShrinks ==
    ASSUME TypeOK, RegistryBounded, sessions' \subseteq sessions,
           \A s \in sessions : client'[s] = client[s]
    PROVE  RegistryBounded'
<1>1. IsFiniteSet(sessions) /\ Cardinality(sessions) \in Nat /\ Cardinality(sessions') \in Nat
    BY TableFinite DEF TypeOK
<1>2. Cardinality(sessions') <= Cardinality(sessions)
    BY <1>1, FS_Subset
<1>3. Cardinality(sessions') <= Limit
    BY <1>1, <1>2, TerminalAssumption DEF RegistryBounded
<1> QED
    BY <1>3 DEF RegistryBounded

(* The table starts empty, and no terminal is open. *)
LEMMA InitEstablishesInv == Init => SessionsInv
<1> SUFFICES ASSUME Init PROVE SessionsInv
    OBVIOUS
<1> USE Names DEF Init
<1>1. TypeOK
    BY DEF TypeOK
<1>2. RegistryBounded
    BY TerminalAssumption, FS_EmptySet DEF RegistryBounded
<1>3. SessionsStarted /\ FramesCoherent /\ NoOrphanTerminal
    BY DEF SessionsStarted, FramesCoherent, NoOrphanTerminal
<1> QED
    BY <1>1, <1>2, <1>3 DEF SessionsInv

(* A step of a creation, of a close request or of a WebSocket's handler    *)
(* keeps the invariant.                                                    *)
LEMMA HandlerPreservesInv ==
    ASSUME SessionsInv, NEW r \in Requests, Handler(r) \/ Client(r)
    PROVE  SessionsInv'
<1> USE Names DEF Goto, shells, frames
<1>1. ASSUME NEW c \in Clients, Create(r, c) PROVE SessionsInv'
    <2> USE <1>1 DEF SessionsInv, Create, Sweep, Unlink, Inactive
    <2>1. TypeOK'
        BY DEF TypeOK
    <2>2. SessionsStarted' /\ FramesCoherent'
        BY DEF TypeOK, SessionsStarted, FramesCoherent
    <2>3. RegistryBounded'
        BY TableShrinks
    <2>4. NoOrphanTerminal'
        BY DEF TypeOK, FramesCoherent, NoOrphanTerminal, Held
    <2> QED
        BY <2>1, <2>2, <2>3, <2>4
<1>2. CASE Evict(r)
    <2> USE <1>2 DEF SessionsInv, Evict, Unlink, OfClient
    <2>1. TypeOK'
        BY DEF TypeOK
    <2>2. SessionsStarted' /\ FramesCoherent'
        BY DEF TypeOK, SessionsStarted, FramesCoherent
    <2>3. RegistryBounded'
        BY TableShrinks
    <2>4. NoOrphanTerminal'
        BY DEF TypeOK, FramesCoherent, NoOrphanTerminal, Held
    <2> QED
        BY <2>1, <2>2, <2>3, <2>4
<1>3. CASE Start(r)
    <2> USE <1>3 DEF SessionsInv, Start, Spawn
    <2>1. TypeOK'
        BY DEF TypeOK
    <2>2. SessionsStarted' /\ FramesCoherent'
        BY DEF TypeOK, SessionsStarted, FramesCoherent
    <2>3. RegistryBounded'
        BY TableShrinks DEF TypeOK, SessionsStarted
    <2>4. NoOrphanTerminal'
        BY DEF TypeOK, FramesCoherent, NoOrphanTerminal, Held
    <2> QED
        BY <2>1, <2>2, <2>3, <2>4
<1>4. CASE Publish(r)
    <2> DEFINE old == OfClient(who[r])
               kept == sessions \ old
    <2>1. /\ old = {s \in sessions : client[s] = who[r]}
          /\ kept \in SUBSET Shells
          /\ doomed[r] = {} /\ mine[r] \in Shells
          /\ proc[mine[r]] # "none" /\ client[mine[r]] = who[r]
        BY <1>4 DEF OfClient, SessionsInv, TypeOK, FramesCoherent, Publish
    <2>2. CASE Cardinality(kept) >= Limit
        <3>1. /\ sessions' = kept /\ idle' = idle \ old
              /\ doomed' = [doomed EXCEPT ![r] = old \cup {mine[r]}]
              /\ pc' = [pc EXCEPT ![r] = "return"]
              /\ UNCHANGED <<client, proc, master, closed, awaited, who, mine>>
            BY <1>4, <2>2 DEF Publish
        <3> HIDE DEF old
        <3> USE <2>1, <3>1 DEF SessionsInv
        <3>2. TypeOK'
            BY DEF TypeOK
        <3>3. SessionsStarted' /\ FramesCoherent'
            BY DEF TypeOK, SessionsStarted, FramesCoherent
        <3>4. RegistryBounded'
            BY TableShrinks
        <3>5. NoOrphanTerminal'
            BY DEF TypeOK, NoOrphanTerminal, Held
        <3> QED
            BY <3>2, <3>3, <3>4, <3>5
    <2>3. CASE ~(Cardinality(kept) >= Limit)
        <3>1. /\ sessions' = kept \cup {mine[r]} /\ idle' = idle \ old
              /\ doomed' = [doomed EXCEPT ![r] = old]
              /\ pc' = [pc EXCEPT ![r] = "started"]
              /\ UNCHANGED <<client, proc, master, closed, awaited, who, mine>>
            BY <1>4, <2>3 DEF Publish
        <3>2. Cardinality(sessions') <= Limit
            BY <2>1, <2>3, <3>1, TableGrows
        <3> HIDE DEF old
        <3> USE <2>1, <3>1 DEF SessionsInv
        <3>3. TypeOK'
            BY DEF TypeOK
        <3>4. SessionsStarted' /\ FramesCoherent'
            BY DEF TypeOK, SessionsStarted, FramesCoherent
        <3>5. RegistryBounded'
            BY <3>2 DEF RegistryBounded
        <3>6. NoOrphanTerminal'
            BY DEF TypeOK, NoOrphanTerminal, Held
        <3> QED
            BY <3>3, <3>4, <3>5, <3>6
    <2> QED
        BY <2>2, <2>3
<1>5. CASE Started(r)
    <2> USE <1>5 DEF SessionsInv, Started
    <2>1. TypeOK'
        BY DEF TypeOK
    <2>2. SessionsStarted' /\ FramesCoherent'
        BY DEF TypeOK, SessionsStarted, FramesCoherent
    <2>3. RegistryBounded'
        BY TableShrinks
    <2>4. NoOrphanTerminal'
        BY DEF TypeOK, FramesCoherent, NoOrphanTerminal, Held
    <2> QED
        BY <2>1, <2>2, <2>3, <2>4
<1>6. CASE Return(r)
    <2> USE <1>6 DEF SessionsInv, Return
    <2>1. TypeOK'
        BY DEF TypeOK
    <2>2. SessionsStarted' /\ FramesCoherent'
        BY DEF TypeOK, SessionsStarted, FramesCoherent
    <2>3. RegistryBounded'
        BY TableShrinks
    <2>4. NoOrphanTerminal'
        BY DEF TypeOK, FramesCoherent, NoOrphanTerminal, Held
    <2> QED
        BY <2>1, <2>2, <2>3, <2>4
<1>7. ASSUME NEW s \in Shells, Get(r, s) PROVE SessionsInv'
    <2> USE <1>7 DEF SessionsInv, Get
    <2>1. TypeOK'
        BY DEF TypeOK
    <2>2. SessionsStarted' /\ FramesCoherent'
        BY DEF TypeOK, SessionsStarted, FramesCoherent
    <2>3. RegistryBounded'
        BY TableShrinks
    <2>4. NoOrphanTerminal'
        BY DEF TypeOK, FramesCoherent, NoOrphanTerminal, Held
    <2> QED
        BY <2>1, <2>2, <2>3, <2>4
<1>8. CASE Remove(r)
    <2> USE <1>8 DEF SessionsInv, Remove, Unlink
    <2>1. TypeOK'
        BY DEF TypeOK, FramesCoherent
    <2>2. SessionsStarted' /\ FramesCoherent'
        BY DEF TypeOK, SessionsStarted, FramesCoherent
    <2>3. RegistryBounded'
        BY TableShrinks
    <2>4. NoOrphanTerminal'
        BY DEF TypeOK, FramesCoherent, NoOrphanTerminal, Held
    <2> QED
        BY <2>1, <2>2, <2>3, <2>4
<1>9. CASE Connect(r)
    <2> USE <1>9 DEF SessionsInv, Connect, Spawn
    <2>1. TypeOK'
        BY DEF TypeOK
    <2>2. SessionsStarted' /\ FramesCoherent'
        BY DEF TypeOK, SessionsStarted, FramesCoherent
    <2>3. RegistryBounded'
        BY TableShrinks DEF TypeOK, SessionsStarted
    <2>4. NoOrphanTerminal'
        BY DEF TypeOK, FramesCoherent, NoOrphanTerminal, Held
    <2> QED
        BY <2>1, <2>2, <2>3, <2>4
<1>10. CASE Upgrade(r)
    <2> USE <1>10 DEF SessionsInv, Upgrade
    <2>1. TypeOK'
        <3>1. mine[r] \in Shells
            BY DEF FramesCoherent
        <3>2. \/ awaited' = [awaited EXCEPT ![mine[r]] = TRUE] /\ UNCHANGED doomed
              \/ doomed' = [doomed EXCEPT ![r] = {mine[r]}] /\ UNCHANGED awaited
            OBVIOUS
        <3>3. awaited' \in [Shells -> BOOLEAN]
            BY <3>1, <3>2, Zenon DEF TypeOK
        <3>4. doomed' \in [Threads -> SUBSET Shells]
            BY <3>1, <3>2 DEF TypeOK
        <3>5. pc' \in [Threads -> {"ready", "evict", "spawn", "publish", "started",
                                   "remove", "upgrade", "serve", "return"}]
            BY DEF TypeOK
        <3> QED
            BY <3>3, <3>4, <3>5 DEF TypeOK
    <2>2. SessionsStarted' /\ FramesCoherent'
        BY DEF TypeOK, SessionsStarted, FramesCoherent
    <2>3. RegistryBounded'
        BY TableShrinks
    <2>4. NoOrphanTerminal'
        BY DEF TypeOK, FramesCoherent, NoOrphanTerminal, Held
    <2> QED
        BY <2>1, <2>2, <2>3, <2>4
<1>11. CASE Disconnect(r)
    <2> USE <1>11 DEF SessionsInv, Disconnect
    <2>1. TypeOK'
        BY DEF TypeOK, FramesCoherent
    <2>2. SessionsStarted' /\ FramesCoherent'
        BY DEF TypeOK, SessionsStarted, FramesCoherent
    <2>3. RegistryBounded'
        BY TableShrinks
    <2>4. NoOrphanTerminal'
        BY DEF TypeOK, FramesCoherent, NoOrphanTerminal, Held
    <2> QED
        BY <2>1, <2>2, <2>3, <2>4
<1>12. ASSUME NEW s \in Shells, Close(r, s) PROVE SessionsInv'
    <2> USE <1>12 DEF SessionsInv, Close
    <2>1. TypeOK'
        BY DEF TypeOK
    <2>2. SessionsStarted' /\ FramesCoherent'
        BY DEF TypeOK, SessionsStarted, FramesCoherent
    <2>3. RegistryBounded'
        BY TableShrinks
    <2>4. NoOrphanTerminal'
        BY DEF TypeOK, FramesCoherent, NoOrphanTerminal, Held
    <2> QED
        BY <2>1, <2>2, <2>3, <2>4
<1> QED
    BY <1>1, <1>2, <1>3, <1>4, <1>5, <1>6, <1>7, <1>8, <1>9, <1>10, <1>11, <1>12 DEF Handler, Client

(* Every step of the registry keeps the invariant. *)
LEMMA NextPreservesInv == SessionsInv /\ [Next]_vars => SessionsInv'
<1> SUFFICES ASSUME SessionsInv, [Next]_vars PROVE SessionsInv'
    OBVIOUS
<1> USE Names DEF shells, frames
<1>1. ASSUME NEW r \in Requests, Handler(r) \/ Client(r) PROVE SessionsInv'
    BY <1>1, HandlerPreservesInv
<1>2. CASE JanitorTick
    <2> USE <1>2 DEF SessionsInv, JanitorTick, Sweep, Unlink, Inactive
    <2>1. TypeOK'
        BY DEF TypeOK
    <2>2. SessionsStarted' /\ FramesCoherent'
        BY DEF TypeOK, SessionsStarted, FramesCoherent
    <2>3. RegistryBounded'
        BY TableShrinks
    <2>4. NoOrphanTerminal'
        BY DEF TypeOK, FramesCoherent, NoOrphanTerminal, Held
    <2> QED
        BY <2>1, <2>2, <2>3, <2>4
<1>3. ASSUME NEW s \in Shells, Close(Janitor, s) PROVE SessionsInv'
    <2> USE <1>3 DEF SessionsInv, Close
    <2>1. TypeOK'
        BY DEF TypeOK
    <2>2. SessionsStarted' /\ FramesCoherent'
        BY DEF TypeOK, SessionsStarted, FramesCoherent
    <2>3. RegistryBounded'
        BY TableShrinks
    <2>4. NoOrphanTerminal'
        BY DEF TypeOK, FramesCoherent, NoOrphanTerminal, Held
    <2> QED
        BY <2>1, <2>2, <2>3, <2>4
<1>4. ASSUME NEW s \in Shells, Exit(s) PROVE SessionsInv'
    <2> USE <1>4 DEF SessionsInv, Exit
    <2>1. TypeOK'
        BY DEF TypeOK
    <2>2. SessionsStarted' /\ FramesCoherent'
        BY DEF TypeOK, SessionsStarted, FramesCoherent
    <2>3. RegistryBounded'
        BY TableShrinks
    <2>4. NoOrphanTerminal'
        BY DEF TypeOK, FramesCoherent, NoOrphanTerminal, Held
    <2> QED
        BY <2>1, <2>2, <2>3, <2>4
<1>5. ASSUME NEW s \in Shells, Wait(s) PROVE SessionsInv'
    <2> USE <1>5 DEF SessionsInv, Wait
    <2>1. TypeOK'
        BY DEF TypeOK
    <2>2. SessionsStarted' /\ FramesCoherent'
        BY DEF TypeOK, SessionsStarted, FramesCoherent
    <2>3. RegistryBounded'
        BY TableShrinks
    <2>4. NoOrphanTerminal'
        BY DEF TypeOK, FramesCoherent, NoOrphanTerminal, Held
    <2> QED
        BY <2>1, <2>2, <2>3, <2>4
<1>6. ASSUME NEW s \in Shells, Idle(s) PROVE SessionsInv'
    <2> USE <1>6 DEF SessionsInv, Idle
    <2>1. TypeOK'
        BY DEF TypeOK
    <2>2. SessionsStarted' /\ FramesCoherent'
        BY DEF TypeOK, SessionsStarted, FramesCoherent
    <2>3. RegistryBounded'
        BY TableShrinks
    <2>4. NoOrphanTerminal'
        BY DEF TypeOK, FramesCoherent, NoOrphanTerminal, Held
    <2> QED
        BY <2>1, <2>2, <2>3, <2>4
<1>7. ASSUME NEW s \in Shells, Touch(s) PROVE SessionsInv'
    <2> USE <1>7 DEF SessionsInv, Touch
    <2>1. TypeOK'
        BY DEF TypeOK
    <2>2. SessionsStarted' /\ FramesCoherent'
        BY DEF TypeOK, SessionsStarted, FramesCoherent
    <2>3. RegistryBounded'
        BY TableShrinks
    <2>4. NoOrphanTerminal'
        BY DEF TypeOK, FramesCoherent, NoOrphanTerminal, Held
    <2> QED
        BY <2>1, <2>2, <2>3, <2>4
<1>8. CASE UNCHANGED vars
    BY <1>8 DEF vars, SessionsInv, TypeOK, SessionsStarted, FramesCoherent, RegistryBounded,
        NoOrphanTerminal, Held
<1> QED
    BY <1>1, <1>2, <1>3, <1>4, <1>5, <1>6, <1>7, <1>8 DEF Next

(* The table, the handlers and the open terminals agree in every reachable *)
(* state, however creations, close requests, the janitor and exiting       *)
(* shells interleave.                                                      *)
THEOREM SessionsInvariant == Spec => []SessionsInv
BY InitEstablishesInv, NextPreservesInv, PTL DEF Spec

(* The registry never holds more than adminTerminalSessionLimit sessions   *)
(* nor two of one browser, although its mutex is released while a shell is *)
(* started.                                                                *)
THEOREM RegistryBoundedAlways == Spec => []RegistryBounded
BY SessionsInvariant, PTL DEF SessionsInv

(* Every open terminal is in the table or in the hands of a thread that    *)
(* will publish, serve or close it.                                        *)
THEOREM NoOrphanTerminalAlways == Spec => []NoOrphanTerminal
BY SessionsInvariant, PTL DEF SessionsInv

---------------------------------------------------------------------------
(* The buffer a session is read from, and the other windows of             *)
(* OutputWindows.  Its ended shell is not the closed of the registry above.*)

CONSTANTS Capacity, MaxLines, BufferLimit, ReadLimit, MaxEvents, MaxOutput, MaxBytes
VARIABLES items, next, full, added, lines, printed, state, lastLine, lastState, sent, streaming,
          output, baseCursor, endCursor, ended, cursor, seen, holes

W == INSTANCE OutputWindows WITH closed <- ended

(* A run of consecutive numbers. *)
LEMMA Runs ==
    ASSUME NEW a \in Int, NEW b \in Int, b >= a - 1
    PROVE  /\ W!Numbers(a, b) \in Seq(Int) /\ Len(W!Numbers(a, b)) = b - a + 1
           /\ \A i \in 1..(b - a + 1) : W!Numbers(a, b)[i] = a + i - 1
BY DEF W!Numbers

(* The part of a run between two positions. *)
LEMMA RunPart ==
    ASSUME NEW a \in Int, NEW b \in Int, b >= a - 1,
           NEW m \in Nat \ {0}, NEW n \in Nat, n <= b - a + 1, m <= n + 1
    PROVE  SubSeq(W!Numbers(a, b), m, n) = W!Numbers(a + m - 1, a + n - 1)
<1>1. PICK s \in Seq(Int) : s = W!Numbers(a, b)
    BY Runs
<1>2. Len(s) = b - a + 1 /\ \A i \in 1..Len(s) : s[i] = a + i - 1
    BY <1>1, Runs
<1>3. PICK u : u = SubSeq(s, m, n)
    OBVIOUS
<1>4. u \in Seq(Int) /\ Len(u) = n - m + 1
    BY <1>2, <1>3, SubSeqProperties
<1>5. \A i \in 1..(n - m + 1) : u[i] = s[m + i - 1]
    BY <1>2, <1>3, SubSeqProperties
<1>6. PICK c \in Int, d \in Int, k \in Nat : c = a + m - 1 /\ d = a + n - 1 /\ k = d - c + 1
    OBVIOUS
<1>7. Len(u) = k /\ \A i \in 1..k : u[i] = c + i - 1
    BY <1>2, <1>4, <1>5, <1>6
<1>8. u = W!Numbers(c, d)
    BY <1>4, <1>6, <1>7 DEF W!Numbers
<1> QED
    BY <1>1, <1>3, <1>6, <1>8, Zenon

(* Two runs that meet are one. *)
LEMMA RunsJoin ==
    ASSUME NEW a \in Int, NEW b \in Int, b >= a - 1, NEW c \in Int, c >= b
    PROVE  W!Numbers(a, b) \o W!Numbers(b + 1, c) = W!Numbers(a, c)
<1>1. PICK s \in Seq(Int) : s = W!Numbers(a, b)
    BY Runs
<1>2. Len(s) = b - a + 1 /\ \A i \in 1..Len(s) : s[i] = a + i - 1
    BY <1>1, Runs
<1>3. PICK d \in Int : d = b + 1
    OBVIOUS
<1>d. d \in Int /\ c \in Int /\ c >= d - 1
    BY <1>3
<1>4. PICK t \in Seq(Int) : t = W!Numbers(d, c)
    BY <1>d, Runs
<1>5. Len(t) = c - d + 1 /\ \A i \in 1..Len(t) : t[i] = d + i - 1
    BY <1>d, <1>4, Runs
<1>6. /\ s \o t \in Seq(Int) /\ Len(s \o t) = Len(s) + Len(t)
      /\ \A i \in 1..(Len(s) + Len(t)) : (s \o t)[i] = IF i <= Len(s) THEN s[i] ELSE t[i - Len(s)]
    BY ConcatProperties, Zenon
<1>7. PICK u \in Seq(Int) : u = s \o t
    BY <1>6
<1>8. PICK k \in Nat : k = c - a + 1
    OBVIOUS
<1>9. Len(u) = k /\ \A i \in 1..k : u[i] = a + i - 1
    BY <1>2, <1>3, <1>5, <1>6, <1>7, <1>8
<1>10. u = W!Numbers(a, c)
    BY <1>8, <1>9 DEF W!Numbers
<1> QED
    BY <1>1, <1>3, <1>4, <1>7, <1>10, Zenon

(* A position of the ring, at most once around. *)
LEMMA Around ==
    ASSUME NEW c \in Nat \ {0}, NEW x \in 0..(2 * c - 1)
    PROVE  x % c = IF x < c THEN x ELSE x - c
<1>1. CASE x < c
    BY <1>1
<1>2. CASE x >= c
    BY <1>2
<1> QED
    BY <1>1, <1>2

(* Ring.Add overwrites the oldest event, once the ring is full. *)
LEMMA AddKeeps ==
    ASSUME W!Sizes, W!RingInv, W!Add
    PROVE  W!RingInv'
<1>1. Capacity \in Nat \ {0}
    BY DEF W!Sizes
<1>2. /\ added \in Nat /\ next \in 0..(Capacity - 1) /\ full \in BOOLEAN
      /\ items \in [0..(Capacity - 1) -> Nat]
    BY DEF W!RingInv
<1>3. /\ added' = added + 1 /\ items' = [items EXCEPT ![next] = added']
      /\ next' = (next + 1) % Capacity /\ full' = (full \/ next' = 0)
    BY DEF W!Add
<1>4. next' = IF next + 1 < Capacity THEN next + 1 ELSE 0
    <2>1. PICK x \in 0..(2 * Capacity - 1) : x = next + 1
        BY <1>1, <1>2
    <2>2. x % Capacity = IF x < Capacity THEN x ELSE x - Capacity
        BY <1>1, Around
    <2> QED
        BY <1>1, <1>2, <1>3, <2>1, <2>2
<1>5. /\ added' \in Nat /\ next' \in 0..(Capacity - 1) /\ full' \in BOOLEAN
      /\ items' \in [0..(Capacity - 1) -> Nat]
    BY <1>1, <1>2, <1>3, <1>4
<1>6. ~full' => next' = added'
    BY <1>1, <1>2, <1>3, <1>4 DEF W!RingInv
<1>7. full' => added' >= Capacity
    BY <1>1, <1>2, <1>3, <1>4 DEF W!RingInv
<1>8. ASSUME NEW i \in 0..(Capacity - 1)
      PROVE  /\ i < next' => items'[i] = added' - next' + i + 1
             /\ i >= next' /\ full' => items'[i] = added' - next' - Capacity + i + 1
    <2>1. items'[i] = IF i = next THEN added + 1 ELSE items[i]
        BY <1>2, <1>3
    <2>a. /\ ~full => next = added
          /\ i < next => items[i] = added - next + i + 1
          /\ i >= next /\ full => items[i] = added - next - Capacity + i + 1
        BY DEF W!RingInv
    <2>2. CASE next + 1 < Capacity
        <3>1. CASE full
            <4>1. /\ i < next => items[i] = added - next + i + 1
                  /\ i >= next => items[i] = added - next - Capacity + i + 1
                BY <2>a, <3>1, Zenon
            <4>2. next' = next + 1 /\ added' = added + 1
                BY <1>1, <1>2, <1>3, <1>4, <2>2
            <4>3. CASE i < next
                BY <1>1, <1>2, <2>1, <4>1, <4>2, <4>3
            <4>4. CASE i = next
                BY <1>1, <1>2, <2>1, <4>2, <4>4
            <4>5. CASE i > next
                BY <1>1, <1>2, <2>1, <4>1, <4>2, <4>5
            <4> QED
                BY <1>1, <1>2, <4>3, <4>4, <4>5
        <3>2. CASE ~full
            BY <1>1, <1>2, <1>3, <1>4, <2>a, <2>1, <2>2, <3>2
        <3> QED
            BY <3>1, <3>2
    <2>3. CASE next + 1 = Capacity
        <3>1. CASE full
            BY <1>1, <1>2, <1>3, <1>4, <2>a, <2>1, <2>3, <3>1
        <3>2. CASE ~full
            BY <1>1, <1>2, <1>3, <1>4, <2>a, <2>1, <2>3, <3>2
        <3> QED
            BY <3>1, <3>2
    <2> QED
        BY <1>1, <1>2, <2>2, <2>3
<1> QED
    BY <1>5, <1>6, <1>7, <1>8 DEF W!RingInv

(* What the ring holds is what a snapshot returns. *)
LEMMA RingIsNewest ==
    ASSUME W!Sizes, W!RingInv
    PROVE  W!SnapshotNewest
<1>1. Capacity \in Nat \ {0}
    BY DEF W!Sizes
<1>2. /\ added \in Nat /\ next \in 0..(Capacity - 1) /\ full \in BOOLEAN
      /\ items \in [0..(Capacity - 1) -> Nat]
    BY DEF W!RingInv
<1>3. PICK n \in Nat : n = W!Smaller(added, Capacity)
    BY <1>1, <1>2 DEF W!Smaller
<1>4. W!Count = n
    BY <1>1, <1>2, <1>3 DEF W!Count, W!Smaller, W!RingInv
<1>5. PICK kept : kept = W!Newest(n)
    OBVIOUS
<1>6. /\ kept = W!Numbers(added - n + 1, added) /\ n <= added
    BY <1>1, <1>2, <1>3, <1>5 DEF W!Newest, W!Smaller
<1>7. SUFFICES ASSUME NEW limit \in 0..(Capacity + 1)
      PROVE  W!Snapshot(limit) = IF limit = 0 THEN kept ELSE W!Window(kept, limit)
    BY <1>3, <1>5, Zenon DEF W!SnapshotNewest
<1>8. PICK size \in Nat : size = IF limit <= 0 \/ limit > n THEN n ELSE limit
    BY <1>1
<1>9. PICK start \in 0..(Capacity - 1) : start = IF full THEN next ELSE 0
    BY <1>1, <1>2
<1>10. W!Snapshot(limit) = [i \in 1..size |-> items[(start + n - size + i - 1) % Capacity]]
    BY <1>4, <1>8, <1>9, Zenon DEF W!Snapshot
<1>11. size <= n /\ n <= Capacity
    BY <1>1, <1>2, <1>3, <1>8 DEF W!Smaller
<1>12. ASSUME NEW i \in 1..size
       PROVE  items[(start + n - size + i - 1) % Capacity] = added - size + i
    <2>1. PICK x \in 0..(2 * Capacity - 1) : x = start + n - size + i - 1
        BY <1>1, <1>9, <1>11
    <2>2. PICK y \in 0..(Capacity - 1) : y = x % Capacity /\ y = IF x < Capacity THEN x ELSE x - Capacity
        BY <1>1, Around
    <2>a. /\ ~full => next = added
          /\ full => added >= Capacity
          /\ y < next => items[y] = added - next + y + 1
          /\ y >= next /\ full => items[y] = added - next - Capacity + y + 1
        BY DEF W!RingInv
    <2>3. items[y] = added - size + i
        <3>1. CASE full
            <4>1. /\ added >= Capacity
                  /\ y < next => items[y] = added - next + y + 1
                  /\ y >= next => items[y] = added - next - Capacity + y + 1
                BY <2>a, <3>1, Zenon
            <4>2. n = Capacity /\ start = next
                <5>1. start = next
                    BY <1>9, <3>1, Zenon
                <5>2. n = Capacity
                    BY <1>1, <1>2, <1>3, <4>1 DEF W!Smaller
                <5> QED
                    BY <5>1, <5>2
            <4>3. CASE x < Capacity
                <5>1. y = next + Capacity - size + i - 1
                    BY <1>1, <1>2, <2>1, <2>2, <4>2, <4>3
                <5>2. y >= next
                    BY <1>1, <1>2, <1>11, <4>2, <5>1
                <5>3. items[y] = added - next - Capacity + y + 1
                    BY <4>1, <5>2, Zenon
                <5> QED
                    BY <1>1, <1>2, <5>1, <5>3
            <4>4. CASE x >= Capacity
                BY <1>1, <1>2, <1>11, <2>1, <2>2, <4>1, <4>2, <4>4
            <4> QED
                BY <1>1, <4>3, <4>4
        <3>2. CASE ~full
            BY <1>1, <1>2, <1>3, <1>9, <1>11, <2>a, <2>1, <2>2, <3>2 DEF W!Smaller
        <3> QED
            BY <3>1, <3>2
    <2> QED
        BY <2>1, <2>2, <2>3
<1>13. W!Snapshot(limit) = [i \in 1..size |-> added - size + i]
    BY <1>10, <1>12
<1>14. PICK f \in Int : f = added - size + 1
    BY <1>2
<1>15. W!Snapshot(limit) = W!Numbers(f, added)
    <2>1. added - f + 1 = size /\ \A i \in 1..size : f + i - 1 = added - size + i
        BY <1>2, <1>14
    <2>2. W!Numbers(f, added) = [i \in 1..size |-> f + i - 1]
        BY <2>1 DEF W!Numbers
    <2> QED
        BY <1>13, <2>1, <2>2
<1>16. PICK a \in Int, b \in Int : a = added - n + 1 /\ b = added /\ b >= a - 1
    BY <1>2, <1>6
<1>17. kept \in Seq(Int) /\ Len(kept) = n
    <2>1. kept = W!Numbers(a, b) /\ n = b - a + 1
        BY <1>2, <1>6, <1>16
    <2> QED
        BY <1>16, <2>1, Runs
<1>18. CASE limit = 0 \/ limit >= n
    <2>1. f = added - n + 1
        BY <1>2, <1>8, <1>14, <1>18
    <2>2. W!Snapshot(limit) = kept
        BY <1>6, <1>15, <2>1, Zenon
    <2>3. limit # 0 => W!Window(kept, limit) = kept
        BY <1>17, <1>18 DEF W!Window
    <2> QED
        BY <2>2, <2>3
<1>19. CASE limit # 0 /\ limit < n
    <2>1. W!Window(kept, limit) = SubSeq(kept, n - limit + 1, n)
        BY <1>17, <1>19 DEF W!Window
    <2>2. PICK m \in Nat \ {0} : m = n - limit + 1
        BY <1>19
    <2>3. b >= a - 1 /\ n <= b - a + 1 /\ m <= n + 1
        BY <1>2, <1>6, <1>16, <1>19, <2>2
    <2>4. SubSeq(W!Numbers(a, b), m, n) = W!Numbers(a + m - 1, a + n - 1)
        BY <2>3, RunPart
    <2>5. a + m - 1 = f /\ a + n - 1 = added
        BY <1>2, <1>8, <1>14, <1>16, <1>19, <2>2
    <2> QED
        BY <1>6, <1>15, <1>16, <1>19, <2>1, <2>2, <2>4, <2>5, Zenon
<1> QED
    BY <1>18, <1>19

(* A run of natural numbers. *)
LEMMA NatRuns ==
    ASSUME NEW a \in Nat, NEW b \in Int, b >= a - 1
    PROVE  W!Numbers(a, b) \in Seq(Nat)
BY DEF W!Numbers

(* The number after a run prolongs it. *)
LEMMA RunAppend ==
    ASSUME NEW a \in Int, NEW b \in Int, b >= a - 1, NEW c \in Int, c = b + 1
    PROVE  Append(W!Numbers(a, b), c) = W!Numbers(a, c)
<1>1. PICK s \in Seq(Int) : s = W!Numbers(a, b)
    BY Runs
<1>2. Len(s) = b - a + 1 /\ \A i \in 1..Len(s) : s[i] = a + i - 1
    BY <1>1, Runs
<1>3. PICK u \in Seq(Int) : u = Append(s, c)
    BY AppendProperties
<1>4. PICK k \in Nat : k = c - a + 1
    OBVIOUS
<1>5. Len(u) = k /\ \A i \in 1..k : u[i] = a + i - 1
    BY <1>2, <1>3, <1>4
<1>6. u = W!Numbers(a, c)
    BY <1>4, <1>5 DEF W!Numbers
<1> QED
    BY <1>1, <1>3, <1>6, Zenon

(* The last numbers of a run. *)
LEMMA RunWindow ==
    ASSUME NEW a \in Int, NEW b \in Int, b >= a - 1, NEW n \in Nat, NEW f \in Int,
           f = IF b - a + 1 <= n THEN a ELSE b - n + 1
    PROVE  W!Window(W!Numbers(a, b), n) = W!Numbers(f, b)
<1>1. PICK s \in Seq(Int) : s = W!Numbers(a, b)
    BY Runs
<1>2. PICK l \in Nat : l = Len(s)
    BY <1>1
<1>3. l = b - a + 1
    BY <1>1, <1>2, Runs
<1>4. CASE l <= n
    <2>1. W!Window(s, n) = s
        BY <1>2, <1>4 DEF W!Window
    <2>2. f = a
        BY <1>3, <1>4
    <2> QED
        BY <1>1, <2>1, <2>2, Zenon
<1>5. CASE l > n
    <2>1. PICK m \in Nat \ {0} : m = l - n + 1
        BY <1>5
    <2>2. W!Window(s, n) = SubSeq(s, m, l)
        BY <1>2, <1>5, <2>1 DEF W!Window
    <2>3. l <= b - a + 1 /\ m <= l + 1
        BY <1>3, <1>5, <2>1
    <2>4. SubSeq(W!Numbers(a, b), m, l) = W!Numbers(a + m - 1, a + l - 1)
        BY <2>3, RunPart
    <2>5. a + m - 1 = f /\ a + l - 1 = b
        BY <1>3, <1>5, <2>1
    <2> QED
        BY <1>1, <2>2, <2>4, <2>5, Zenon
<1> QED
    BY <1>4, <1>5

(* appendLine cuts the window to the newest lines. *)
LEMMA PrintLineKeeps ==
    ASSUME W!Sizes, W!StreamInv, W!PrintLine
    PROVE  W!StreamInv'
<1>1. MaxLines \in Nat \ {0}
    BY DEF W!Sizes
<1>2. PICK p \in Nat : p = printed
    BY DEF W!StreamInv
<1>3. /\ state = "running" /\ printed' = p + 1 /\ lines' = W!Window(Append(lines, p + 1), MaxLines)
      /\ UNCHANGED <<state, lastLine, lastState, sent>>
    BY <1>2 DEF W!PrintLine, W!stream
<1>4. PICK k \in Nat : k = W!Smaller(p, MaxLines)
    BY <1>1 DEF W!Smaller
<1>5. PICK a \in Int, c \in Int : a = p - k + 1 /\ c = p + 1
    OBVIOUS
<1>6. lines = W!Numbers(a, p)
    BY <1>2, <1>4, <1>5 DEF W!StreamInv
<1>7. p \in Int /\ p >= a - 1 /\ c >= a - 1
    BY <1>5
<1>8. Append(lines, c) = W!Numbers(a, c)
    BY <1>5, <1>6, <1>7, RunAppend
<1>9. PICK f \in Int : f = IF c - a + 1 <= MaxLines THEN a ELSE c - MaxLines + 1
    <2>1. (IF c - a + 1 <= MaxLines THEN a ELSE c - MaxLines + 1) \in Int
        BY <1>1
    <2> QED
        BY <2>1, Zenon
<1>10. W!Window(W!Numbers(a, c), MaxLines) = W!Numbers(f, c)
    BY <1>1, <1>7, <1>9, RunWindow
<1>11. f = c - W!Smaller(c, MaxLines) + 1
    BY <1>1, <1>4, <1>5, <1>9 DEF W!Smaller
<1>12. lines' = W!Numbers(printed' - W!Smaller(printed', MaxLines) + 1, printed')
    BY <1>3, <1>5, <1>8, <1>10, <1>11, Zenon
<1>13. lastLine' \in 0..W!Smaller(printed', MaxLines)
    <2>1. lastLine \in 0..W!Smaller(p, MaxLines)
        BY <1>2 DEF W!StreamInv
    <2> QED
        BY <1>1, <1>3, <2>1 DEF W!Smaller
<1>14. lastLine' < MaxLines \/ printed' <= MaxLines => sent' = W!Numbers(1, lastLine')
    <2>1. lastLine < MaxLines \/ p <= MaxLines => sent = W!Numbers(1, lastLine)
        BY <1>2 DEF W!StreamInv
    <2>2. p + 1 <= MaxLines => p <= MaxLines
        BY <1>1
    <2> QED
        BY <1>3, <2>1, <2>2
<1>15. ~ lastState' \in {"succeeded", "failed"}
    BY <1>3 DEF W!StreamInv
<1>16. /\ printed' \in Nat /\ state' \in {"running", "succeeded", "failed"} /\ sent' \in Seq(Nat)
       /\ \A i \in 1..(Len(sent') - 1) : sent'[i] < sent'[i + 1]
    BY <1>3 DEF W!StreamInv
<1> QED
    BY <1>12, <1>13, <1>14, <1>15, <1>16 DEF W!StreamInv

(* A stream that has seen a final state has seen it of an ended job. *)
LEMMA EndJobKeeps ==
    ASSUME W!Sizes, W!StreamInv, W!EndJob
    PROVE  W!StreamInv'
<1>1. state = "running" /\ state' \in {"succeeded", "failed"}
    BY DEF W!EndJob
<1>2. UNCHANGED <<lines, printed, lastLine, lastState, sent>>
    BY DEF W!EndJob, W!stream
<1> QED
    BY <1>1, <1>2 DEF W!StreamInv

(* A client that goes away changes nothing of what it was sent. *)
LEMMA LeaveKeeps ==
    ASSUME W!Sizes, W!StreamInv, W!Leave
    PROVE  W!StreamInv'
<1>1. UNCHANGED <<lines, printed, state, lastLine, lastState, sent>>
    BY DEF W!Leave, W!job
<1> QED
    BY <1>1 DEF W!StreamInv

(* A round of a stream at position l, having sent s, that reads the window *)
(* of the last n of p lines; and what it has sent after it.                *)
Round(p, n, k, l, s, u) ==
    /\ k = W!Smaller(p, n) /\ l <= k
    /\ \A i \in 1..(Len(s) - 1) : s[i] < s[i + 1]
    /\ l < n \/ p <= n => s = W!Numbers(1, l)
    /\ u = s \o SubSeq(W!Numbers(p - k + 1, p), l + 1, k)

AfterRound(p, n, k, u) ==
    /\ u \in Seq(Nat)
    /\ \A i \in 1..(Len(u) - 1) : u[i] < u[i + 1]
    /\ k < n \/ p <= n => u = W!Numbers(1, k)

(* A round neither repeats nor reorders a line, and sends the missing ones. *)
LEMMA RoundSends ==
    ASSUME NEW p \in Nat, NEW n \in Nat \ {0}, NEW k \in Nat, NEW l \in Nat, NEW s \in Seq(Nat), NEW u,
           Round(p, n, k, l, s, u)
    PROVE  AfterRound(p, n, k, u)
<1>0. /\ k = W!Smaller(p, n) /\ l <= k
      /\ \A i \in 1..(Len(s) - 1) : s[i] < s[i + 1]
      /\ l < n \/ p <= n => s = W!Numbers(1, l)
      /\ u = s \o SubSeq(W!Numbers(p - k + 1, p), l + 1, k)
    BY Zenon DEF Round
<1>k. k = W!Smaller(p, n) /\ l <= k
    BY <1>0, Zenon
<1>1. k <= p /\ k <= n /\ (p <= n => k = p) /\ (p > n => k = n) /\ l <= k
    BY <1>k DEF W!Smaller
<1>2. PICK a \in Nat, m \in Nat \ {0}, f \in Nat :
        a = p - k + 1 /\ m = l + 1 /\ f = p - k + l + 1
    <2>1. p - k + 1 \in Nat /\ l + 1 \in Nat \ {0} /\ p - k + l + 1 \in Nat
        BY <1>1
    <2> QED
        BY <2>1, Zenon
<1>3. /\ p >= a - 1 /\ k <= p - a + 1 /\ m <= k + 1 /\ a + m - 1 = f /\ a + k - 1 = p
      /\ p >= f - 1 /\ p - f + 1 = k - l
    BY <1>1, <1>2
<1>i. p \in Int /\ a \in Int /\ f \in Int
    OBVIOUS
<1>4. SubSeq(W!Numbers(a, p), m, k) = W!Numbers(a + m - 1, a + k - 1)
    <2>1. PICK c \in Int, b \in Int : c = a /\ b = p
        BY <1>i
    <2>2. b >= c - 1 /\ k <= b - c + 1 /\ m <= k + 1
        BY <1>3, <2>1
    <2>3. SubSeq(W!Numbers(c, b), m, k) = W!Numbers(c + m - 1, c + k - 1)
        BY <2>2, RunPart
    <2> QED
        BY <2>1, <2>3, Zenon
<1>5. u = s \o W!Numbers(f, p)
    BY <1>0, <1>2, <1>3, <1>4, Zenon
<1>6. PICK t \in Seq(Nat) : t = W!Numbers(f, p)
    BY <1>3, <1>i, NatRuns
<1>7. Len(t) = k - l /\ \A i \in 1..(k - l) : t[i] = f + i - 1
    <2>1. Len(t) = p - f + 1 /\ \A i \in 1..(p - f + 1) : t[i] = f + i - 1
        BY <1>3, <1>i, <1>6, Runs
    <2> QED
        BY <1>3, <2>1, Zenon
<1>8. /\ u \in Seq(Nat) /\ Len(u) = Len(s) + Len(t)
      /\ \A i \in 1..(Len(s) + Len(t)) : u[i] = IF i <= Len(s) THEN s[i] ELSE t[i - Len(s)]
    BY <1>5, <1>6, ConcatProperties, Zenon
<1>9. CASE l = k
    <2>1. t = <<>>
        BY <1>7, <1>9
    <2>2. u = s
        BY <1>5, <1>6, <2>1
    <2>3. k < n \/ p <= n => u = W!Numbers(1, k)
        BY <1>0, <1>9, <2>2, Zenon
    <2> QED
        BY <1>0, <2>2, <2>3, Zenon DEF AfterRound
<1>10. CASE l < k
    <2>1. s = W!Numbers(1, l)
        <3>1. l < n
            BY <1>1, <1>10
        <3> QED
            BY <1>0, <3>1, Zenon
    <2>2. Len(s) = l /\ \A i \in 1..l : s[i] = i
        BY <2>1 DEF W!Numbers
    <2>3. Len(u) = k /\ \A i \in 1..k : u[i] = IF i <= l THEN i ELSE f + i - l - 1
        <3>1. Len(s) + Len(t) = k
            BY <1>7, <2>2
        <3>2. Len(u) = k /\ \A i \in 1..k : u[i] = IF i <= l THEN s[i] ELSE t[i - l]
            BY <1>8, <2>2, <3>1, Zenon
        <3>3. ASSUME NEW i \in 1..k
              PROVE  u[i] = IF i <= l THEN i ELSE f + i - l - 1
            <4>1. CASE i <= l
                BY <2>2, <3>2, <4>1
            <4>2. CASE i > l
                <5>1. PICK j \in 1..(k - l) : j = i - l
                    BY <4>2
                <5>2. u[i] = t[j]
                    BY <3>2, <4>2, <5>1
                <5> QED
                    BY <1>7, <4>2, <5>1, <5>2
            <4> QED
                BY <4>1, <4>2
        <3> QED
            BY <3>2, <3>3
    <2>4. f >= l + 1
        BY <1>1, <1>2
    <2>5. \A i \in 1..(Len(u) - 1) : u[i] < u[i + 1]
        BY <1>1, <2>3, <2>4
    <2>6. ASSUME k < n \/ p <= n
          PROVE  u = W!Numbers(1, k)
        <3>1. f = l + 1
            BY <1>1, <1>2, <2>6
        <3>2. \A i \in 1..k : u[i] = i
            BY <1>1, <2>3, <3>1
        <3> QED
            BY <1>8, <2>3, <3>2 DEF W!Numbers
    <2> QED
        BY <1>8, <2>5, <2>6, Zenon DEF AfterRound
<1> QED
    BY <1>1, <1>9, <1>10

(* A round sends the lines after the position, which are the next ones as   *)
(* long as the window has not slid.                                        *)
LEMMA PollKeeps ==
    ASSUME W!Sizes, W!StreamInv, W!Poll
    PROVE  W!StreamInv'
<1>1. MaxLines \in Nat \ {0}
    BY DEF W!Sizes
<1>2. PICK p \in Nat : p = printed
    BY DEF W!StreamInv
<1>3. PICK k \in Nat : k = W!Smaller(p, MaxLines)
    BY <1>1 DEF W!Smaller
<1>4. PICK l \in Nat : l = lastLine /\ l <= k
    BY <1>2, <1>3 DEF W!StreamInv
<1>5. PICK s \in Seq(Nat) : s = sent
    BY DEF W!StreamInv
<1>6. /\ \A i \in 1..(Len(s) - 1) : s[i] < s[i + 1]
      /\ l < MaxLines \/ p <= MaxLines => s = W!Numbers(1, l)
      /\ lines = W!Numbers(p - k + 1, p)
    BY <1>2, <1>3, <1>4, <1>5 DEF W!StreamInv
<1>7. Len(lines) = k
    <2>1. PICK a \in Int : a = p - k + 1 /\ p \in Int /\ p >= a - 1 /\ p - a + 1 = k
        BY <1>3
    <2> QED
        BY <1>6, <2>1, Runs
<1>8. PICK u : u = s \o SubSeq(W!Numbers(p - k + 1, p), l + 1, k)
    OBVIOUS
<1>9. /\ sent' = u /\ lastLine' = k /\ lastState' = state /\ UNCHANGED <<lines, printed, state>>
    <2>1. /\ sent' = sent \o SubSeq(lines, lastLine + 1, Len(lines))
          /\ lastLine' = IF lastLine < Len(lines) THEN Len(lines) ELSE lastLine
          /\ lastState' = state /\ UNCHANGED <<lines, printed, state>>
        BY DEF W!Poll, W!job
    <2>2. sent' = u
        BY <1>4, <1>5, <1>6, <1>7, <1>8, <2>1, Zenon
    <2>3. lastLine' = k
        BY <1>4, <1>7, <2>1
    <2> QED
        BY <2>1, <2>2, <2>3
<1>10. /\ u \in Seq(Nat) /\ \A i \in 1..(Len(u) - 1) : u[i] < u[i + 1]
       /\ k < MaxLines \/ p <= MaxLines => u = W!Numbers(1, k)
    <2>1. PICK n \in Nat \ {0} : n = MaxLines
        BY <1>1
    <2>2. Round(p, n, k, l, s, u)
        BY <1>3, <1>4, <1>6, <1>8, <2>1, Zenon DEF Round
    <2>3. AfterRound(p, n, k, u)
        BY <2>2, RoundSends
    <2> QED
        BY <2>1, <2>3, Zenon DEF AfterRound
<1> QED
    BY <1>2, <1>3, <1>9, <1>10 DEF W!StreamInv

(* What StreamFaithful asks is part of the invariant. *)
LEMMA StreamInvFaithful ==
    ASSUME W!Sizes, W!StreamInv
    PROVE  W!StreamFaithful
BY DEF W!Sizes, W!StreamInv, W!StreamFaithful, W!Smaller

(* appendOutput keeps the newest bytes and moves the first cursor. *)
LEMMA CaptureKeeps ==
    ASSUME W!Sizes, W!TerminalInv, NEW n \in 1..2, W!Capture(n)
    PROVE  W!TerminalInv'
<1>1. PICK limit \in Nat \ {0} : limit = BufferLimit
    BY DEF W!Sizes
<1>2. PICK b \in Nat, e \in Nat : b = baseCursor /\ e = endCursor
    BY DEF W!TerminalInv
<1>3. b <= e /\ output = W!Numbers(b + 1, e)
    BY <1>2 DEF W!TerminalInv
<1>4. PICK all : all = output \o [i \in 1..n |-> e + i]
    OBVIOUS
<1>5. PICK drop : drop = IF Len(all) > limit THEN Len(all) - limit ELSE 0
    OBVIOUS
<1>6. /\ endCursor' = e + n /\ output' = SubSeq(all, drop + 1, Len(all)) /\ baseCursor' = b + drop
    BY <1>1, <1>2, <1>4, <1>5, Zenon DEF W!Capture
<1>7. UNCHANGED <<cursor, seen, holes>>
    BY DEF W!Capture, W!poller
<1>8. PICK a \in Int, c \in Int, d \in Int : a = b + 1 /\ c = e /\ d = e + n
    OBVIOUS
<1>9. all = W!Numbers(a, d)
    <2>1. [i \in 1..n |-> e + i] = W!Numbers(c + 1, d)
        BY <1>8 DEF W!Numbers
    <2>2. c >= a - 1 /\ d >= c
        BY <1>3, <1>8
    <2>3. W!Numbers(a, c) \o W!Numbers(c + 1, d) = W!Numbers(a, d)
        BY <2>2, RunsJoin
    <2> QED
        BY <1>3, <1>4, <1>8, <2>1, <2>3, Zenon
<1>10. d >= a - 1
    BY <1>3, <1>8
<1>11. PICK l \in Nat : l = Len(all) /\ l = d - a + 1
    <2>1. Len(all) = d - a + 1
        BY <1>9, <1>10, Runs
    <2>2. d - a + 1 \in Nat
        BY <1>10
    <2> QED
        BY <2>1, <2>2
<1>12. drop \in Nat /\ drop < l
    BY <1>3, <1>5, <1>8, <1>11
<1>13. PICK m \in Nat \ {0} : m = drop + 1
    BY <1>12
<1>14. output' = W!Numbers(a + m - 1, a + l - 1)
    <2>1. l <= d - a + 1 /\ m <= l + 1
        BY <1>11, <1>12, <1>13
    <2>2. SubSeq(W!Numbers(a, d), m, l) = W!Numbers(a + m - 1, a + l - 1)
        BY <1>10, <2>1, RunPart
    <2> QED
        BY <1>6, <1>9, <1>11, <1>13, <2>2, Zenon
<1>15. /\ a + m - 1 = baseCursor' + 1 /\ a + l - 1 = endCursor'
       /\ baseCursor' \in Nat /\ endCursor' \in Nat /\ baseCursor' < endCursor'
    BY <1>3, <1>6, <1>8, <1>11, <1>12, <1>13
<1>16. output' = W!Numbers(baseCursor' + 1, endCursor')
    BY <1>14, <1>15, Zenon
<1>17. cursor' \in Nat /\ seen' \in Seq(Nat)
    BY <1>7 DEF W!TerminalInv
<1>18. seen' # <<>> => seen'[Len(seen')] = cursor' /\ cursor' <= endCursor'
    <2>1. seen # <<>> => seen[Len(seen)] = cursor /\ cursor <= e /\ cursor \in Nat
        BY <1>2 DEF W!TerminalInv
    <2> QED
        BY <1>6, <1>7, <2>1
<1>19. W!NoSilentGap'
    BY <1>7, Zenon DEF W!TerminalInv, W!NoSilentGap
<1> QED
    BY <1>15, <1>16, <1>17, <1>18, <1>19 DEF W!TerminalInv

(* A shell that ends leaves its output to be read. *)
LEMMA ShellEndsKeeps ==
    ASSUME W!Sizes, W!TerminalInv, W!ShellEnds
    PROVE  W!TerminalInv'
<1>1. UNCHANGED <<output, baseCursor, endCursor, cursor, seen, holes>>
    BY DEF W!ShellEnds, W!poller
<1> QED
    BY <1>1 DEF W!TerminalInv, W!NoSilentGap

(* A page loaded again has nothing yet, whatever cursor it remembers. *)
LEMMA AttachKeeps ==
    ASSUME W!Sizes, W!TerminalInv, NEW c \in 0..MaxBytes, W!Attach(c)
    PROVE  W!TerminalInv'
<1>1. cursor' = c /\ seen' = <<>> /\ holes' = {} /\ UNCHANGED <<output, baseCursor, endCursor>>
    BY DEF W!Attach, W!terminal
<1>2. cursor' \in Nat /\ seen' \in Seq(Nat)
    BY <1>1 DEF W!Sizes
<1>3. W!NoSilentGap'
    BY <1>1 DEF W!NoSilentGap
<1> QED
    BY <1>1, <1>2, <1>3 DEF W!TerminalInv

(* What one read adds to what a poller got: the next bytes of the buffer.  *)
Joined(s, f, e, u) == u = s \o W!Numbers(f, e)

AfterJoin(s, f, e, u) ==
    /\ u \in Seq(Nat) /\ Len(u) = Len(s) + e - f + 1
    /\ \A i \in 1..Len(s) : u[i] = s[i]
    /\ \A i \in (Len(s) + 1)..(Len(s) + e - f + 1) : u[i] = f + i - Len(s) - 1

(* Such a read leaves what was got in place and puts the bytes behind it. *)
LEMMA ReadJoins ==
    ASSUME NEW s \in Seq(Nat), NEW f \in Nat, NEW e \in Nat, e >= f - 1, NEW u, Joined(s, f, e, u)
    PROVE  AfterJoin(s, f, e, u)
<1>1. PICK t \in Seq(Nat) : t = W!Numbers(f, e)
    BY NatRuns
<1>2. u = s \o t
    BY <1>1, Zenon DEF Joined
<1>3. /\ u \in Seq(Nat) /\ Len(u) = Len(s) + Len(t)
      /\ \A i \in 1..(Len(s) + Len(t)) : u[i] = IF i <= Len(s) THEN s[i] ELSE t[i - Len(s)]
    BY <1>2, ConcatProperties, Zenon
<1>4. PICK l \in Nat, k \in Nat : l = Len(s) /\ k = e - f + 1
    OBVIOUS
<1>5. Len(t) = k /\ \A i \in 1..k : t[i] = f + i - 1
    <2>1. f \in Int /\ e \in Int
        OBVIOUS
    <2>2. Len(t) = e - f + 1 /\ \A i \in 1..(e - f + 1) : t[i] = f + i - 1
        BY <1>1, <2>1, Runs
    <2> QED
        BY <1>4, <2>2, Zenon
<1>6. \A i \in 1..(l + k) : u[i] = IF i <= l THEN s[i] ELSE t[i - l]
    BY <1>3, <1>4, <1>5, Zenon
<1>7. \A i \in 1..l : u[i] = s[i]
    BY <1>6
<1>8. ASSUME NEW i \in (l + 1)..(l + k)
      PROVE  u[i] = f + i - l - 1
    <2>1. PICK j \in 1..k : j = i - l
        BY <1>8
    <2>2. i \in 1..(l + k) /\ ~(i <= l)
        BY <1>8
    <2>3. u[i] = t[j]
        BY <1>6, <2>1, <2>2, Zenon
    <2> QED
        BY <1>5, <2>1, <2>3
<1>9. l + k = Len(s) + e - f + 1
    BY <1>4
<1>10. Len(u) = Len(s) + e - f + 1
    BY <1>3, <1>4, <1>5, <1>9
<1> QED
    BY <1>3, <1>4, <1>7, <1>8, <1>9, <1>10 DEF AfterJoin

(* A read continues where the last one ended, or says that it cannot. *)
LEMMA ReadOutputKeeps ==
    ASSUME W!Sizes, W!TerminalInv, W!ReadOutput
    PROVE  W!TerminalInv'
<1>1. PICK limit \in Nat \ {0} : limit = ReadLimit
    BY DEF W!Sizes
<1>2. PICK b \in Nat, e \in Nat, c \in Nat : b = baseCursor /\ e = endCursor /\ c = cursor
    BY DEF W!TerminalInv
<1>3. (b < e \/ (b = 0 /\ e = 0)) /\ output = W!Numbers(b + 1, e)
    BY <1>2 DEF W!TerminalInv
<1>4. PICK d \in Nat : d = W!Clamp(c) /\ b <= d /\ d <= e /\ (c < b => d = b)
                       /\ (b <= c /\ c <= e => d = c) /\ (c > e => d = e)
    <2>1. W!Clamp(c) = IF c < b THEN b ELSE IF c > e THEN e ELSE c
        BY <1>2, Zenon DEF W!Clamp
    <2> QED
        BY <1>3, <2>1
<1>5. Len(output) = e - b
    <2>1. PICK a \in Int, z \in Int : a = b + 1 /\ z = e /\ z >= a - 1 /\ z - a + 1 = e - b
        BY <1>3
    <2> QED
        BY <1>3, <2>1, Runs
<1>6. PICK v \in Nat : v = W!Available(c) /\ v <= e - d /\ (v = 0 => d = e)
    <2>1. PICK left \in Nat : left = e - d /\ left = Len(output) - (W!Clamp(c) - baseCursor)
        BY <1>2, <1>4, <1>5
    <2>2. W!Available(c) = IF left < 0 THEN 0 ELSE IF left > limit THEN limit ELSE left
        BY <1>1, <2>1, Zenon DEF W!Available
    <2> QED
        BY <2>1, <2>2
<1>7. W!Data(c) = W!Numbers(d + 1, d + v)
    <2>1. PICK a \in Int, z \in Int, m \in Nat \ {0}, k \in Nat :
            a = b + 1 /\ z = e /\ m = d - b + 1 /\ k = d - b + v
        <3>1. b + 1 \in Int /\ e \in Int /\ d - b + 1 \in Nat \ {0} /\ d - b + v \in Nat
            BY <1>4
        <3> QED
            BY <3>1, Zenon
    <2>2. z >= a - 1 /\ k <= z - a + 1 /\ m <= k + 1
        BY <1>3, <1>4, <1>6, <2>1
    <2>3. SubSeq(W!Numbers(a, z), m, k) = W!Numbers(a + m - 1, a + k - 1)
        BY <2>2, RunPart
    <2>4. W!Data(c) = SubSeq(W!Numbers(a, z), m, k)
        BY <1>2, <1>3, <1>4, <1>6, <2>1, Zenon DEF W!Data
    <2>5. a + m - 1 = d + 1 /\ a + k - 1 = d + v
        BY <1>4, <2>1
    <2> QED
        BY <2>3, <2>4, <2>5, Zenon
<1>8. PICK s \in Seq(Nat) : s = seen
    BY DEF W!TerminalInv
<1>9. PICK l \in Nat : l = Len(s)
    BY <1>8
<1>10. PICK u : u = seen'
    OBVIOUS
<1>f. PICK f \in Nat, g \in Nat : f = d + 1 /\ g = d + v
    <2>1. d + 1 \in Nat /\ d + v \in Nat
        OBVIOUS
    <2> QED
        BY <2>1, Zenon
<1>11. /\ u = s \o W!Numbers(f, g) /\ cursor' = d + v
       /\ holes' = IF c < b THEN holes \cup {l} ELSE holes
       /\ UNCHANGED <<output, baseCursor, endCursor>>
    BY <1>2, <1>4, <1>6, <1>7, <1>8, <1>9, <1>10, <1>f, Zenon DEF W!ReadOutput, W!Dropped, W!terminal
<1>12. /\ u \in Seq(Nat) /\ Len(u) = l + v
       /\ \A i \in 1..l : u[i] = s[i]
       /\ \A i \in (l + 1)..(l + v) : u[i] = f + i - l - 1
    <2>1. Joined(s, f, g, u)
        BY <1>11, Zenon DEF Joined
    <2>2. g >= f - 1
        BY <1>f
    <2>3. AfterJoin(s, f, g, u)
        BY <2>1, <2>2, ReadJoins
    <2>4. Len(s) + g - f + 1 = l + v
        BY <1>9, <1>f
    <2> QED
        BY <1>9, <2>3, <2>4, Zenon DEF AfterJoin
<1>13. /\ s # <<>> => s[l] = c /\ c <= e
       /\ \A i \in 1..(l - 1) : s[i + 1] = s[i] + 1 \/ i \in holes
    BY <1>2, <1>8, <1>9, Zenon DEF W!TerminalInv, W!NoSilentGap
<1>14. l > 0 <=> s # <<>>
    BY <1>8, <1>9
<1>15. u # <<>> => u[Len(u)] = cursor' /\ cursor' <= e
    <2>1. CASE v = 0
        <3>1. SUFFICES ASSUME u # <<>> PROVE u[Len(u)] = cursor' /\ cursor' <= e
            OBVIOUS
        <3>2. Len(u) = l /\ l > 0
            BY <1>9, <1>12, <2>1, <3>1
        <3>3. c = s[l] /\ c <= e /\ u[l] = s[l]
            BY <1>12, <1>13, <1>14, <3>2
        <3>4. d = e /\ d = c
            BY <1>3, <1>4, <1>6, <2>1, <3>3
        <3>5. cursor' = d
            BY <1>11, <2>1
        <3> QED
            BY <3>2, <3>3, <3>4, <3>5
    <2>2. CASE v > 0
        <3>1. l + v \in (l + 1)..(l + v)
            BY <2>2
        <3>2. u[l + v] = f + (l + v) - l - 1
            BY <1>12, <3>1, Zenon
        <3>3. Len(u) = l + v
            BY <1>12, Zenon
        <3>4. u[Len(u)] = f + (l + v) - l - 1
            BY <3>2, <3>3, Zenon
        <3>5. cursor' = d + v
            BY <1>11
        <3> QED
            <4>1. u[Len(u)] = d + v
                BY <1>f, <3>4
            <4>2. d + v <= e
                BY <1>4, <1>6
            <4> QED
                BY <3>5, <4>1, <4>2
    <2> QED
        BY <2>1, <2>2
<1>16. ASSUME NEW i \in 1..(Len(u) - 1)
       PROVE  u[i + 1] = u[i] + 1 \/ i \in holes'
    <2>0. i \in Nat /\ i >= 1 /\ i + 1 <= l + v
        BY <1>12, <1>16
    <2>1. CASE i < l
        <3>1. i \in 1..(l - 1) /\ i \in 1..l /\ i + 1 \in 1..l
            BY <2>0, <2>1
        <3>2. (s[i + 1] = s[i] + 1 \/ i \in holes) /\ u[i] = s[i] /\ u[i + 1] = s[i + 1]
            BY <1>12, <1>13, <3>1, Zenon
        <3>3. i \in holes => i \in holes'
            BY <1>11, Zenon
        <3> QED
            BY <3>2, <3>3, Zenon
    <2>2. CASE i = l
        <3>1. i \in 1..l /\ i + 1 \in (l + 1)..(l + v) /\ l > 0
            BY <2>0, <2>2
        <3>2. u[i] = s[i] /\ u[i + 1] = f + (i + 1) - l - 1
            BY <1>12, <3>1, Zenon
        <3>3. u[i] = c /\ c <= e
            BY <1>13, <1>14, <2>2, <3>1, <3>2, Zenon
        <3>4. CASE c < b
            BY <1>11, <2>2, <3>4, Zenon
        <3>5. CASE c >= b
            <4>1. d = c
                BY <1>4, <3>3, <3>5
            <4>2. u[i + 1] = d + 1
                BY <1>f, <2>2, <3>2
            <4> QED
                BY <3>3, <4>1, <4>2
        <3> QED
            BY <3>4, <3>5
    <2>3. CASE i > l
        <3>1. i \in (l + 1)..(l + v) /\ i + 1 \in (l + 1)..(l + v)
            BY <2>0, <2>3
        <3>2. u[i] = f + i - l - 1 /\ u[i + 1] = f + (i + 1) - l - 1
            BY <1>12, <3>1, Zenon
        <3> QED
            BY <2>0, <3>2
    <2> QED
        BY <2>0, <2>1, <2>2, <2>3
<1>17. W!NoSilentGap'
    BY <1>10, <1>16, Zenon DEF W!NoSilentGap
<1>18. /\ baseCursor' \in Nat /\ endCursor' \in Nat
       /\ baseCursor' < endCursor' \/ (baseCursor' = 0 /\ endCursor' = 0)
       /\ output' = W!Numbers(baseCursor' + 1, endCursor')
    BY <1>2, <1>3, <1>11
<1>19. cursor' \in Nat /\ seen' \in Seq(Nat)
    BY <1>10, <1>11, <1>12
<1>20. seen' # <<>> => seen'[Len(seen')] = cursor' /\ cursor' <= endCursor'
    BY <1>2, <1>10, <1>11, <1>15, Zenon
<1> QED
    BY <1>17, <1>18, <1>19, <1>20, Zenon DEF W!TerminalInv

(* The windows start empty. *)
LEMMA WindowsInit ==
    ASSUME W!Sizes, W!Init
    PROVE  W!WindowsInv
<1>1. W!Numbers(1, 0) = <<>>
    BY DEF W!Numbers
<1>2. W!RingInv
    <2>1. Capacity \in Nat \ {0}
        BY DEF W!Sizes
    <2>2. items = [i \in 0..(Capacity - 1) |-> 0] /\ next = 0 /\ full = FALSE /\ added = 0
        BY DEF W!Init
    <2>3. ~full /\ full \in BOOLEAN
        BY <2>2, Zenon
    <2>4. added \in Nat /\ next \in 0..(Capacity - 1) /\ next = added
        BY <2>1, <2>2
    <2>5. items \in [0..(Capacity - 1) -> Nat]
        BY <2>2
    <2>6. \A i \in 0..(Capacity - 1) : ~(i < next)
        BY <2>1, <2>2
    <2> QED
        BY <2>3, <2>4, <2>5, <2>6, Zenon DEF W!RingInv
<1>3. W!StreamInv
    <2>1. lines = <<>> /\ printed = 0 /\ state = "running" /\ lastLine = 0 /\ lastState = "" /\ sent = <<>>
        BY DEF W!Init
    <2>2. W!Smaller(0, MaxLines) = 0
        <3>1. MaxLines \in Nat \ {0}
            BY DEF W!Sizes
        <3> QED
            BY <3>1 DEF W!Smaller
    <2>3. lines = W!Numbers(printed - W!Smaller(printed, MaxLines) + 1, printed)
        <3>1. 0 - 0 + 1 = 1
            OBVIOUS
        <3> QED
            BY <1>1, <2>1, <2>2, <3>1, Zenon
    <2>4. lastLine \in 0..W!Smaller(printed, MaxLines) /\ sent = W!Numbers(1, lastLine)
        <3>1. 0 \in 0..0
            OBVIOUS
        <3> QED
            BY <1>1, <2>1, <2>2, <3>1, Zenon
    <2>5. sent \in Seq(Nat) /\ \A i \in 1..(Len(sent) - 1) : sent[i] < sent[i + 1]
        <3>1. sent = <<>>
            BY <2>1, Zenon
        <3>2. sent \in Seq(Nat) /\ Len(sent) = 0
            BY <3>1
        <3>3. \A i \in 1..(0 - 1) : FALSE
            OBVIOUS
        <3> QED
            BY <3>2, <3>3, Zenon
    <2>6. printed \in Nat /\ state \in {"running", "succeeded", "failed"}
          /\ ~ lastState \in {"succeeded", "failed"}
        BY <2>1
    <2> QED
        BY <2>3, <2>4, <2>5, <2>6, Zenon DEF W!StreamInv
<1>4. W!TerminalInv
    <2>1. output = <<>> /\ baseCursor = 0 /\ endCursor = 0 /\ cursor = 0 /\ seen = <<>>
        BY DEF W!Init
    <2>2. output = W!Numbers(baseCursor + 1, endCursor)
        BY <1>1, <2>1
    <2>3. W!NoSilentGap
        BY <2>1 DEF W!NoSilentGap
    <2> QED
        BY <2>1, <2>2, <2>3 DEF W!TerminalInv
<1> QED
    BY <1>2, <1>3, <1>4 DEF W!WindowsInv

(* No operation of one window touches another. *)
LEMMA RingUntouched ==
    ASSUME W!RingInv, UNCHANGED W!ring
    PROVE  W!RingInv'
BY DEF W!RingInv, W!ring

(* The same of a job and its stream. *)
LEMMA StreamUntouched ==
    ASSUME W!StreamInv, UNCHANGED <<lines, printed, state, lastLine, lastState, sent>>
    PROVE  W!StreamInv'
BY DEF W!StreamInv

(* The same of a terminal and its poller. *)
LEMMA TerminalUntouched ==
    ASSUME W!TerminalInv, UNCHANGED <<output, baseCursor, endCursor, cursor, seen, holes>>
    PROVE  W!TerminalInv'
BY DEF W!TerminalInv, W!NoSilentGap

(* Every step keeps the invariant of every window. *)
LEMMA WindowsStep ==
    ASSUME W!Sizes, W!WindowsInv, [W!Next]_W!vars
    PROVE  W!WindowsInv'
<1>1. W!RingInv /\ W!StreamInv /\ W!TerminalInv
    BY DEF W!WindowsInv
<1>2. W!RingInv'
    <2>1. CASE W!Add
        BY <1>1, <2>1, AddKeeps
    <2>2. CASE ~W!Add
        <3>1. UNCHANGED W!ring
            BY <2>2 DEF W!Next, W!vars, W!ring, W!PrintLine, W!EndJob, W!Poll, W!Leave, W!Capture,
                W!ShellEnds, W!ReadOutput, W!Attach
        <3> QED
            BY <1>1, <3>1, RingUntouched
    <2> QED
        BY <2>1, <2>2
<1>3. W!StreamInv'
    <2>1. CASE W!PrintLine
        BY <1>1, <2>1, PrintLineKeeps
    <2>2. CASE W!EndJob
        BY <1>1, <2>2, EndJobKeeps
    <2>3. CASE W!Poll
        BY <1>1, <2>3, PollKeeps
    <2>4. CASE W!Leave
        BY <1>1, <2>4, LeaveKeeps
    <2>5. CASE ~(W!PrintLine \/ W!EndJob \/ W!Poll \/ W!Leave)
        <3>1. UNCHANGED <<lines, printed, state, lastLine, lastState, sent>>
            BY <2>5 DEF W!Next, W!vars, W!job, W!stream, W!Add, W!Capture, W!ShellEnds,
                W!ReadOutput, W!Attach
        <3> QED
            BY <1>1, <3>1, StreamUntouched
    <2> QED
        BY <2>1, <2>2, <2>3, <2>4, <2>5
<1>4. W!TerminalInv'
    <2>1. ASSUME NEW n \in 1..2, W!Capture(n)
          PROVE  W!TerminalInv'
        BY <1>1, <2>1, CaptureKeeps
    <2>2. CASE W!ShellEnds
        BY <1>1, <2>2, ShellEndsKeeps
    <2>3. CASE W!ReadOutput
        BY <1>1, <2>3, ReadOutputKeeps
    <2>4. ASSUME NEW c \in 0..MaxBytes, W!Attach(c)
          PROVE  W!TerminalInv'
        BY <1>1, <2>4, AttachKeeps
    <2>5. CASE W!Add \/ W!PrintLine \/ W!EndJob \/ W!Poll \/ W!Leave \/ UNCHANGED W!vars
        <3>1. UNCHANGED <<output, baseCursor, endCursor, cursor, seen, holes>>
            BY <2>5 DEF W!vars, W!terminal, W!poller, W!Add, W!PrintLine, W!EndJob, W!Poll, W!Leave
        <3> QED
            BY <1>1, <3>1, TerminalUntouched
    <2> QED
        BY <2>1, <2>2, <2>3, <2>4, <2>5 DEF W!Next
<1> QED
    BY <1>2, <1>3, <1>4 DEF W!WindowsInv

(* What the event ring, the lines of a job and the buffer of a terminal    *)
(* hold, and what their readers have got, for every capacity, limit and    *)
(* amount of output and however reads and writes interleave.               *)
THEOREM WindowsInvariant ==
    ASSUME W!Sizes
    PROVE  W!Spec => []W!WindowsInv
<1>1. W!Init => W!WindowsInv
    BY WindowsInit
<1>2. W!WindowsInv /\ [W!Next]_W!vars => W!WindowsInv'
    BY WindowsStep
<1> QED
    BY <1>1, <1>2, PTL DEF W!Spec

(* Ring.Snapshot returns the newest events in order, however often the     *)
(* ring has wrapped around and whatever its capacity and the limit.        *)
THEOREM SnapshotCorrect ==
    ASSUME W!Sizes
    PROVE  W!Spec => []W!SnapshotNewest
<1>1. W!WindowsInv => W!SnapshotNewest
    BY RingIsNewest DEF W!WindowsInv
<1> QED
    BY <1>1, WindowsInvariant, PTL

(* streamAppActionEvents never repeats or reorders a line; it has sent all *)
(* lines when it reports the end of a job that printed no more than        *)
(* appActionMaxLines of them, whenever it polled.                          *)
THEOREM StreamCorrect ==
    ASSUME W!Sizes
    PROVE  W!Spec => []W!StreamFaithful
<1>1. W!WindowsInv => W!StreamFaithful
    BY StreamInvFaithful DEF W!WindowsInv
<1> QED
    BY <1>1, WindowsInvariant, PTL

(* readOutput never hands a poller bytes that do not follow the ones       *)
(* before without having set its dropped flag there, whatever was          *)
(* discarded from the buffer between two polls.                            *)
THEOREM PollerCorrect ==
    ASSUME W!Sizes
    PROVE  W!Spec => []W!NoSilentGap
<1>1. W!WindowsInv => W!NoSilentGap
    BY DEF W!WindowsInv, W!TerminalInv
<1> QED
    BY <1>1, WindowsInvariant, PTL
====
