---- MODULE OutputWindows ----
(***************************************************************************)
(* The bounded windows RouterForge keeps of unbounded output, and how each *)
(* is read:                                                                *)
(*  - internal/platform/events: the ring of the last events, read by       *)
(*    Snapshot and, newest first and filtered, by Query;                   *)
(*  - components/core/app_center_jobs.go: the last lines of a job, read by *)
(*    an event stream that polls the job until it has ended;               *)
(*  - components/control/terminal_sessions_linux.go: the last bytes of a   *)
(*    terminal, read by polling with a cursor.                             *)
(*                                                                         *)
(* An event, a line or a byte is the number of its kind produced so far,   *)
(* so that what a reader missed can be told from what it got.  Whether an  *)
(* event matches the filter of a query is its parity.                      *)
(***************************************************************************)
EXTENDS Integers, Sequences, SequencesExt

CONSTANTS
    Capacity,     \* events.NewRing
    MaxLines,     \* appActionMaxLines
    BufferLimit,  \* adminTerminalSessionBufferLimit
    ReadLimit,    \* adminTerminalSessionReadLimit
    MaxEvents, MaxOutput, MaxBytes  \* bounds on what is produced

Sizes ==
    /\ Capacity \in Nat \ {0} /\ MaxLines \in Nat \ {0}
    /\ BufferLimit \in Nat \ {0} /\ ReadLimit \in Nat \ {0}
    /\ MaxEvents \in Nat /\ MaxOutput \in Nat /\ MaxBytes \in Nat

ASSUME WindowAssumption == Sizes

VARIABLES
    items, next, full, added,              \* Ring; the number of events added
    lines, printed, state,                 \* appActionJob; the lines printed
    lastLine, lastState, sent, streaming,  \* streamAppActionEvents; the lines sent
    output, baseCursor, endCursor, closed, \* adminTerminalSession
    cursor, seen, holes                    \* a poller: what it got, and where it was
                                           \* told that output was dropped

ring     == <<items, next, full, added>>
job      == <<lines, printed, state>>
stream   == <<lastLine, lastState, sent, streaming>>
terminal == <<output, baseCursor, endCursor, closed>>
poller   == <<cursor, seen, holes>>
vars     == <<items, next, full, added, lines, printed, state, lastLine, lastState, sent,
              streaming, output, baseCursor, endCursor, closed, cursor, seen, holes>>

Init ==
    /\ items = [i \in 0..(Capacity - 1) |-> 0] /\ next = 0 /\ full = FALSE /\ added = 0
    /\ lines = <<>> /\ printed = 0 /\ state = "running"
    /\ lastLine = 0 /\ lastState = "" /\ sent = <<>> /\ streaming = TRUE
    /\ output = <<>> /\ baseCursor = 0 /\ endCursor = 0 /\ closed = FALSE
    /\ cursor = 0 /\ seen = <<>> /\ holes = {}

---------------------------------------------------------------------------
(* The event ring.                                                         *)

(* Mutant: the ring is never full. *)
AddForgetful ==
    /\ added < MaxEvents
    /\ added' = added + 1
    /\ items' = [items EXCEPT ![next] = added']
    /\ next' = (next + 1) % Capacity
    /\ UNCHANGED full
    /\ UNCHANGED <<job, stream, terminal, poller>>

Add ==
    /\ added < MaxEvents
    /\ added' = added + 1
    /\ items' = [items EXCEPT ![next] = added']
    /\ next' = (next + 1) % Capacity
    /\ full' = (full \/ next' = 0)
    /\ UNCHANGED <<job, stream, terminal, poller>>

Count == IF full THEN Capacity ELSE next

Snapshot(limit) ==
    LET size  == IF limit <= 0 \/ limit > Count THEN Count ELSE limit
        start == IF full THEN next ELSE 0
    IN [i \in 1..size |-> items[(start + Count - size + i - 1) % Capacity]]

(* Query: newest first, the ones that match, until there are enough. *)
Query(limit, matching) ==
    LET all  == Snapshot(0)
        Matches(e) == e \in matching
        size == IF limit <= 0 \/ limit > Len(all) THEN Len(all) ELSE limit
        hits == SelectSeq(Reverse(all), Matches)
    IN SubSeq(hits, 1, IF size < Len(hits) THEN size ELSE Len(hits))

---------------------------------------------------------------------------
(* The lines of a job and the stream of them.                              *)

Window(s, n) == IF Len(s) <= n THEN s ELSE SubSeq(s, Len(s) - n + 1, Len(s))

(* appendLine. *)
PrintLine ==
    /\ state = "running" /\ printed < MaxOutput
    /\ printed' = printed + 1
    /\ lines' = Window(Append(lines, printed'), MaxLines)
    /\ UNCHANGED <<state, ring, stream, terminal, poller>>

EndJob ==
    /\ state = "running"
    /\ state' \in {"succeeded", "failed"}
    /\ UNCHANGED <<lines, printed, ring, stream, terminal, poller>>

(* Mutant: the state is looked at before the lines. *)
PollLate ==
    /\ streaming
    /\ IF state # "running"
       THEN streaming' = FALSE /\ lastState' = state /\ UNCHANGED <<sent, lastLine>>
       ELSE /\ sent' = sent \o SubSeq(lines, lastLine + 1, Len(lines))
            /\ lastLine' = Len(lines)
            /\ lastState' = state
            /\ UNCHANGED streaming
    /\ UNCHANGED <<ring, job, terminal, poller>>

(* One round of the stream: a snapshot of the job, the lines after the     *)
(* lastLine-th of the window, the state when it has changed; the stream    *)
(* ends after a terminal state.                                            *)
Poll ==
    /\ streaming
    /\ sent' = sent \o SubSeq(lines, lastLine + 1, Len(lines))
    /\ lastLine' = IF lastLine < Len(lines) THEN Len(lines) ELSE lastLine
    /\ lastState' = state
    /\ streaming' = (state = "running")
    /\ UNCHANGED <<ring, job, terminal, poller>>

(* The client goes away. *)
Leave ==
    /\ streaming
    /\ streaming' = FALSE
    /\ UNCHANGED <<lastLine, lastState, sent, ring, job, terminal, poller>>

---------------------------------------------------------------------------
(* The terminal.                                                           *)

(* appendOutput of n bytes.  capture reads on until the terminal itself    *)
(* fails, whether or not wait has seen the shell end.                      *)
Capture(n) ==
    /\ endCursor + n <= MaxBytes
    /\ endCursor' = endCursor + n
    /\ LET all  == output \o [i \in 1..n |-> endCursor + i]
           drop == IF Len(all) > BufferLimit THEN Len(all) - BufferLimit ELSE 0
       IN output' = SubSeq(all, drop + 1, Len(all)) /\ baseCursor' = baseCursor + drop
    /\ UNCHANGED <<closed, ring, job, stream, poller>>

ShellEnds ==
    /\ ~closed
    /\ closed' = TRUE
    /\ UNCHANGED <<output, baseCursor, endCursor, ring, job, stream, poller>>

Clamp(c) == IF c < baseCursor THEN baseCursor ELSE IF c > endCursor THEN endCursor ELSE c

(* What readOutput returns for a cursor. *)
Available(c) ==
    LET left == Len(output) - (Clamp(c) - baseCursor)
    IN IF left < 0 THEN 0 ELSE IF left > ReadLimit THEN ReadLimit ELSE left
Data(c)    == SubSeq(output, Clamp(c) - baseCursor + 1, Clamp(c) - baseCursor + Available(c))
Dropped(c) == c < baseCursor

(* Mutant: output that left the buffer is skipped without a word. *)
ReadQuietly ==
    /\ seen' = seen \o Data(cursor)
    /\ cursor' = Clamp(cursor) + Available(cursor)
    /\ UNCHANGED <<holes, ring, job, stream, terminal>>

ReadOutput ==
    /\ seen' = seen \o Data(cursor)
    /\ holes' = IF Dropped(cursor) THEN holes \cup {Len(seen)} ELSE holes
    /\ cursor' = Clamp(cursor) + Available(cursor)
    /\ UNCHANGED <<ring, job, stream, terminal>>

(* A page that is loaded again, with the cursor it remembers. *)
Attach(c) ==
    /\ cursor' = c /\ seen' = <<>> /\ holes' = {}
    /\ UNCHANGED <<ring, job, stream, terminal>>

Next ==
    \/ Add
    \/ PrintLine \/ EndJob \/ Poll \/ Leave
    \/ \E n \in 1..2 : Capture(n)
    \/ ShellEnds \/ ReadOutput
    \/ \E c \in 0..MaxBytes : Attach(c)

Spec == Init /\ [][Next]_vars

---------------------------------------------------------------------------
(* Properties.                                                             *)

Numbers(a, b) == [i \in 1..(b - a + 1) |-> a + i - 1]
Newest(n)     == Numbers(added - n + 1, added)
Smaller(a, b) == IF a < b THEN a ELSE b

(* Snapshot returns the newest events, oldest first and as many as asked   *)
(* for and kept, whatever the position of the ring.                        *)
SnapshotNewest ==
    LET kept == Newest(Smaller(added, Capacity))
    IN \A limit \in 0..(Capacity + 1) :
        Snapshot(limit) = IF limit = 0 THEN kept ELSE Window(kept, limit)

(* Whatever the position of the ring, Snapshot returns the newest events,  *)
(* and Query the newest ones that match, newest first.                     *)
RingKeepsNewest ==
    /\ SnapshotNewest
    /\ \A limit \in 0..(Capacity + 1) :
        LET Even(e) == e % 2 = 0
            evens == SelectSeq(Newest(Smaller(added, Capacity)), Even)
            even == {e \in 1..added : Even(e)}
        IN Query(limit, even) =
                Reverse(Window(evens, IF limit = 0 THEN Capacity ELSE limit))

(* The stream never repeats or reorders a line; it sends them all, before  *)
(* it ends with the job, as long as the job prints no more lines than the  *)
(* window holds.  (Longer jobs lose lines: the position counts lines sent, *)
(* the window slides.)                                                     *)
StreamFaithful ==
    /\ \A i \in 1..(Len(sent) - 1) : sent[i] < sent[i + 1]
    /\ printed <= MaxLines =>
        /\ sent = Numbers(1, lastLine)
        /\ lastState \in {"succeeded", "failed"} => lastLine = printed

(* A poller gets every byte of the terminal in order and once; where bytes *)
(* are missing it was told so.                                             *)
NoSilentGap ==
    \A i \in 1..(Len(seen) - 1) : seen[i + 1] = seen[i] + 1 \/ i \in holes

---------------------------------------------------------------------------
(* The inductive invariants, one for each window.                          *)

(* The slot before next holds the last event, and every slot of a ring     *)
(* that has wrapped around one more than the slot before it.               *)
RingInv ==
    /\ added \in Nat /\ next \in 0..(Capacity - 1) /\ full \in BOOLEAN
    /\ items \in [0..(Capacity - 1) -> Nat]
    /\ ~full => next = added
    /\ full => added >= Capacity
    /\ \A i \in 0..(Capacity - 1) :
        /\ i < next => items[i] = added - next + i + 1
        /\ i >= next /\ full => items[i] = added - next - Capacity + i + 1

(* The window of a job is its newest lines.  A stream whose position is    *)
(* below the size of the window has polled before the window began to      *)
(* slide, so that it has sent exactly the lines up to there; one whose     *)
(* position is that size sends nothing any more.                           *)
StreamInv ==
    /\ printed \in Nat /\ state \in {"running", "succeeded", "failed"}
    /\ lines = Numbers(printed - Smaller(printed, MaxLines) + 1, printed)
    /\ lastLine \in 0..Smaller(printed, MaxLines)
    /\ sent \in Seq(Nat)
    /\ \A i \in 1..(Len(sent) - 1) : sent[i] < sent[i + 1]
    /\ lastLine < MaxLines \/ printed <= MaxLines => sent = Numbers(1, lastLine)
    /\ lastState \in {"succeeded", "failed"} =>
            state = lastState /\ lastLine = Smaller(printed, MaxLines)

(* The buffer of a terminal holds the bytes between its two cursors, and   *)
(* is never empty once something was dropped.  The last byte a poller got  *)
(* is the one before its cursor.                                           *)
TerminalInv ==
    /\ baseCursor \in Nat /\ endCursor \in Nat
    /\ baseCursor < endCursor \/ (baseCursor = 0 /\ endCursor = 0)
    /\ output = Numbers(baseCursor + 1, endCursor)
    /\ cursor \in Nat /\ seen \in Seq(Nat)
    /\ seen # <<>> => seen[Len(seen)] = cursor /\ cursor <= endCursor
    /\ NoSilentGap

WindowsInv == RingInv /\ StreamInv /\ TerminalInv
====
