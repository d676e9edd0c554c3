---- MODULE TerminalSessions ----
(***************************************************************************)
(* routerforge-admin: the registry of interactive terminals                *)
(* (components/control/terminal_sessions_linux.go) and the terminals behind*)
(* a WebSocket (terminal_ws_linux.go).                                     *)
(*                                                                         *)
(* A terminal is a shell on a pseudo-terminal.  A polled session is kept   *)
(* in a table, at most one for a browser and at most Limit in all; the     *)
(* table's mutex is released while shells are started and closed, so that  *)
(* creations, close requests and the janitor interleave.  Two goroutines   *)
(* of every session copy its output and wait for the shell.                *)
(*                                                                         *)
(* The output buffer is modelled by OutputWindows. Window sizes, the       *)
(* environment and the working directory are left out; time is the choice  *)
(* of when a session nobody touches has been idle for too long.            *)
(***************************************************************************)
EXTENDS Integers, FiniteSets

CONSTANTS
    Requests,  \* concurrent HTTP handlers
    Clients,   \* client_id of a browser
    MaxShells, \* bound on the shells ever started
    Limit,     \* adminTerminalSessionLimit
    None

Shells  == 1..MaxShells  \* processes, which also name their sessions
Janitor == "janitor"
Threads == Requests \cup {Janitor}

ASSUME TerminalAssumption ==
    /\ Limit \in Nat \ {0}
    /\ MaxShells \in Nat
    /\ None \notin Clients /\ None \notin Shells
    /\ Janitor \notin Requests

VARIABLES
    sessions,  \* the table
    client,    \* the browser of a session, None for a WebSocket
    proc,      \* the shell's process
    master,    \* the terminal's file
    closed,    \* adminTerminalSession.closed
    awaited,   \* the goroutine that waits for the process has been started
    idle,      \* sessions nobody has touched for adminTerminalSessionIdleTimeout
    pc,
    who,       \* the client of a creation
    mine,      \* the terminal a handler works on
    doomed     \* sessions a thread took from the table and has still to close

vars == <<sessions, client, proc, master, closed, awaited, idle, pc, who, mine, doomed>>
shells == <<client, proc, master, closed, awaited>>
frames == <<pc, who, mine>>

Init ==
    /\ sessions = {}
    /\ client = [s \in Shells |-> None]
    /\ proc = [s \in Shells |-> "none"]
    /\ master = [s \in Shells |-> "none"]
    /\ closed = [s \in Shells |-> FALSE]
    /\ awaited = [s \in Shells |-> FALSE]
    /\ idle = {}
    /\ pc = [t \in Threads |-> "ready"]
    /\ who = [t \in Threads |-> None]
    /\ mine = [t \in Threads |-> None]
    /\ doomed = [t \in Threads |-> {}]

Goto(t, label) == pc' = [pc EXCEPT ![t] = label]

(* startTerminalPTY: the shell runs, its terminal is open. *)
Spawn(t, s, c) ==
    /\ proc[s] = "none" /\ \A q \in 1..(s - 1) : proc[q] # "none"
    /\ proc' = [proc EXCEPT ![s] = "running"]
    /\ master' = [master EXCEPT ![s] = "open"]
    /\ client' = [client EXCEPT ![s] = c]
    /\ mine' = [mine EXCEPT ![t] = s]

---------------------------------------------------------------------------
(* The table.                                                              *)

Inactive == {s \in sessions : closed[s] \/ s \in idle}
OfClient(c) == {s \in sessions : client[s] = c}

(* A session that has left the table is not asked for its idle time again. *)
Unlink(S) == sessions' = sessions \ S /\ idle' = idle \ S

(* cleanupInactive, by the janitor or at the start of a creation. *)
Sweep(t) ==
    /\ Unlink(Inactive)
    /\ doomed' = [doomed EXCEPT ![t] = Inactive]

JanitorTick ==
    /\ doomed[Janitor] = {} /\ Inactive # {}
    /\ Sweep(Janitor)
    /\ UNCHANGED <<shells, frames>>

(* Mutant: close leaves the terminal of a shell that has exited open. *)
CloseExited(t, s) ==
    /\ s \in doomed[t]
    /\ doomed' = [doomed EXCEPT ![t] = @ \ {s}]
    /\ closed' = [closed EXCEPT ![s] = TRUE]
    /\ master' = [master EXCEPT ![s] = IF closed[s] THEN @ ELSE "closed"]
    /\ UNCHANGED <<sessions, client, proc, awaited, idle, frames>>

(* adminTerminalSession.close: the terminal is closed and the process      *)
(* group hung up.                                                          *)
Close(t, s) ==
    /\ s \in doomed[t]
    /\ doomed' = [doomed EXCEPT ![t] = @ \ {s}]
    /\ closed' = [closed EXCEPT ![s] = TRUE]
    /\ master' = [master EXCEPT ![s] = "closed"]
    /\ UNCHANGED <<sessions, client, proc, awaited, idle, frames>>

(* create. *)
Create(r, c) ==
    /\ pc[r] = "ready"
    /\ Sweep(r)
    /\ who' = [who EXCEPT ![r] = c]
    /\ Goto(r, "evict")
    /\ UNCHANGED <<shells, mine>>

(* The sessions of the same browser go first; a full table then refuses. *)
Evict(r) ==
    /\ pc[r] = "evict" /\ doomed[r] = {}
    /\ LET old == OfClient(who[r]) IN
        /\ Unlink(old)
        /\ doomed' = [doomed EXCEPT ![r] = old]
        /\ Goto(r, IF Cardinality(sessions \ old) >= Limit THEN "return" ELSE "spawn")
    /\ UNCHANGED <<shells, who, mine>>

Start(r) ==
    /\ pc[r] = "spawn" /\ doomed[r] = {}
    /\ \/ \E s \in Shells : Spawn(r, s, who[r]) /\ Goto(r, "publish")
       \/ Goto(r, "return") /\ UNCHANGED <<proc, master, client, mine>>
    /\ UNCHANGED <<sessions, closed, awaited, idle, who, doomed>>

(* Mutant: the table is not looked at again after the shell has started. *)
PublishUnchecked(r) ==
    /\ pc[r] = "publish"
    /\ sessions' = sessions \cup {mine[r]}
    /\ Goto(r, "started")
    /\ UNCHANGED <<shells, idle, who, mine, doomed>>

(* The table was unlocked while the shell started: the same browser may    *)
(* have another session again, and other browsers may have filled it.      *)
Publish(r) ==
    /\ pc[r] = "publish"
    /\ LET old  == OfClient(who[r])
           full == Cardinality(sessions \ old) >= Limit IN
        /\ sessions' = IF full THEN sessions \ old ELSE (sessions \ old) \cup {mine[r]}
        /\ idle' = idle \ old
        /\ doomed' = [doomed EXCEPT ![r] = IF full THEN old \cup {mine[r]} ELSE old]
        /\ Goto(r, IF full THEN "return" ELSE "started")
    /\ UNCHANGED <<shells, who, mine>>

(* The goroutines are started once the replaced sessions are closed. *)
Started(r) ==
    /\ pc[r] = "started" /\ doomed[r] = {}
    /\ awaited' = [awaited EXCEPT ![mine[r]] = TRUE]
    /\ Goto(r, "return")
    /\ UNCHANGED <<sessions, client, proc, master, closed, idle, who, mine, doomed>>

Return(r) ==
    /\ pc[r] = "return" /\ doomed[r] = {}
    /\ Goto(r, "ready")
    /\ who' = [who EXCEPT ![r] = None]
    /\ mine' = [mine EXCEPT ![r] = None]
    /\ UNCHANGED <<sessions, shells, idle, doomed>>

(* get, and the handlers of output, input and resize, touch the session. *)
Touch(s) ==
    /\ s \in idle
    /\ idle' = idle \ {s}
    /\ UNCHANGED <<sessions, shells, frames, doomed>>

(* The close request finds its session. *)
Get(r, s) ==
    /\ pc[r] = "ready" /\ s \in sessions
    /\ idle' = idle \ {s}
    /\ mine' = [mine EXCEPT ![r] = s]
    /\ Goto(r, "remove")
    /\ UNCHANGED <<sessions, shells, who, doomed>>

(* It takes the session from the table and closes it. *)
Remove(r) ==
    /\ pc[r] = "remove"
    /\ Unlink({mine[r]})
    /\ doomed' = [doomed EXCEPT ![r] = {mine[r]}]
    /\ Goto(r, "return")
    /\ UNCHANGED <<shells, who, mine>>

---------------------------------------------------------------------------
(* The terminal behind a WebSocket lives as long as its connection.        *)

Connect(r) ==
    /\ pc[r] = "ready"
    /\ \E s \in Shells : Spawn(r, s, None)
    /\ Goto(r, "upgrade")
    /\ UNCHANGED <<sessions, closed, awaited, idle, who, doomed>>

(* The upgrade of the connection: when it fails the terminal is closed.    *)
Upgrade(r) ==
    /\ pc[r] = "upgrade"
    /\ \/ Goto(r, "serve") /\ awaited' = [awaited EXCEPT ![mine[r]] = TRUE]
          /\ UNCHANGED doomed
       \/ Goto(r, "return") /\ doomed' = [doomed EXCEPT ![r] = {mine[r]}]
          /\ UNCHANGED awaited
    /\ UNCHANGED <<sessions, client, proc, master, closed, idle, who, mine>>

(* The client leaves, or the exit of the shell has closed the connection.  *)
Disconnect(r) ==
    /\ pc[r] = "serve"
    /\ doomed' = [doomed EXCEPT ![r] = {mine[r]}]
    /\ Goto(r, "return")
    /\ UNCHANGED <<sessions, shells, idle, who, mine>>

---------------------------------------------------------------------------
(* Shells and time.                                                        *)

(* A shell ends by itself or because its terminal is gone. *)
Exit(s) ==
    /\ proc[s] = "running"
    /\ proc' = [proc EXCEPT ![s] = "exited"]
    /\ UNCHANGED <<sessions, client, master, closed, awaited, idle, frames, doomed>>

(* Mutant: the end of the shell does not close the session. *)
WaitSilent(s) ==
    /\ awaited[s] /\ proc[s] = "exited"
    /\ proc' = [proc EXCEPT ![s] = "reaped"]
    /\ idle' = idle \ {s}
    /\ UNCHANGED <<sessions, client, master, closed, awaited, frames, doomed>>

(* adminTerminalSession.wait; the one of a WebSocket closes the connection *)
(* (Disconnect).                                                           *)
Wait(s) ==
    /\ awaited[s] /\ proc[s] = "exited"
    /\ proc' = [proc EXCEPT ![s] = "reaped"]
    /\ closed' = [closed EXCEPT ![s] = TRUE]
    /\ idle' = idle \ {s}
    /\ UNCHANGED <<sessions, client, master, awaited, frames, doomed>>

Idle(s) ==
    /\ s \in sessions \ idle
    /\ idle' = idle \cup {s}
    /\ UNCHANGED <<sessions, shells, frames, doomed>>

Handler(r) ==
    \/ Evict(r) \/ Start(r) \/ Publish(r) \/ Started(r) \/ Return(r)
    \/ Remove(r) \/ Upgrade(r)
    \/ \E s \in Shells : Close(r, s)

Client(r) ==
    \/ \E c \in Clients : Create(r, c)
    \/ \E s \in Shells : Get(r, s)
    \/ Connect(r) \/ Disconnect(r)

Next ==
    \/ \E r \in Requests : Handler(r) \/ Client(r)
    \/ JanitorTick \/ \E s \in Shells : Close(Janitor, s)
    \/ \E s \in Shells : Exit(s) \/ Wait(s) \/ Idle(s) \/ Touch(s)

Spec == Init /\ [][Next]_vars

(* Handlers run to their end, the janitor ticks every minute, a hung-up    *)
(* shell exits and its exit closes the connection; users do as they like.  *)
FairSpec ==
    /\ Spec
    /\ \A r \in Requests : WF_vars(Handler(r))
    /\ WF_vars(JanitorTick) /\ WF_vars(\E s \in Shells : Close(Janitor, s))
    /\ \A s \in Shells : WF_vars(master[s] = "closed" /\ Exit(s)) /\ WF_vars(Wait(s))
    /\ \A r \in Requests : WF_vars(pc[r] = "serve" /\ closed[mine[r]] /\ Disconnect(r))

---------------------------------------------------------------------------
(* Properties.                                                             *)

TypeOK ==
    /\ sessions \subseteq Shells
    /\ client \in [Shells -> Clients \cup {None}]
    /\ proc \in [Shells -> {"none", "running", "exited", "reaped"}]
    /\ master \in [Shells -> {"none", "open", "closed"}]
    /\ closed \in [Shells -> BOOLEAN] /\ awaited \in [Shells -> BOOLEAN]
    /\ idle \subseteq Shells
    /\ pc \in [Threads -> {"ready", "evict", "spawn", "publish", "started",
                           "remove", "upgrade", "serve", "return"}]
    /\ who \in [Threads -> Clients \cup {None}]
    /\ mine \in [Threads -> Shells \cup {None}]
    /\ doomed \in [Threads -> SUBSET Shells]

(* The table never holds more than adminTerminalSessionLimit sessions nor  *)
(* two of one browser, although the shell is started outside the mutex and *)
(* any number of creations of one browser can be at that point.            *)
RegistryBounded ==
    /\ Cardinality(sessions) <= Limit
    /\ \A s, t \in sessions : client[s] = client[t] => s = t

(* A handler that still has the terminal to publish, to close or to serve. *)
Held(s) ==
    \/ \E t \in Threads : s \in doomed[t]
    \/ \E r \in Requests : mine[r] = s /\ pc[r] \in {"publish", "upgrade", "serve"}

(* No terminal is left open that nothing can close: it is in the table, or *)
(* some thread has it and will publish or close it, whoever evicted,       *)
(* removed or swept it.                                                    *)
NoOrphanTerminal ==
    \A s \in Shells : master[s] = "open" => s \in sessions \/ Held(s)

(* What a handler knows of its terminal: nothing but its own steps changes *)
(* the frame, a terminal between its start and its publication is in no    *)
(* table, and a handler that may take sessions from the table has closed   *)
(* those it took before.                                                   *)
FramesCoherent ==
    \A r \in Requests :
        /\ pc[r] \in {"publish", "started", "remove", "upgrade", "serve"} =>
                mine[r] \in Shells /\ proc[mine[r]] # "none"
        /\ pc[r] = "publish" => client[mine[r]] = who[r]
        /\ pc[r] \in {"ready", "publish", "remove", "upgrade", "serve"} => doomed[r] = {}

(* A session of the table has a shell: its number is not given out again. *)
SessionsStarted == \A s \in sessions : proc[s] # "none"

(* The inductive invariant. *)
SessionsInv ==
    TypeOK /\ SessionsStarted /\ FramesCoherent /\ RegistryBounded /\ NoOrphanTerminal

(* A session whose shell has exited, or that nobody uses, does not keep    *)
(* its terminal: it is closed, or somebody touches it again.               *)
IdleReclaimed ==
    \A s \in Shells :
        /\ awaited[s] /\ proc[s] = "exited" ~> master[s] = "closed"
        /\ s \in idle ~> master[s] = "closed" \/ s \in sessions \ idle
====
