---- MODULE ModuleLifecycle ----
(***************************************************************************)
(* components/core/module_lifecycle.go: start, restart, stop, disable and  *)
(* enable of a module, here routerforge-dns, beside the scripts of its     *)
(* package and its init script, which read and write the same markers.     *)
(*                                                                         *)
(* Nothing serialises them.  Whoever changes the module runs a short       *)
(* program, one file or process operation after the other: lifecycle       *)
(* requests, of which any number run at once, and the package scripts,     *)
(* which opkg's own lock runs one at a time.  A step can fail, which ends  *)
(* its program; the router can reboot between any two.                     *)
(***************************************************************************)
EXTENDS Integers, Sequences

CONSTANTS
    Requests,    \* concurrent lifecycle requests
    Opkg,        \* the package manager
    MaxActions   \* bound on the programs ever started

Actors == Requests \cup {Opkg}

ASSUME LifecycleAssumption == Opkg \notin Requests /\ MaxActions \in Nat

VARIABLES
    running,   \* a process of the module exists
    disabled,  \* modules-disabled/dns exists
    enabled,   \* dns.enabled exists
    todo,      \* the steps an actor has still to do
    doing,     \* the action an actor runs
    alone,     \* history: nobody else ran since the actor's action began
    raced,     \* history: actions overlapped since the last lone enable or disable
    dirty,     \* history: likewise, or an action stopped half-way
    actions

vars == <<running, disabled, enabled, todo, doing, alone, raced, dirty, actions>>
state == <<running, disabled, enabled>>

Idle(a) == doing[a] = "none"
Quiet   == \A a \in Actors : Idle(a)

Init ==
    /\ running \in BOOLEAN /\ disabled \in BOOLEAN /\ enabled = ~disabled
    /\ disabled => ~running
    /\ todo = [a \in Actors |-> <<>>]
    /\ doing = [a \in Actors |-> "none"]
    /\ alone = [a \in Actors |-> TRUE]
    /\ raced = FALSE /\ dirty = FALSE
    /\ actions = 0

(* Mutant: disable writes its marker before it stops the service. *)
ProgramEager(action) ==
    CASE action = "start"   -> <<"mark", "ask", "spawn">>
      [] action = "restart" -> <<"mark", "kill", "ask", "spawn">>
      [] action = "stop"    -> <<"kill">>
      [] action = "disable" -> <<"forbid", "unmark", "kill">>
      [] action = "enable"  -> <<"permit", "mark", "ask", "spawn">>
      [] action = "upgrade" -> <<"kill", "unmark", "unless", "mark", "kill", "ask", "spawn">>

(* Mutant: enable does not bring the enable marker back. *)
ProgramUnmarked(action) ==
    CASE action = "start"   -> <<"ask", "spawn">>
      [] action = "restart" -> <<"kill", "ask", "spawn">>
      [] action = "stop"    -> <<"kill">>
      [] action = "disable" -> <<"kill", "forbid", "unmark">>
      [] action = "enable"  -> <<"permit", "ask", "spawn">>
      [] action = "upgrade" -> <<"kill", "unmark", "unless", "mark", "kill", "ask", "spawn">>

(* runModuleLifecycleAction; "upgrade" is prerm and then postinst of the   *)
(* package.  ask and spawn are the init script's start, which does nothing *)
(* for a disabled module.                                                  *)
Program(action) ==
    CASE action = "start"   -> <<"mark", "ask", "spawn">>
      [] action = "restart" -> <<"mark", "kill", "ask", "spawn">>
      [] action = "stop"    -> <<"kill">>
      [] action = "disable" -> <<"kill", "forbid", "unmark">>
      [] action = "enable"  -> <<"permit", "mark", "ask", "spawn">>
      [] action = "upgrade" -> <<"kill", "unmark", "unless", "mark", "kill", "ask", "spawn">>

(* A request reads the marker once; a disabled module is not started. *)
Begin(a, action) ==
    /\ Idle(a) /\ actions < MaxActions
    /\ action \in {"start", "restart"} => ~disabled
    /\ actions' = actions + 1
    /\ doing' = [doing EXCEPT ![a] = action]
    /\ todo' = [todo EXCEPT ![a] = Program(action)]
    /\ alone' = [b \in Actors |-> IF b = a THEN Quiet ELSE alone[b] /\ Idle(b)]
    /\ raced' = (raced \/ ~Quiet)
    /\ dirty' = (dirty \/ ~Quiet)
    /\ UNCHANGED state

Request(a, action) == a \in Requests /\ action # "upgrade" /\ Begin(a, action)
Upgrade == Begin(Opkg, "upgrade")

(* The effect of one step on the module and its markers. *)
Effect(step) ==
    /\ running'  = CASE step = "kill" -> FALSE [] step = "spawn" -> TRUE [] OTHER -> running
    /\ disabled' = CASE step = "forbid" -> TRUE [] step = "permit" -> FALSE [] OTHER -> disabled
    /\ enabled'  = CASE step = "mark" -> TRUE [] step = "unmark" -> FALSE [] OTHER -> enabled

(* What remains: the init script refuses to start a disabled module, and   *)
(* postinst only removes the enable marker of one.                         *)
Rest(a) ==
    CASE disabled /\ Head(todo[a]) = "ask"    -> <<>>
      [] disabled /\ Head(todo[a]) = "unless" -> <<"unmark">>
      [] OTHER                                -> Tail(todo[a])

Step(a) ==
    /\ todo[a] # <<>>
    /\ Effect(Head(todo[a]))
    /\ todo' = [todo EXCEPT ![a] = Rest(a)]
    /\ UNCHANGED <<doing, alone, raced, dirty, actions>>

(* The operation fails: the request returns the error. *)
Fail(a) ==
    /\ todo[a] # <<>>
    /\ todo' = [todo EXCEPT ![a] = <<>>]
    /\ doing' = [doing EXCEPT ![a] = "none"]
    /\ dirty' = TRUE
    /\ UNCHANGED <<state, alone, raced, actions>>

(* The request returns; an enable or disable that ran alone has put        *)
(* everything right.                                                       *)
Return(a) ==
    /\ ~Idle(a) /\ todo[a] = <<>>
    /\ doing' = [doing EXCEPT ![a] = "none"]
    /\ LET settles == alone[a] /\ doing[a] \in {"enable", "disable"}
       IN raced' = (raced /\ ~settles) /\ dirty' = (dirty /\ ~settles)
    /\ UNCHANGED <<state, todo, alone, actions>>

(* The router reboots: rc.unslung runs the init script. *)
Reboot ==
    /\ running' = ~disabled
    /\ dirty' = (dirty \/ ~Quiet)
    /\ todo' = [a \in Actors |-> <<>>]
    /\ doing' = [a \in Actors |-> "none"]
    /\ UNCHANGED <<disabled, enabled, alone, raced, actions>>

Next ==
    \/ \E a \in Requests : \E action \in {"start", "restart", "stop", "disable", "enable"} :
            Request(a, action)
    \/ Upgrade
    \/ \E a \in Actors : Step(a) \/ Fail(a) \/ Return(a)
    \/ Reboot

Spec == Init /\ [][Next]_vars

---------------------------------------------------------------------------
(* Properties.                                                             *)

Steps   == {"mark", "unmark", "kill", "ask", "spawn", "forbid", "permit", "unless"}
Actions == {"none", "start", "restart", "stop", "disable", "enable", "upgrade"}

TypeOK ==
    /\ running \in BOOLEAN /\ disabled \in BOOLEAN /\ enabled \in BOOLEAN
    /\ todo \in [Actors -> Seq(Steps)]
    /\ doing \in [Actors -> Actions]
    /\ alone \in [Actors -> BOOLEAN]
    /\ raced \in BOOLEAN /\ dirty \in BOOLEAN
    /\ actions \in Nat

(* When nothing is in progress a disabled module does not run: whichever   *)
(* step of an action or of a package script failed, and wherever the       *)
(* router rebooted.  Only actions that overlapped can leave it running,    *)
(* and the next enable or disable that runs alone puts that right.         *)
DisabledStaysDown == Quiet /\ disabled /\ ~raced => ~running

(* The two markers, which the init script and the scripts of the packages  *)
(* read separately, contradict each other only after an overlap or an      *)
(* action that stopped half-way, and no longer once an enable or disable   *)
(* has run alone to its end.                                               *)
MarkersAgree == Quiet /\ ~dirty => enabled = ~disabled

(* How far the action of an actor that runs alone has come, and what its   *)
(* steps have established by then.                                         *)
OnPath(a) ==
    LET left == todo[a]
        starting == ~disabled /\ enabled /\ left \in {<<"ask", "spawn">>, <<"spawn">>, <<>>}
    IN  \/ /\ doing[a] = "start"
           /\ \/ ~disabled /\ left = <<"mark", "ask", "spawn">>
              \/ starting
        \/ /\ doing[a] = "restart"
           /\ \/ ~disabled /\ left = <<"mark", "kill", "ask", "spawn">>
              \/ ~disabled /\ enabled /\ left = <<"kill", "ask", "spawn">>
              \/ starting
        \/ /\ doing[a] = "stop"
           /\ left \in {<<"kill">>, <<>>}
        \/ /\ doing[a] = "disable"
           /\ \/ left = <<"kill", "forbid", "unmark">>
              \/ ~running /\ left = <<"forbid", "unmark">>
              \/ ~running /\ disabled /\ left = <<"unmark">>
              \/ ~running /\ disabled /\ ~enabled /\ left = <<>>
        \/ /\ doing[a] = "enable"
           /\ \/ left = <<"permit", "mark", "ask", "spawn">>
              \/ ~disabled /\ left = <<"mark", "ask", "spawn">>
              \/ starting
        \/ /\ doing[a] = "upgrade"
           /\ \/ left = <<"kill", "unmark", "unless", "mark", "kill", "ask", "spawn">>
              \/ left = <<"unmark", "unless", "mark", "kill", "ask", "spawn">>
              \/ ~enabled /\ left = <<"unless", "mark", "kill", "ask", "spawn">>
              \/ ~disabled /\ left = <<"mark", "kill", "ask", "spawn">>
              \/ ~disabled /\ enabled /\ left = <<"kill", "ask", "spawn">>
              \/ starting
              \/ disabled /\ left = <<"unmark">>
              \/ disabled /\ ~enabled /\ left = <<>>

(* An actor that runs alone is the only one that runs, and is on its path; *)
(* any other has been recorded as an overlap.                              *)
Alone ==
    \A a \in Actors :
        /\ Idle(a) => todo[a] = <<>>
        /\ ~Idle(a) /\ alone[a] => OnPath(a) /\ \A b \in Actors : b # a => Idle(b)
        /\ ~Idle(a) /\ ~alone[a] => raced /\ dirty

(* Without an overlap a disabled module never runs, not even while an      *)
(* action is in progress; the markers agree but for the action under way.  *)
Undisturbed ==
    /\ raced => dirty
    /\ ~raced /\ disabled => ~running
    /\ ~dirty => (enabled <=> ~disabled) \/ \E a \in Actors : doing[a] \notin {"none", "stop"}

(* The inductive invariant. *)
LifecycleInv == TypeOK /\ Alone /\ Undisturbed
====
