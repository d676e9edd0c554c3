---- MODULE ModuleLifecycleProofs ----
(***************************************************************************)
(* Proofs about the lifecycle of a module: without overlapping actions a   *)
(* disabled module stays down, and an action that runs alone puts the      *)
(* markers right, for every number of requests and actions.                *)
(***************************************************************************)
EXTENDS ModuleLifecycle, SequenceTheorems, TLAPS

(* The programs of the actions. *)
LEMMA ProgramSteps ==
    ASSUME NEW action \in Actions \ {"none"}
    PROVE  Program(action) \in Seq(Steps) /\ Program(action) # <<>>
<1>1. CASE action = "start"
    BY <1>1 DEF Steps, Program
<1>2. CASE action = "restart"
    BY <1>2 DEF Steps, Program
<1>3. CASE action = "stop"
    BY <1>3 DEF Steps, Program
<1>4. CASE action = "disable"
    BY <1>4 DEF Steps, Program
<1>5. CASE action = "enable"
    BY <1>5 DEF Steps, Program
<1>6. CASE action = "upgrade"
    BY <1>6 DEF Steps, Program
<1> QED
    BY <1>1, <1>2, <1>3, <1>4, <1>5, <1>6 DEF Actions

(* An actor's step leaves a program of known steps. *)
LEMMA RestSteps ==
    ASSUME TypeOK, NEW a \in Actors, todo[a] # <<>>
    PROVE  Rest(a) \in Seq(Steps) /\ Head(todo[a]) \in Steps
<1>1. todo[a] \in Seq(Steps)
    BY DEF TypeOK
<1>2. Tail(todo[a]) \in Seq(Steps) /\ Head(todo[a]) \in Steps
    BY <1>1
<1>3. <<"unmark">> \in Seq(Steps) /\ <<>> \in Seq(Steps)
    BY DEF Steps
<1> QED
    BY <1>2, <1>3 DEF Rest

(* What a step does, by the head of the actor's program. *)
LEMMA StepByHead ==
    ASSUME TypeOK, NEW a \in Actors, Step(a), NEW h, NEW rest,
           h = Head(todo[a]), rest = Tail(todo[a])
    PROVE  /\ running' = CASE h = "kill" -> FALSE [] h = "spawn" -> TRUE [] OTHER -> running
           /\ disabled' = CASE h = "forbid" -> TRUE [] h = "permit" -> FALSE [] OTHER -> disabled
           /\ enabled' = CASE h = "mark" -> TRUE [] h = "unmark" -> FALSE [] OTHER -> enabled
           /\ doing'[a] = doing[a]
           /\ ~disabled \/ h \notin {"ask", "unless"} => todo'[a] = rest
           /\ disabled /\ h = "ask" => todo'[a] = <<>>
           /\ disabled /\ h = "unless" => todo'[a] = <<"unmark">>
BY DEF TypeOK, Step, Effect, Rest

(* An actor that runs alone stays on its path: one case for each program   *)
(* that can be left.                                                       *)
LEMMA StepStaysOnPath ==
    ASSUME TypeOK, NEW a \in Actors, OnPath(a), Step(a)
    PROVE  OnPath(a)'
<1> USE DEF state
<1>0. doing'[a] = doing[a]
    BY StepByHead
<1>1. CASE todo[a] = <<"spawn">>
    <2>1. Head(todo[a]) = "spawn" /\ Tail(todo[a]) = <<>>
        BY <1>1
    <2>2. /\ UNCHANGED <<disabled, enabled>>
          /\ todo'[a] = <<>>
        BY <2>1, StepByHead
    <2> QED
        BY <1>0, <1>1, <2>2 DEF OnPath
<1>2. CASE todo[a] = <<"ask", "spawn">>
    <2>1. Head(todo[a]) = "ask" /\ Tail(todo[a]) = <<"spawn">>
        BY <1>2
    <2>2. ~disabled /\ enabled /\ doing[a] \in {"start", "restart", "enable", "upgrade"}
        BY <1>2 DEF OnPath
    <2>3. UNCHANGED state /\ todo'[a] = <<"spawn">>
        BY <2>1, <2>2, StepByHead
    <2> QED
        BY <1>0, <2>2, <2>3 DEF OnPath
<1>3. CASE todo[a] = <<"mark", "ask", "spawn">>
    <2>1. Head(todo[a]) = "mark" /\ Tail(todo[a]) = <<"ask", "spawn">>
        BY <1>3
    <2>2. /\ enabled' /\ UNCHANGED <<running, disabled>>
          /\ todo'[a] = <<"ask", "spawn">>
        BY <2>1, StepByHead
    <2> QED
        BY <1>0, <1>3, <2>2 DEF OnPath
<1>4. CASE todo[a] = <<"kill", "ask", "spawn">>
    <2>1. Head(todo[a]) = "kill" /\ Tail(todo[a]) = <<"ask", "spawn">>
        BY <1>4
    <2>2. /\ ~running' /\ UNCHANGED <<disabled, enabled>>
          /\ todo'[a] = <<"ask", "spawn">>
        BY <2>1, StepByHead
    <2> QED
        BY <1>0, <1>4, <2>2 DEF OnPath
<1>5. CASE todo[a] = <<"mark", "kill", "ask", "spawn">>
    <2>1. Head(todo[a]) = "mark" /\ Tail(todo[a]) = <<"kill", "ask", "spawn">>
        BY <1>5
    <2>2. /\ enabled' /\ UNCHANGED <<running, disabled>>
          /\ todo'[a] = <<"kill", "ask", "spawn">>
        BY <2>1, StepByHead
    <2> QED
        BY <1>0, <1>5, <2>2 DEF OnPath
<1>6. CASE todo[a] = <<"kill">>
    <2>1. Head(todo[a]) = "kill" /\ Tail(todo[a]) = <<>>
        BY <1>6
    <2>2. /\ ~running' /\ UNCHANGED <<disabled, enabled>>
          /\ todo'[a] = <<>>
        BY <2>1, StepByHead
    <2> QED
        BY <1>0, <1>6, <2>2 DEF OnPath
<1>7. CASE todo[a] = <<"kill", "forbid", "unmark">>
    <2>1. Head(todo[a]) = "kill" /\ Tail(todo[a]) = <<"forbid", "unmark">>
        BY <1>7
    <2>2. /\ ~running' /\ UNCHANGED <<disabled, enabled>>
          /\ todo'[a] = <<"forbid", "unmark">>
        BY <2>1, StepByHead
    <2> QED
        BY <1>0, <1>7, <2>2 DEF OnPath
<1>8. CASE todo[a] = <<"forbid", "unmark">>
    <2>1. Head(todo[a]) = "forbid" /\ Tail(todo[a]) = <<"unmark">>
        BY <1>8
    <2>2. /\ disabled' /\ UNCHANGED <<running, enabled>>
          /\ todo'[a] = <<"unmark">>
        BY <2>1, StepByHead
    <2> QED
        BY <1>0, <1>8, <2>2 DEF OnPath
<1>9. CASE todo[a] = <<"unmark">>
    <2>1. Head(todo[a]) = "unmark" /\ Tail(todo[a]) = <<>>
        BY <1>9
    <2>2. /\ ~enabled' /\ UNCHANGED <<running, disabled>>
          /\ todo'[a] = <<>>
        BY <2>1, StepByHead
    <2> QED
        BY <1>0, <1>9, <2>2 DEF OnPath
<1>10. CASE todo[a] = <<"permit", "mark", "ask", "spawn">>
    <2>1. Head(todo[a]) = "permit" /\ Tail(todo[a]) = <<"mark", "ask", "spawn">>
        BY <1>10
    <2>2. /\ ~disabled' /\ UNCHANGED <<running, enabled>>
          /\ todo'[a] = <<"mark", "ask", "spawn">>
        BY <2>1, StepByHead
    <2> QED
        BY <1>0, <1>10, <2>2 DEF OnPath
<1>11. CASE todo[a] = <<"kill", "unmark", "unless", "mark", "kill", "ask", "spawn">>
    <2>1. Head(todo[a]) = "kill" /\ Tail(todo[a]) = <<"unmark", "unless", "mark", "kill", "ask", "spawn">>
        BY <1>11
    <2>2. /\ ~running' /\ UNCHANGED <<disabled, enabled>>
          /\ todo'[a] = <<"unmark", "unless", "mark", "kill", "ask", "spawn">>
        BY <2>1, StepByHead
    <2> QED
        BY <1>0, <1>11, <2>2 DEF OnPath
<1>12. CASE todo[a] = <<"unmark", "unless", "mark", "kill", "ask", "spawn">>
    <2>1. Head(todo[a]) = "unmark" /\ Tail(todo[a]) = <<"unless", "mark", "kill", "ask", "spawn">>
        BY <1>12
    <2>2. /\ ~enabled' /\ UNCHANGED <<running, disabled>>
          /\ todo'[a] = <<"unless", "mark", "kill", "ask", "spawn">>
        BY <2>1, StepByHead
    <2> QED
        BY <1>0, <1>12, <2>2 DEF OnPath
<1>13. CASE todo[a] = <<"unless", "mark", "kill", "ask", "spawn">>
    <2>1. Head(todo[a]) = "unless" /\ Tail(todo[a]) = <<"mark", "kill", "ask", "spawn">>
        BY <1>13
    <2>2. /\ UNCHANGED state
          /\ todo'[a] = IF disabled THEN <<"unmark">> ELSE <<"mark", "kill", "ask", "spawn">>
        BY <2>1, StepByHead
    <2> QED
        BY <1>0, <1>13, <2>2 DEF OnPath
<1> QED
    BY <1>1, <1>2, <1>3, <1>4, <1>5, <1>6, <1>7, <1>8, <1>9, <1>10, <1>11, <1>12, <1>13 DEF OnPath, Step

(* What the path of a lone action has established where it matters: the    *)
(* init script starts, and disable writes its marker, only a module that   *)
(* may run or that does not run; at the end the markers agree.             *)
LEMMA PathFacts ==
    ASSUME NEW a \in Actors, OnPath(a)
    PROVE  /\ doing[a] # "none"
           /\ todo[a] # <<>> /\ Head(todo[a]) = "spawn" => ~disabled
           /\ todo[a] # <<>> /\ Head(todo[a]) = "forbid" => ~running
           /\ todo[a] # <<>> /\ doing[a] = "stop" => Head(todo[a]) = "kill"
           /\ todo[a] = <<>> /\ doing[a] # "stop" => (enabled <=> ~disabled)
           /\ todo[a] = <<>> /\ doing[a] \in {"enable", "disable"} => (disabled => ~running)
<1> USE DEF OnPath
<1>1. doing[a] # "none"
    OBVIOUS
<1>2. todo[a] # <<>> /\ Head(todo[a]) = "spawn" => ~disabled
    OBVIOUS
<1>3. todo[a] # <<>> /\ Head(todo[a]) = "forbid" => ~running
    OBVIOUS
<1>4. todo[a] # <<>> /\ doing[a] = "stop" => Head(todo[a]) = "kill"
    OBVIOUS
<1>5. todo[a] = <<>> /\ doing[a] # "stop" => (enabled <=> ~disabled)
    OBVIOUS
<1>6. todo[a] = <<>> /\ doing[a] \in {"enable", "disable"} => (disabled => ~running)
    OBVIOUS
<1> QED
    BY <1>1, <1>2, <1>3, <1>4, <1>5, <1>6

(* A module that is not disabled, or does not run, with markers that agree. *)
LEMMA InitEstablishesInv == Init => LifecycleInv
<1> SUFFICES ASSUME Init PROVE LifecycleInv
    OBVIOUS
<1>1. TypeOK
    <2>1. <<>> \in Seq(Steps) /\ "none" \in Actions
        BY DEF Actions
    <2>2. todo \in [Actors -> Seq(Steps)] /\ doing \in [Actors -> Actions]
        BY <2>1 DEF Init
    <2>3. running \in BOOLEAN /\ disabled \in BOOLEAN /\ enabled \in BOOLEAN
        BY DEF Init
    <2>4. alone \in [Actors -> BOOLEAN] /\ raced \in BOOLEAN /\ dirty \in BOOLEAN
        BY Zenon DEF Init
    <2> QED
        BY <2>2, <2>3, <2>4 DEF Init, TypeOK
<1>2. Alone /\ Undisturbed
    BY DEF Init, Alone, Undisturbed, Idle
<1> QED
    BY <1>1, <1>2 DEF LifecycleInv

(* An action begins: alone, or as an overlap that is recorded. *)
LEMMA BeginPreservesInv ==
    ASSUME LifecycleInv, NEW a \in Actors, NEW action \in Actions \ {"none"}, Begin(a, action)
    PROVE  LifecycleInv'
<1> USE DEF LifecycleInv
<1>1. TypeOK'
    <2>1. todo' \in [Actors -> Seq(Steps)]
        BY ProgramSteps DEF TypeOK, Begin
    <2>2. doing' \in [Actors -> Actions] /\ actions' \in Nat
        BY DEF TypeOK, Begin
    <2>3. alone' \in [Actors -> BOOLEAN]
        <3>1. \A b \in Actors : (IF b = a THEN Quiet ELSE alone[b] /\ Idle(b)) \in BOOLEAN
            BY DEF Quiet, Idle
        <3> QED
            BY <3>1 DEF Begin
    <2>4. raced' \in BOOLEAN /\ dirty' \in BOOLEAN
        BY DEF Begin
    <2>5. UNCHANGED <<running, disabled, enabled>>
        BY DEF Begin, state
    <2> QED
        BY <2>1, <2>2, <2>3, <2>4, <2>5 DEF TypeOK
<1>2. Alone'
    <2>1. doing'[a] = action /\ todo'[a] = Program(action) /\ UNCHANGED state
        BY DEF Begin, TypeOK
    <2>2. OnPath(a)'
        BY <2>1 DEF OnPath, Program, Begin, state, Actions
    <2>3. \A b \in Actors : b # a => /\ doing'[b] = doing[b] /\ todo'[b] = todo[b]
                                     /\ alone'[b] = (alone[b] /\ Idle(b))
        BY DEF Begin, TypeOK
    <2>4. Idle(a) /\ doing'[a] # "none" /\ alone'[a] = Quiet /\ raced' = (raced \/ ~Quiet)
            /\ dirty' = (dirty \/ ~Quiet)
        BY <2>1 DEF Begin, TypeOK, Actions
    <2> QED
        BY <2>2, <2>3, <2>4 DEF Alone, Quiet, Idle
<1>3. Undisturbed'
    BY DEF Undisturbed, Begin, state, TypeOK, Quiet, Idle
<1> QED
    BY <1>1, <1>2, <1>3

(* A step of an action: its actor is alone and on its path, or an overlap  *)
(* has been recorded.                                                      *)
LEMMA StepPreservesInv ==
    ASSUME LifecycleInv, NEW a \in Actors, Step(a)
    PROVE  LifecycleInv'
<1> USE DEF LifecycleInv
<1>0. /\ todo[a] # <<>> /\ ~Idle(a)
      /\ UNCHANGED <<doing, alone, raced, dirty, actions>>
      /\ \A b \in Actors : b # a => todo'[b] = todo[b]
    BY DEF Step, Alone, TypeOK
<1>1. TypeOK'
    <2>1. todo' \in [Actors -> Seq(Steps)]
        BY <1>0, RestSteps DEF Step, TypeOK
    <2>2. running' \in BOOLEAN /\ disabled' \in BOOLEAN /\ enabled' \in BOOLEAN
        BY DEF Step, Effect, TypeOK
    <2> QED
        BY <1>0, <2>1, <2>2 DEF TypeOK
<1>2. CASE alone[a]
    <2>1. OnPath(a) /\ \A b \in Actors : b # a => Idle(b)
        BY <1>0, <1>2 DEF Alone
    <2>2. OnPath(a)'
        BY <2>1, StepStaysOnPath
    <2>3. Alone'
        BY <1>0, <1>2, <2>1, <2>2 DEF Alone, Idle
    <2>4. Undisturbed'
        <3>1. /\ Head(todo[a]) = "spawn" => ~disabled
              /\ Head(todo[a]) = "forbid" => ~running
              /\ doing[a] = "stop" => Head(todo[a]) = "kill"
            BY <1>0, <2>1, PathFacts
        <3>2. ~raced /\ disabled' => ~running'
            BY <3>1, StepByHead DEF Undisturbed
        <3>3. doing[a] = "stop" => UNCHANGED <<enabled, disabled>>
            BY <3>1, StepByHead
        <3>4. doing[a] # "stop" => \E c \in Actors : doing'[c] \notin {"none", "stop"}
            BY <1>0 DEF Idle
        <3> QED
            BY <1>0, <3>2, <3>3, <3>4 DEF Undisturbed
    <2> QED
        BY <1>1, <2>3, <2>4
<1>3. CASE ~alone[a]
    <2>1. raced /\ dirty
        BY <1>0, <1>3 DEF Alone
    <2>2. \A b \in Actors : ~Idle(b) => ~alone[b]
        BY <1>0, <1>3 DEF Alone
    <2>3. Alone'
        BY <1>0, <2>1, <2>2 DEF Alone, Idle
    <2>4. Undisturbed'
        BY <1>0, <2>1 DEF Undisturbed
    <2> QED
        BY <1>1, <2>3, <2>4
<1> QED
    BY <1>2, <1>3

(* An action ends, or the router reboots. *)
LEMMA EndPreservesInv ==
    ASSUME LifecycleInv, (\E a \in Actors : Fail(a) \/ Return(a)) \/ Reboot
    PROVE  LifecycleInv'
<1> USE DEF LifecycleInv
<1>0. <<>> \in Seq(Steps) /\ "none" \in Actions
    BY DEF Actions
<1>1. ASSUME NEW a \in Actors, Fail(a) PROVE LifecycleInv'
    <2>1. TypeOK'
        BY <1>0, <1>1 DEF TypeOK, Fail, state
    <2>2. /\ doing'[a] = "none" /\ todo'[a] = <<>> /\ dirty'
          /\ \A b \in Actors : b # a => doing'[b] = doing[b] /\ todo'[b] = todo[b]
          /\ UNCHANGED <<running, disabled, enabled, alone, raced>>
        BY <1>1 DEF Fail, TypeOK, state
    <2>3. \A b \in Actors : b # a /\ OnPath(b) => OnPath(b)'
        BY <2>2 DEF OnPath
    <2>4. Alone'
        BY <2>2, <2>3 DEF Alone, Idle
    <2>5. Undisturbed'
        BY <2>2 DEF Undisturbed
    <2> QED
        BY <2>1, <2>4, <2>5
<1>2. ASSUME NEW a \in Actors, Return(a) PROVE LifecycleInv'
    <2> DEFINE settles == alone[a] /\ doing[a] \in {"enable", "disable"}
    <2>1. /\ doing'[a] = "none" /\ todo[a] = <<>> /\ ~Idle(a)
          /\ \A b \in Actors : b # a => doing'[b] = doing[b]
          /\ raced' = (raced /\ ~settles) /\ dirty' = (dirty /\ ~settles)
          /\ UNCHANGED <<running, disabled, enabled, todo, alone>>
        BY <1>2 DEF Return, TypeOK, state
    <2>2. TypeOK'
        <3>1. doing' \in [Actors -> Actions]
            BY <1>0, <1>2 DEF Return, TypeOK
        <3>2. raced' \in BOOLEAN /\ dirty' \in BOOLEAN
            BY <2>1
        <3> QED
            BY <1>2, <2>1, <3>1, <3>2 DEF Return, TypeOK
    <2>3. \A b \in Actors : b # a /\ OnPath(b) => OnPath(b)'
        BY <2>1 DEF OnPath
    <2>4. alone[a] => OnPath(a) /\ \A b \in Actors : b # a => Idle(b)
        BY <2>1 DEF Alone
    <2>5. Alone'
        BY <2>1, <2>3, <2>4 DEF Alone, Idle
    <2>6. Undisturbed'
        <3>1. settles => (disabled => ~running) /\ (enabled <=> ~disabled)
            BY <2>1, <2>4, PathFacts
        <3>2. CASE dirty /\ ~settles
            BY <2>1, <3>2 DEF Undisturbed
        <3>3. CASE settles
            BY <2>1, <3>1, <3>3 DEF Undisturbed
        <3>4. CASE ~dirty
            <4>1. alone[a]
                BY <2>1, <3>4 DEF Alone
            <4>2. doing[a] # "stop" => (enabled <=> ~disabled)
                BY <2>1, <2>4, <4>1, PathFacts
            <4>3. enabled <=> ~disabled
                BY <2>4, <3>4, <4>1, <4>2 DEF Undisturbed, Idle
            <4> QED
                BY <2>1, <3>1, <3>4, <4>3 DEF Undisturbed
        <3> QED
            BY <3>2, <3>3, <3>4
    <2> QED
        BY <2>2, <2>5, <2>6
<1>3. CASE Reboot
    <2>1. /\ running' = ~disabled /\ dirty' = (dirty \/ ~Quiet)
          /\ \A a \in Actors : todo'[a] = <<>> /\ doing'[a] = "none"
          /\ UNCHANGED <<disabled, enabled, alone, raced, actions>>
        BY <1>3 DEF Reboot
    <2>2. TypeOK'
        <3>1. todo' \in [Actors -> Seq(Steps)] /\ doing' \in [Actors -> Actions]
            BY <1>0, <1>3 DEF Reboot
        <3>2. running' \in BOOLEAN /\ dirty' \in BOOLEAN
            BY <2>1
        <3> QED
            BY <2>1, <3>1, <3>2 DEF TypeOK
    <2>3. Alone'
        BY <2>1 DEF Alone, Idle
    <2>4. Undisturbed'
        BY <2>1 DEF Undisturbed, Quiet, Idle
    <2> QED
        BY <2>2, <2>3, <2>4
<1> QED
    BY <1>1, <1>2, <1>3

(* Every step of the actors and every reboot keeps the invariant. *)
LEMMA NextPreservesInv == LifecycleInv /\ [Next]_vars => LifecycleInv'
<1> SUFFICES ASSUME LifecycleInv, [Next]_vars PROVE LifecycleInv'
    OBVIOUS
<1>1. ASSUME NEW a \in Requests,
             NEW action \in {"start", "restart", "stop", "disable", "enable"}, Request(a, action)
      PROVE  LifecycleInv'
    BY <1>1, BeginPreservesInv DEF Request, Actors, Actions
<1>2. CASE Upgrade
    BY <1>2, BeginPreservesInv DEF Upgrade, Actors, Actions
<1>3. ASSUME NEW a \in Actors, Step(a) PROVE LifecycleInv'
    BY <1>3, StepPreservesInv
<1>4. CASE (\E a \in Actors : Fail(a) \/ Return(a)) \/ Reboot
    BY <1>4, EndPreservesInv
<1>5. CASE UNCHANGED vars
    BY <1>5 DEF vars, LifecycleInv, TypeOK, Alone, OnPath, Undisturbed, Idle
<1> QED
    BY <1>1, <1>2, <1>3, <1>4, <1>5 DEF Next

(* The actors, their histories and the markers agree in every reachable    *)
(* state.                                                                  *)
THEOREM LifecycleInvariant == Spec => []LifecycleInv
BY InitEstablishesInv, NextPreservesInv, PTL DEF Spec

(* A disabled module does not run when nothing is in progress, whatever    *)
(* failed and wherever the router rebooted, unless actions overlapped      *)
(* since an enable or disable last ran alone.                              *)
THEOREM DisabledStaysDownAlways == Spec => []DisabledStaysDown
<1>1. LifecycleInv => DisabledStaysDown
    BY DEF LifecycleInv, Undisturbed, DisabledStaysDown
<1> QED
    BY <1>1, LifecycleInvariant, PTL

(* The two markers agree when nothing is in progress, unless an action     *)
(* overlapped or stopped half-way since an enable or disable last ran      *)
(* alone.                                                                  *)
THEOREM MarkersAgreeAlways == Spec => []MarkersAgree
<1>1. LifecycleInv => MarkersAgree
    <2> SUFFICES ASSUME LifecycleInv, Quiet, ~dirty PROVE enabled = ~disabled
        BY DEF MarkersAgree
    <2>1. enabled <=> ~disabled
        BY DEF LifecycleInv, Undisturbed, Quiet, Idle
    <2> QED
        BY <2>1 DEF LifecycleInv, TypeOK
<1> QED
    BY <1>1, LifecycleInvariant, PTL
====
