---- MODULE MCTerminalSessions ----
(* Two handlers, two browsers and room for one session. *)
EXTENDS TerminalSessions
====
