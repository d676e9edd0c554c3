---- MODULE MCOutputWindows ----
(* Windows of two or three items, and output of twice their size. *)
EXTENDS OutputWindows
====
