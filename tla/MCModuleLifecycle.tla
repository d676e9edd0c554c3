---- MODULE MCModuleLifecycle ----
(* Two requests beside the package scripts. *)
EXTENDS ModuleLifecycle
====
