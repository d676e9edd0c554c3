---- MODULE MCManagedConfig ----
(* Small instances of the managed-configuration handlers for TLC. *)
EXTENDS ManagedConfig, TLC

Symmetric == Permutations(Procs) \cup Permutations(Contents)
                \cup Permutations(Paths) \cup Permutations(Temps)
====
