---- MODULE MCConfigVault ----
(* Small instances of the Config Vault for TLC. *)
EXTENDS ConfigVault, TLC

Symmetric == Permutations(Procs) \cup Permutations(Contents)
====
