---- MODULE Transaction ----
(***************************************************************************)
(* internal/platform/transaction: the life of a guarded mutation.          *)
(* Evidence and timestamps are left out.                                   *)
(***************************************************************************)

TxStates == {"Precheck", "Snapshot", "Validated", "Applied", "Verified",
             "Committed", "RolledBack", "Ambiguous", "Failed"}

TxTerminal == {"Committed", "RolledBack", "Ambiguous", "Failed"}

Successors(from) ==
    CASE from = "Precheck"  -> {"Snapshot", "Failed"}
      [] from = "Snapshot"  -> {"Validated", "Failed"}
      [] from = "Validated" -> {"Applied", "Failed"}
      [] from = "Applied"   -> {"Verified", "RolledBack", "Ambiguous", "Failed"}
      [] from = "Verified"  -> {"Committed", "RolledBack", "Ambiguous"}
      [] OTHER              -> {}

CanTransition(from, to) == to \in Successors(from)

(* Advance refuses an illegal transition and leaves the state as it was. *)
Advance(from, to) == IF CanTransition(from, to) THEN to ELSE from
====
