---- MODULE MCTelemetry ----
(* A small instance of the installation accounting for TLC. *)
EXTENDS Telemetry
====
