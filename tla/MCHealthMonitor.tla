-------------------------- MODULE MCHealthMonitor --------------------------
(* A small instance of HealthMonitor for TLC. *)
EXTENDS HealthMonitor

CONSTANTS now, k1, a, b
=============================================================================
