-------------------------- MODULE MCFleetRuntime --------------------------
(* An instance of FleetRuntime for TLC. *)
EXTENDS FleetRuntime
=============================================================================
