------------------------------ MODULE MCIngest ------------------------------
(* Finite instances of TelemetryIngest. *)
EXTENDS TelemetryIngest, TLC
=============================================================================
