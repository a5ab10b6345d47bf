----------------------------- MODULE MCTelemetry -----------------------------
(* Small instances of Telemetry for TLC.                                   *)
EXTENDS MCRouter, MeterInv
=============================================================================
