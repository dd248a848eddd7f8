---------------------------- MODULE MCTelemetry ----------------------------
(* The instance of Telemetry for TLC.  It has a liveness property, so it    *)
(* declares no symmetry.                                                    *)
EXTENDS Telemetry
=============================================================================
