--------------------------- MODULE MCCircuitCheck ---------------------------
(* Instances of CircuitCheck for TLC. *)
EXTENDS CircuitCheck

\* What _measure_tunnel_speed may return.
AllResults == {"good", "slow", "none"}
=============================================================================
