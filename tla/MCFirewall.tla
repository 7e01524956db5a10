----------------------------- MODULE MCFirewall -----------------------------
(* Instances of Firewall for TLC. *)
EXTENDS Firewall

\* The interfaces of an installation with at most one other tunnel, or with more.
TwoTuns == {"tun0", "tun1"}
ThreeTuns == {"tun0", "tun1", "tun2"}

\* What may happen to commands.
FailOrRaise == {"fails", "raises"}
NoFault == {}
=============================================================================
