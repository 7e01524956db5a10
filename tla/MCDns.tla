------------------------------- MODULE MCDns -------------------------------
(* Instances of Dns for TLC. *)
EXTENDS Dns

CONSTANTS s1, s2

\* The servers of two VPN servers.
TwoServers == {s1, s2}

\* One of them, or none.
OneOrNone == {{}, {s1}, {s2}}
=============================================================================
