---------------------------- MODULE MCTorRoutes ----------------------------
(* Instances of TorRoutes for TLC. *)
EXTENDS TorRoutes, TLC

CONSTANTS loop, helper, monitor, r1, r2, g1, g2

\* The three threads that add routes.
AllCallers == {loop, helper, monitor}
\* Two relays: one that is being added and one that is known.
TwoIps == {r1, r2}
IpSymmetry == Permutations(TwoIps)

OneGateway == {g1}
TwoGateways == {g1, g2}
LostGateway == {g1, None}

NoFault == {}
FileLost == {"file"}
Overlapping == {"overlap"}
Crashing == {"crash"}
CommandFails == {"command"}
CrashFileCommand == {"crash", "file", "command"}
=============================================================================
