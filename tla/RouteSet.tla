------------------------------ MODULE RouteSet ------------------------------
(***************************************************************************)
(* What the routes of Tor's relays promise as a whole, whichever threads   *)
(* add them: a relay, once routed, stays routed until the daemon removes   *)
(* all of them, and it goes on, or ends, only when none is left.           *)
(* TorRoutes implements it.                                                *)
(***************************************************************************)
CONSTANT Ips

VARIABLES
    phase,      \* the daemon is "up", "closing", "removing" routes, or "down"
    routed      \* the relays with a route

vars == <<phase, routed>>

Init == phase = "closing" /\ routed = {}

\* Whoever is still at work when the daemon closes may add.
Add ==
    /\ phase \in {"up", "closing"}
    /\ \E ip \in Ips : routed' = routed \cup {ip}
    /\ UNCHANGED phase

\* A restart, a signal; a signal interrupts a removal, which begins again.
Close ==
    /\ phase \in {"up", "removing"}
    /\ phase' = "closing"
    /\ UNCHANGED routed

BeginRemoval == phase = "closing" /\ phase' = "removing" /\ UNCHANGED routed

Remove ==
    /\ phase = "removing"
    /\ \E ip \in routed : routed' = routed \ {ip}
    /\ UNCHANGED phase

EndRemoval ==
    /\ phase = "removing" /\ routed = {}
    /\ phase' \in {"up", "down"}
    /\ UNCHANGED routed

\* A new process removes first.
Start == phase = "down" /\ phase' = "closing" /\ UNCHANGED routed

Next == Add \/ Close \/ BeginRemoval \/ Remove \/ EndRemoval \/ Start

Spec == Init /\ [][Next]_vars
=============================================================================
