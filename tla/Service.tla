------------------------------ MODULE Service ------------------------------
(***************************************************************************)
(* What the daemon promises as a service, whatever happens in its threads: *)
(* it gives up only while there is no tunnel, or after REPAIR_THRESHOLD    *)
(* failures in a row, which end in the emergency repair; and it is given   *)
(* up only to be started again.  It may crash anywhere but in the repair,  *)
(* which is no decision of its own.  Lifecycle implements it.              *)
(***************************************************************************)
EXTENDS Naturals

CONSTANT REPAIR_THRESHOLD

VARIABLES
    state,      \* the tunnel is "down" or "up", or the daemon repairs, is gone or crashed
    strikes     \* full restarts in a row

vars == <<state, strikes>>

Init == state = "down" /\ strikes = 0

Up == state = "down" /\ state' = "up" /\ UNCHANGED strikes
Drop == state = "up" /\ state' = "down" /\ UNCHANGED strikes

\* The watchdog heard of an endpoint; the tunnel may have dropped since.
Answer == state \in {"down", "up"} /\ strikes' = 0 /\ UNCHANGED state

Strike ==
    /\ state \in {"down", "up"}
    /\ strikes + 1 < REPAIR_THRESHOLD
    /\ strikes' = strikes + 1
    /\ UNCHANGED state

Repair ==
    /\ state \in {"down", "up"}
    /\ strikes + 1 = REPAIR_THRESHOLD
    /\ strikes' = REPAIR_THRESHOLD
    /\ state' = "repair"

Exit == state \in {"down", "repair"} /\ state' = "gone" /\ UNCHANGED strikes

Crash == state \in {"down", "up"} /\ state' = "crashed" /\ UNCHANGED strikes

Restart == state \in {"gone", "crashed"} /\ state' = "down" /\ strikes' = 0

Next == Up \/ Drop \/ Answer \/ Strike \/ Repair \/ Exit \/ Crash \/ Restart

Spec == Init /\ [][Next]_vars
=============================================================================
