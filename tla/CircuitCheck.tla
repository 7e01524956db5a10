---------------------------- MODULE CircuitCheck ----------------------------
(***************************************************************************)
(* The quality check of the Tor circuit (daemon/openvpn.py,                *)
(* _circuit_quality_check): each tunnel starts a thread that waits,        *)
(* measures the throughput, asks Tor for new circuits if it is low and     *)
(* terminates OpenVPN, so that the loop connects again on other relays.    *)
(* The measurement takes up to a minute: the tunnel may be gone and        *)
(* replaced when it ends, and the thread is still there.                   *)
(*                                                                         *)
(* A thread tests and writes shared fields in one step where it does       *)
(* nothing slow in between: the loop needs two seconds and a connection    *)
(* through Tor to replace a tunnel.                                        *)
(***************************************************************************)
EXTENDS Integers, FiniteSets, Lexicographic

CONSTANTS
    MaxTry,             \* circuit_max_retries
    MaxTunnels,         \* bound: processes started
    Results,            \* what a measurement may return ("none" is -1)
    MaxCuts             \* bound: cuts, and full restarts of the watchdog

ASSUME CircuitCheckAssumption ==
    /\ MaxTry \in Nat /\ MaxTunnels \in Nat /\ MaxCuts \in Nat
    /\ Results \subseteq {"good", "slow", "none"}

\* OpenVPN processes, and the checks they start, are numbered from 1.
Tunnels == 1 .. MaxTunnels

VARIABLES
    loop,               \* where the loop thread is
    proc,               \* openvpn_process, 0 for None
    alive,              \* the processes that run
    up,                 \* _tunnel_up
    stop,               \* _stop_vpn
    kbs,                \* the process _last_circuit_kbs was measured on, or 0
    attempts,           \* _circuit_attempts
    retry,              \* _circuit_retry
    check,              \* each check: where it is and its local proc
    cuts                \* cuts and full restarts so far

loopVars == <<loop, proc, up, stop>>
circuitVars == <<kbs, attempts, retry>>
vars == <<loopVars, alive, circuitVars, check, cuts>>

LoopStates == {"head", "session", "setup", "established", "decide", "over"}
CheckStates == {"none", "wait", "measure", "newnym", "retry", "kill", "over"}
CheckType == [at : CheckStates, proc : 0 .. MaxTunnels]
At(t, at) == check' = [check EXCEPT ![t].at = at]

-----------------------------------------------------------------------------
(* The OpenVPN loop, as the check sees it                                  *)

Connect ==
    /\ loop = "head" /\ ~stop
    /\ proc < MaxTunnels
    /\ proc' = proc + 1 /\ alive' = alive \cup {proc + 1}
    /\ loop' = "session"
    /\ up' = FALSE
    /\ UNCHANGED <<stop, circuitVars, check, cuts>>

\* "Initialization Sequence Completed": the flag goes up before the setup, and the
\* measurement of the tunnel before is dropped.
Established ==
    /\ loop = "session"
    /\ loop' = "setup"
    /\ up' = TRUE
    /\ kbs' = 0
    /\ UNCHANGED <<proc, alive, stop, attempts, retry, check, cuts>>

\* After DNS and firewall, a thread of its own.
StartCheck ==
    /\ loop = "setup"
    /\ loop' = "established"
    /\ check' = [check EXCEPT ![proc] = [at |-> "wait", proc |-> 0]]
    /\ UNCHANGED <<proc, alive, up, stop, circuitVars, cuts>>

SessionEnds ==
    /\ loop \in {"session", "established"} /\ proc \notin alive
    /\ loop' = "decide"
    /\ up' = FALSE
    /\ UNCHANGED <<proc, alive, stop, circuitVars, check, cuts>>

\* The stop comes first, then a re-draw; otherwise accounts decide (Failover).
Decide ==
    /\ loop = "decide"
    /\ IF stop
       THEN loop' = "over" /\ UNCHANGED retry
       ELSE /\ loop' \in IF retry THEN {"head"} ELSE {"head", "over"}
            /\ retry' = FALSE
    /\ UNCHANGED <<proc, up, stop, alive, kbs, attempts, check, cuts>>

ObserveStop ==
    /\ loop = "head" /\ stop
    /\ loop' = "over"
    /\ UNCHANGED <<proc, up, stop, alive, circuitVars, check, cuts>>

\* A cut, a refusal, ping-exit.
Cut ==
    /\ cuts < MaxCuts /\ cuts' = cuts + 1
    /\ \E p \in alive : alive' = alive \ {p}
    /\ UNCHANGED <<loopVars, circuitVars, check>>

-----------------------------------------------------------------------------
(* _full_restart                                                           *)

StopVpn ==
    /\ cuts < MaxCuts /\ cuts' = cuts + 1
    /\ ~stop
    /\ stop' = TRUE
    /\ UNCHANGED <<loop, proc, up, alive, circuitVars, check>>

StopOpenvpn ==
    /\ stop /\ proc \in alive
    /\ alive' = alive \ {proc}
    /\ UNCHANGED <<loopVars, circuitVars, check, cuts>>

\* The loop is over, and a new one starts.
Restart ==
    /\ stop /\ loop = "over"
    /\ loop' = "head"
    /\ stop' = FALSE /\ up' = FALSE
    /\ attempts' = 0 /\ retry' = FALSE
    /\ UNCHANGED <<proc, alive, kbs, check, cuts>>

-----------------------------------------------------------------------------
(* _circuit_quality_check                                                  *)

\* It captures the process that is there when it wakes up.
Wake(t) ==
    /\ check[t].at = "wait"
    /\ check' = [check EXCEPT ![t] = IF up /\ ~stop
                                     THEN [at |-> "measure", proc |-> proc]
                                     ELSE [at |-> "over", proc |-> 0]]
    /\ UNCHANGED <<loopVars, alive, circuitVars, cuts>>

\* Mutant: the process is not compared.
TunnelIntactAny(t) == up /\ ~stop
\* tunnel_intact
TunnelIntact(t) == check[t].proc = proc /\ up /\ ~stop

\* The tunnel is gone, or nothing could be measured.
Abandon(t) ==
    /\ check[t].at = "measure"
    /\ TunnelIntact(t) => "none" \in Results
    /\ At(t, "over")
    /\ UNCHANGED <<loopVars, alive, circuitVars, cuts>>

Measured(t) ==
    /\ check[t].at = "measure" /\ TunnelIntact(t)
    /\ kbs' = check[t].proc

GoodCircuit(t) ==
    /\ "good" \in Results
    /\ Measured(t)
    /\ attempts' = 0
    /\ At(t, "over")
    /\ UNCHANGED <<loopVars, alive, retry, cuts>>

\* Mutant: the bound is met one re-draw late.
TriesLeftMore == attempts <= MaxTry
\* self._circuit_attempts < max_try
TriesLeft == attempts < MaxTry

KeepSlow(t) ==
    /\ "slow" \in Results
    /\ Measured(t)
    /\ ~TriesLeft
    /\ At(t, "over")
    /\ UNCHANGED <<loopVars, alive, attempts, retry, cuts>>

\* Mutant: the attempt is not counted.
OneMoreAttemptNot == attempts
\* self._circuit_attempts += 1
OneMoreAttempt == attempts + 1

DrawAgain(t) ==
    /\ "slow" \in Results
    /\ Measured(t)
    /\ TriesLeft
    /\ attempts' = OneMoreAttempt
    /\ At(t, "newnym")
    /\ UNCHANGED <<loopVars, alive, retry, cuts>>

\* The answer of the ControlPort takes its time; a failure is ignored.
NewTorCircuit(t) ==
    /\ check[t].at = "newnym"
    /\ At(t, "retry")
    /\ UNCHANGED <<loopVars, alive, circuitVars, cuts>>

RaiseRetry(t) ==
    /\ check[t].at = "retry"
    /\ retry' = TRUE
    /\ At(t, "kill")
    /\ UNCHANGED <<loopVars, alive, kbs, attempts, cuts>>

\* Mutant: the process that is there now.
TargetCurrent(t) == proc
\* The process that was measured.
Target(t) == check[t].proc

\* If it still runs.
Terminate(t) ==
    /\ check[t].at = "kill"
    /\ alive' = alive \ {Target(t)}
    /\ At(t, "over")
    /\ UNCHANGED <<loopVars, circuitVars, cuts>>

-----------------------------------------------------------------------------
Init ==
    /\ loop = "head" /\ proc = 0 /\ alive = {} /\ up = FALSE /\ stop = FALSE
    /\ kbs = 0 /\ attempts = 0 /\ retry = FALSE
    /\ check = [t \in Tunnels |-> [at |-> "none", proc |-> 0]] /\ cuts = 0

LoopStep == Connect \/ Established \/ StartCheck \/ SessionEnds \/ Decide \/ ObserveStop
MainStep == StopVpn \/ StopOpenvpn \/ Restart
CheckStep(t) ==
    \/ Wake(t) \/ Abandon(t) \/ GoodCircuit(t) \/ KeepSlow(t) \/ DrawAgain(t)
    \/ NewTorCircuit(t) \/ RaiseRetry(t) \/ Terminate(t)

Next == LoopStep \/ Cut \/ MainStep \/ \E t \in Tunnels : CheckStep(t)

Spec == Init /\ [][Next]_vars

\* Every thread goes on: its waits are bounded by timeouts.
FairSpec ==
    /\ Spec
    /\ WF_vars(LoopStep) /\ WF_vars(StopOpenvpn) /\ WF_vars(Restart)
    /\ \A t \in Tunnels : WF_vars(CheckStep(t))

-----------------------------------------------------------------------------
(* Properties                                                              *)

TypeOK ==
    /\ loop \in LoopStates
    /\ proc \in 0 .. MaxTunnels /\ alive \subseteq Tunnels
    /\ up \in BOOLEAN /\ stop \in BOOLEAN /\ retry \in BOOLEAN
    /\ kbs \in 0 .. MaxTunnels
    /\ attempts \in 0 .. MaxTry /\ cuts \in 0 .. MaxCuts
    /\ check \in [Tunnels -> CheckType]

\* What the status socket shows as the quality of the circuit was measured on the
\* tunnel that is up ("la mesure du precedent ne le decrit plus", openvpn.py:571).
KbsIsCurrent == up => kbs \in {0, proc}

\* A check that takes down the tunnel of the moment has told the loop that it is a
\* re-draw and no failure of an account (openvpn.py:618), whatever cuts, decisions
\* of the loop, full restarts and other checks came between its measurement and its
\* end: a check that comes late finds another tunnel there, and leaves it alone
\* ("pire, tuerait le processus qui a pris sa place", openvpn.py:361).
KillIsRedraw ==
    [][\A t \in Tunnels :
           check[t].at = "kill" /\ check'[t].at = "over" /\ proc \in alive \ alive'
               => retry]_vars

\* The re-draws come to an end: the loop is over, or the tunnel stays ("pour ne
\* jamais boucler : au-dela, on garde le circuit tel quel", openvpn.py:333).
Settles == <>[](loop = "over" \/ (loop = "established" /\ proc \in alive))

\* What the threads may still do: the cuts to come and the steps of a full
\* restart; the checks to come, under way or, the tunnel being lost, to start
\* again; the circuits to draw; the way of the loop to a tunnel; the steps of the
\* checks.
In(S) == Cardinality({t \in Tunnels : check[t].at \in S})
One(b) == IF b THEN 1 ELSE 0
Lost == loop \in {"session", "setup", "established"} /\ proc \notin alive

CutsLeft == 3 * (MaxCuts - cuts) + One(stop) + One(stop /\ proc \in alive)
ChecksLeft ==
    In({"wait", "measure", "newnym", "retry", "kill"}) + One(loop \in {"session", "setup"})
    + One(stop \/ Lost \/ loop \in {"head", "decide"})
DrawsLeft == MaxTry - attempts + In({"newnym", "retry", "kill"})
LoopLeft ==
    CASE loop \in {"over", "established"} -> IF Lost THEN 5 ELSE 0
      [] loop = "setup" -> IF Lost THEN 6 ELSE 1
      [] loop = "session" -> IF Lost THEN 7 ELSE 2
      [] loop = "head" -> 3
      [] loop = "decide" -> 4
StepsLeft ==
    In({"wait"}) + In({"wait", "measure"}) + In({"wait", "measure", "newnym"})
    + In({"wait", "measure", "newnym", "retry"})
Budget == <<CutsLeft, ChecksLeft, DrawsLeft, LoopLeft, StepsLeft>>

\* Settles without its fairness: every step of every thread spends, however many
\* checks of tunnels past are still there, and only a cut of the tunnel or a full
\* restart lets the daemon draw more circuits than MaxTry between two good ones.
RedrawsEnd == [][AllNat(Budget) /\ Below(Budget', Budget)]_vars
=============================================================================
