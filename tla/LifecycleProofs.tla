-------------------------- MODULE LifecycleProofs --------------------------
(***************************************************************************)
(* Proofs about Lifecycle, for any set of loop threads and any thresholds: *)
(* types, the exclusion of the loops, the justification of the emergency   *)
(* repair, and, when no exception is raised while a line of OpenVPN is     *)
(* handled, the single OpenVPN process and the truth of _tunnel_up.        *)
(***************************************************************************)
EXTENDS Lifecycle, TLAPS

-----------------------------------------------------------------------------
(* Types and counters                                                      *)

\* The counters reach their limits only on the way out.
ConnBound ==
    conn_fails < CONN_FAIL_MAX
        \/ main \in {"stop", "kill", "stop_tor", "wait", "reset", "repair"} \cup Gone
RestartBound == full_restarts < REPAIR_THRESHOLD \/ main \in {"repair"} \cup Gone
InertBound == inert_ticks < INERT_EXIT_TICKS \/ main \in Gone

\* A series of full restarts is as long as the endpoints have been silent.
RestartsAreSilent ==
    /\ full_restarts <= unverified
    /\ main = "repair" => full_restarts >= REPAIR_THRESHOLD

TypeInv == TypeOK /\ ConnBound /\ RestartBound /\ InertBound /\ RestartsAreSilent

\* Zero is a value of every count, below its limit.
LEMMA Zero ==
    /\ 0 \in 0 .. CONN_FAIL_MAX /\ 0 < CONN_FAIL_MAX
    /\ 0 \in 0 .. REPAIR_THRESHOLD /\ 0 < REPAIR_THRESHOLD /\ 0 \in 0 .. REPAIR_THRESHOLD + 1
    /\ 0 \in 0 .. INERT_EXIT_TICKS /\ 0 < INERT_EXIT_TICKS
    /\ 0 \in Nat /\ 0 <= 0
  BY LifecycleAssumption

\* A new process starts every count at zero.
LEMMA TypeInit == Init => TypeInv
<1> SUFFICES ASSUME Init PROVE TypeInv
  OBVIOUS
<1>1. TypeOK
  BY Zero, LifecycleAssumption DEF Init, TypeOK, MainStates, LoopStates, Gone
<1>2. ConnBound /\ RestartBound /\ InertBound /\ RestartsAreSilent
  BY Zero DEF Init, ConnBound, RestartBound, InertBound, RestartsAreSilent
<1> QED
  BY <1>1, <1>2 DEF TypeInv

\* A move of a loop thread keeps the type of the threads.
LEMMA AtType ==
    ASSUME TypeOK, NEW t \in Threads, NEW from, NEW to \in LoopStates, At(t, from, to)
    PROVE  loop' \in [Threads -> LoopStates]
  BY DEF TypeOK, At

\* Every step of a loop thread moves it and touches no count.
LEMMA LoopFrame ==
    ASSUME TypeOK, NEW t \in Threads, LoopStep(t) \/ Established(t) \/ Raise(t)
    PROVE  /\ \E from, to \in LoopStates : At(t, from, to)
           /\ UNCHANGED <<auto_reconnect, main, tor, countVars>>
<1> USE DEF LoopStates
<1>1. CASE Enter(t)
  BY <1>1 DEF Enter, Acquire
<1>2. CASE Head(t) \/ SetupEnds(t) \/ Decide(t) \/ Resume(t) \/ Raise(t)
  BY <1>2 DEF Head, SetupEnds, Decide, Resume, Raise, LoopMove
<1>3. CASE Connect(t)
  BY <1>3 DEF Connect
<1>4. CASE SessionEnds(t)
  BY <1>4 DEF SessionEnds
<1>5. CASE Begin(t) \/ Leave(t) \/ Established(t)
  BY <1>5 DEF Begin, Leave, Established
<1> QED
  BY <1>1, <1>2, <1>3, <1>4, <1>5 DEF LoopStep

\* Every step keeps the types of the flags that loop threads write.
LEMMA LoopFlags ==
    ASSUME TypeOK, NEW t \in Threads, LoopStep(t) \/ Established(t) \/ Raise(t)
    PROVE  /\ vpn_loop_active' \in BOOLEAN /\ stop_vpn' \in BOOLEAN
           /\ tunnel_up' \in BOOLEAN /\ in_grace' \in BOOLEAN
           /\ process' \in {"none", "alive", "dead"} /\ strays' \in Nat
<1> USE DEF TypeOK, tunnelVars, openvpnVars
<1>1. CASE Enter(t)
  BY <1>1 DEF Enter, Acquire
<1>2. CASE Head(t) \/ SetupEnds(t) \/ Decide(t) \/ Resume(t) \/ Raise(t)
  BY <1>2 DEF Head, SetupEnds, Decide, Resume, Raise, LoopMove
<1>3. CASE Connect(t)
  <2>1. strays' \in Nat /\ process' \in {"none", "alive", "dead"}
    BY <1>3 DEF Connect, OpenvpnCount
  <2> QED
    BY <1>3, <2>1 DEF Connect
<1>4. CASE SessionEnds(t)
  BY <1>4 DEF SessionEnds, TunnelDown
<1>5. CASE Begin(t) \/ Leave(t) \/ Established(t)
  BY <1>5 DEF Begin, Leave, Established
<1> QED
  BY <1>1, <1>2, <1>3, <1>4, <1>5 DEF LoopStep

\* Every step keeps the types and the limits of the counts.
LEMMA TypeStep == TypeInv /\ [Next]_vars => TypeInv'
<1> SUFFICES ASSUME TypeInv, [Next]_vars PROVE TypeInv'
  OBVIOUS
<1> USE LifecycleAssumption DEF Gone, TypeInv, ConnBound, RestartBound, InertBound, RestartsAreSilent
<1>1. ASSUME NEW t \in Threads, LoopStep(t) \/ Established(t) \/ Raise(t)
      PROVE  TypeInv'
  <2>1. UNCHANGED <<auto_reconnect, main, tor, inert_ticks, conn_fails, full_restarts, unverified>>
    BY <1>1, LoopFrame DEF countVars
  <2>2. loop' \in [Threads -> LoopStates]
    BY <1>1, LoopFrame, AtType
  <2>3. /\ vpn_loop_active' \in BOOLEAN /\ stop_vpn' \in BOOLEAN
        /\ tunnel_up' \in BOOLEAN /\ in_grace' \in BOOLEAN
        /\ process' \in {"none", "alive", "dead"} /\ strays' \in Nat
    BY <1>1, LoopFlags
  <2> QED
    BY <2>1, <2>2, <2>3 DEF TypeOK
<1> USE DEF TypeOK, loopVars, tunnelVars, openvpnVars, countVars, MainStates, Monitoring, Restarting
<1>2. CASE InertNet
  BY <1>2 DEF InertNet
<1>3. CASE WatchTunnel
  BY <1>3 DEF WatchTunnel
<1>4. CASE CheckPasses
  BY <1>4 DEF CheckPasses, MainMove, NoRestarts
<1>5. CASE CheckFails
  BY <1>5 DEF CheckFails
<1>6. CASE Repair
  BY <1>6 DEF Repair, MainMove
<1>14. CASE StopVpn
  BY <1>14 DEF StopVpn, MainMove
<1>15. CASE StopTor
  BY <1>15 DEF StopTor, MainMove
<1>16. CASE WaitLoopExit
  BY <1>16 DEF WaitLoopExit, MainMove
<1>7. CASE StopOpenvpn
  BY <1>7 DEF StopOpenvpn, MainMove
<1>8. CASE ResetState
  <2>1. TypeOK'
    BY <1>8, Zero DEF ResetState, MainMove, NoConnFails
  <2>2. ConnBound' /\ RestartBound' /\ InertBound' /\ RestartsAreSilent'
    BY <1>8, Zero DEF ResetState, MainMove, NoConnFails
  <2> QED
    BY <2>1, <2>2
<1>9. CASE StartServices
  <2>1. loop' \in [Threads -> LoopStates]
    BY <1>9, AtType DEF StartServices, LoopStates
  <2>2. main' \in {"sleep", "exited"} /\ tor' \in BOOLEAN
    BY <1>9 DEF StartServices
  <2> QED
    BY <1>9, <2>1, <2>2 DEF StartServices
<1>10. CASE ProcessEnds
  BY <1>10 DEF ProcessEnds
<1>13. CASE TorChanges \/ GraceEnds
  <2>1. tor' \in BOOLEAN /\ in_grace' \in BOOLEAN
    BY <1>13 DEF TorChanges, GraceEnds
  <2> QED
    BY <1>13, <2>1 DEF TorChanges, GraceEnds
<1>11. CASE SystemdRestart
  <2>1. loop' \in [Threads -> LoopStates]
    BY <1>11 DEF SystemdRestart, LoopStates
  <2>2. TypeOK'
    BY <1>11, <2>1, Zero DEF SystemdRestart, MainMove
  <2>3. ConnBound' /\ RestartBound' /\ InertBound' /\ RestartsAreSilent'
    BY <1>11, Zero DEF SystemdRestart, MainMove
  <2> QED
    BY <2>2, <2>3
<1>12. CASE UNCHANGED vars
  BY <1>12 DEF vars
<1>17. CASE MainRaises
  BY <1>17 DEF MainRaises
<1> QED
  BY <1>1, <1>2, <1>3, <1>4, <1>5, <1>6, <1>7, <1>8, <1>9, <1>10, <1>11, <1>12, <1>13,
     <1>14, <1>15, <1>16, <1>17 DEF Next, MainStep

\* Every variable keeps its type, and every counter its limit.
THEOREM LifecycleTypeCorrect == Spec => []TypeOK
<1>1. TypeInv => TypeOK
  BY DEF TypeInv
<1> QED
  BY <1>1, TypeInit, TypeStep, PTL DEF Spec

\* The watchdog never runs the emergency repair before REPAIR_THRESHOLD full
\* restarts during which no endpoint answered (watchdog.py:77).
THEOREM RepairJustified == Spec => RepairIsJustified
<1>1. TypeInv' => (main' = "repair" => unverified' >= REPAIR_THRESHOLD)
  BY LifecycleAssumption DEF TypeInv, TypeOK, RestartsAreSilent
<1>2. TypeInv /\ TypeInv' /\ [Next]_vars => [main' = "repair" => unverified' >= REPAIR_THRESHOLD]_vars
  BY <1>1
<1> QED
  BY <1>2, TypeInit, TypeStep, PTL DEF Spec, RepairIsJustified

-----------------------------------------------------------------------------
(* One loop                                                                *)

\* A thread that moves inside the loop stays its owner, and the only one.
LEMMA OwnersKept ==
    ASSUME TypeOK, OneLoop, NEW t \in Threads, NEW from, NEW to \in LoopStates, At(t, from, to),
           (from \in {"none", "start"}) <=> (to \in {"none", "start"}),
           UNCHANGED vpn_loop_active
    PROVE  OneLoop'
<1>1. \A s \in Threads : s # t => loop'[s] = loop[s]
  BY DEF TypeOK, At
<1>2. loop[t] = from /\ loop'[t] = to
  BY DEF TypeOK, At
<1>3. Owners' = Owners
  BY <1>1, <1>2 DEF Owners
<1> QED
  BY <1>3 DEF OneLoop

\* A step keeps the exclusion of the loops: the lock is taken by one thread when
\* none is in the loop, and dropped by the only one that is.
LEMMA OneLoopStep == TypeInv /\ OneLoop /\ [Next]_vars => OneLoop'
<1> SUFFICES ASSUME TypeOK, OneLoop, [Next]_vars PROVE OneLoop'
  BY DEF TypeInv
<1> USE DEF LoopStates
<1>1. ASSUME NEW t \in Threads, Enter(t)
      PROVE  OneLoop'
  <2>1. CASE vpn_loop_active /\ At(t, "start", "none") /\ UNCHANGED vpn_loop_active
    BY <2>1, OwnersKept
  <2>2. CASE ~vpn_loop_active /\ At(t, "start", "begin") /\ vpn_loop_active' = TRUE
    <3>1. Owners = {}
      BY <2>2 DEF OneLoop
    <3>2. Owners' = {t}
      BY <2>2, <3>1 DEF Owners, At, TypeOK
    <3> QED
      BY <2>2, <3>2 DEF OneLoop
  <2> QED
    BY <1>1, <2>1, <2>2 DEF Enter, Acquire
<1>2. ASSUME NEW t \in Threads, Leave(t)
      PROVE  OneLoop'
  <2>1. t \in Owners /\ vpn_loop_active' = FALSE
    BY <1>2 DEF Leave, At, Owners
  <2>2. Owners' = {}
    <3>1. \A s \in Threads : s # t => s \notin Owners /\ loop'[s] = loop[s]
      BY <1>2, <2>1 DEF Leave, At, TypeOK, OneLoop, Owners
    <3>2. loop'[t] = "none"
      BY <1>2 DEF Leave, At, TypeOK
    <3> QED
      BY <3>1, <3>2 DEF Owners
  <2> QED
    BY <2>1, <2>2 DEF OneLoop
<1>3. ASSUME NEW t \in Threads,
             \/ Begin(t) \/ Head(t) \/ Connect(t) \/ SetupEnds(t) \/ SessionEnds(t)
             \/ Decide(t) \/ Resume(t) \/ Established(t) \/ Raise(t)
      PROVE  OneLoop'
  <2>1. PICK from \in LoopStates \ {"none", "start"}, to \in LoopStates \ {"none", "start"} :
           At(t, from, to) /\ UNCHANGED vpn_loop_active
    BY <1>3 DEF Begin, Head, Connect, SetupEnds, SessionEnds, Decide, Resume, Established, Raise,
       LoopMove
  <2> QED
    BY <2>1, OwnersKept
<1>4. CASE StartServices
  <2>1. CASE UNCHANGED loop
    BY <1>4, <2>1 DEF StartServices, OneLoop, Owners
  <2>2. CASE \E t \in Threads : At(t, "none", "start")
    BY <1>4, <2>2, OwnersKept DEF StartServices
  <2> QED
    BY <1>4, <2>1, <2>2 DEF StartServices
<1>5. CASE SystemdRestart
  BY <1>5 DEF SystemdRestart, OneLoop, Owners
<1>6. CASE UNCHANGED loopVars
  BY <1>6 DEF loopVars, OneLoop, Owners
<1>7. CASE \/ InertNet \/ WatchTunnel \/ CheckPasses \/ CheckFails \/ Repair \/ StopVpn
           \/ StopOpenvpn \/ StopTor \/ WaitLoopExit \/ ResetState \/ ProcessEnds \/ TorChanges
           \/ GraceEnds \/ MainRaises \/ UNCHANGED vars
  BY <1>6, <1>7 DEF InertNet, WatchTunnel, CheckPasses, CheckFails, Repair, StopVpn, StopOpenvpn,
     StopTor, WaitLoopExit, ResetState, ProcessEnds, TorChanges, GraceEnds, MainRaises, vars
<1> QED
  BY <1>1, <1>2, <1>3, <1>4, <1>5, <1>7 DEF Next, MainStep, LoopStep

\* The exclusion and the types hold throughout every execution.
LEMMA OneLoopAlways == Spec => [](TypeInv /\ OneLoop)
<1>1. Init => OneLoop
  BY DEF Init, OneLoop, Owners
<1> QED
  BY <1>1, TypeInit, TypeStep, OneLoopStep, PTL DEF Spec

\* At most one thread runs the OpenVPN loop and _vpn_loop_active says whether one
\* does (_openvpn_loop), however many threads full restarts start and whatever
\* is raised.
THEOREM OneLoopCorrect == Spec => []OneLoop
  BY OneLoopAlways, PTL

-----------------------------------------------------------------------------
(* One process and a true flag, when nothing is raised                     *)

Live == {"setup", "session"}
Reading == {"connecting"} \cup Live

\* A process that lives is one whose output the loop reads; _tunnel_up is what
\* the loop makes it; and between the stop of Tor and its next start no tunnel
\* comes up, so that a full restart lowers the flag of none.
SessionInv ==
    /\ strays = 0
    /\ process = "alive" => \E t \in Threads : loop[t] \in Reading
    /\ tunnel_up => \E t \in Threads : loop[t] \in Live
    /\ \A t \in Threads : loop[t] \in Live /\ process = "alive" => tunnel_up
    /\ main \in {"wait", "reset", "start"} => ~tor
    /\ main = "reset" => \A t \in Threads : loop[t] \in Live => process # "alive"

\* Moves of a thread that is not reading the output of a process.
LEMMA SessionQuiet ==
    ASSUME TypeOK, SessionInv, NEW t \in Threads, NEW from, NEW to, At(t, from, to),
           from \notin Reading, to \notin Reading,
           UNCHANGED <<main, tunnel_up, process, strays, tor>>
    PROVE  SessionInv'
<1>1. \A s \in Threads : loop'[s] \in Reading <=> loop[s] \in Reading
  BY DEF TypeOK, At
<1>2. \A s \in Threads : loop'[s] \in Live <=> loop[s] \in Live
  BY DEF TypeOK, At, Reading
<1> QED
  BY <1>1, <1>2 DEF SessionInv

\* Steps that move no loop thread and start no tunnel.
LEMMA SessionSame ==
    ASSUME SessionInv, UNCHANGED <<loop, tunnel_up, strays>>,
           process' = process \/ process' = "dead",
           main' \in {"wait", "reset", "start"} => ~tor',
           main' = "reset" => main = "reset" \/ \A t \in Threads : loop[t] \in Live => process # "alive"
    PROVE  SessionInv'
  BY DEF SessionInv

\* Every step keeps the session invariant when nothing is raised.
LEMMA SessionStep ==
    ASSUME Exceptions = {}, TypeInv, OneLoop, SessionInv, [Next]_vars
    PROVE  SessionInv'
<1> USE DEF Reading, Live
<1>a. TypeOK
  BY DEF TypeInv
<1>1. ASSUME NEW t \in Threads, Enter(t) \/ Begin(t) \/ Head(t) \/ Decide(t) \/ Resume(t) \/ Leave(t)
      PROVE  SessionInv'
  <2>1. PICK from \in LoopStates \ Reading, to \in LoopStates \ Reading : At(t, from, to)
    BY <1>1 DEF Enter, Acquire, Begin, Head, Decide, Resume, Leave, LoopMove, LoopStates
  <2>2. UNCHANGED <<main, tunnel_up, process, strays, tor>>
    BY <1>1 DEF Enter, Begin, Head, Decide, Resume, Leave, LoopMove, tunnelVars, openvpnVars
  <2> QED
    BY <1>a, <2>1, <2>2, SessionQuiet
<1>2. ASSUME NEW t \in Threads, Connect(t)
      PROVE  SessionInv'
  <2>1. loop[t] = "ready" /\ \A s \in Threads : s # t => loop[s] \in {"none", "start"}
    BY <1>2 DEF Connect, At, OneLoop, Owners
  <2>2. process # "alive" /\ strays = 0
    BY <2>1 DEF SessionInv
  <2>3. /\ \A s \in Threads : s # t => loop'[s] = loop[s]
        /\ loop'[t] \in {"connecting", "exit"}
        /\ loop'[t] = "exit" => process' = process
    BY <1>2, <1>a DEF Connect, At, TypeOK, openvpnVars
  <2>4. strays' = 0
    BY <1>2, <2>2 DEF Connect, OpenvpnCount, openvpnVars
  <2>5. tunnel_up' = FALSE /\ UNCHANGED <<main, tor>>
    BY <1>2 DEF Connect
  <2> QED
    BY <2>1, <2>2, <2>3, <2>4, <2>5 DEF SessionInv
<1>3. ASSUME NEW t \in Threads, Established(t)
      PROVE  SessionInv'
  <2>1. /\ tor /\ tunnel_up' = TRUE /\ UNCHANGED <<main, tor, process, strays>>
        /\ loop[t] = "connecting" /\ loop'[t] = "setup"
        /\ \A s \in Threads : s # t => loop'[s] = loop[s]
    BY <1>3, <1>a DEF Established, At, TypeOK, openvpnVars
  <2> QED
    BY <2>1 DEF SessionInv
<1>4. ASSUME NEW t \in Threads, SetupEnds(t)
      PROVE  SessionInv'
  <2>1. /\ UNCHANGED <<main, tor, process, strays, tunnel_up>>
        /\ loop[t] = "setup" /\ loop'[t] = "session"
        /\ \A s \in Threads : s # t => loop'[s] = loop[s]
    BY <1>4, <1>a DEF SetupEnds, LoopMove, At, TypeOK, openvpnVars, tunnelVars
  <2> QED
    BY <2>1 DEF SessionInv
<1>5. ASSUME NEW t \in Threads, SessionEnds(t)
      PROVE  SessionInv'
  <2>1. process' = "dead" /\ tunnel_up' = FALSE /\ UNCHANGED <<main, tor, strays>>
    BY <1>5 DEF SessionEnds, TunnelDown, openvpnVars
  <2> QED
    BY <2>1 DEF SessionInv
<1>6. ASSUME NEW t \in Threads, Raise(t)
      PROVE  FALSE
  BY <1>6 DEF Raise
<1>7. CASE StartServices
  <2>1. CASE UNCHANGED loop
    BY <1>7, <2>1 DEF StartServices, SessionInv, tunnelVars, openvpnVars
  <2>2. CASE main' = "sleep" /\ tor' = TRUE /\ \E t \in Threads : At(t, "none", "start")
    <3>1. PICK t \in Threads : At(t, "none", "start")
      BY <2>2
    <3>2. \A s \in Threads : loop'[s] = loop[s] \/ (loop[s] = "none" /\ loop'[s] = "start")
      BY <3>1, <1>a DEF At, TypeOK
    <3>3. UNCHANGED <<tunnel_up, process, strays>>
      BY <1>7 DEF StartServices, tunnelVars, openvpnVars
    <3> QED
      BY <2>2, <3>2, <3>3 DEF SessionInv
  <2> QED
    BY <1>7, <2>1, <2>2 DEF StartServices
<1>8. CASE WaitLoopExit
  <2>1. \A t \in Threads : loop[t] \in Live => process # "alive"
    <3>1. CASE ~vpn_loop_active
      BY <3>1 DEF OneLoop, Owners
    <3>2. CASE process # "alive"
      BY <3>2
    <3> QED
      BY <1>8, <3>1, <3>2 DEF WaitLoopExit, LoopExited
  <2>2. UNCHANGED <<loop, tunnel_up, strays, process, tor>> /\ main = "wait" /\ main' = "reset"
    BY <1>8 DEF WaitLoopExit, MainMove, loopVars, tunnelVars, openvpnVars
  <2> QED
    BY <2>1, <2>2, SessionSame DEF SessionInv
<1>9. CASE ResetState
  BY <1>9 DEF ResetState, MainMove, SessionInv, loopVars, openvpnVars
<1>10. CASE SystemdRestart
  BY <1>10 DEF SystemdRestart, MainMove, SessionInv
<1>11. CASE \/ InertNet \/ WatchTunnel \/ CheckPasses \/ CheckFails \/ Repair \/ StopVpn
            \/ StopTor \/ TorChanges \/ MainRaises
  <2>1. /\ UNCHANGED <<loop, tunnel_up, strays, process>>
        /\ main' \notin {"reset", "start"}
    BY <1>11 DEF InertNet, WatchTunnel, CheckPasses, CheckFails, Repair, StopVpn, StopTor,
       TorChanges, MainRaises, MainMove, Monitoring, loopVars, tunnelVars, openvpnVars
  <2>2. main' = "wait" => ~tor'
    BY <1>11 DEF InertNet, WatchTunnel, CheckPasses, CheckFails, Repair, StopVpn, StopTor,
       TorChanges, MainRaises, MainMove, Monitoring, SessionInv
  <2> QED
    BY <2>1, <2>2, SessionSame
<1>12. CASE StopOpenvpn
  <2>1. /\ UNCHANGED <<loop, tunnel_up, strays>>
        /\ process' = process \/ process' = "dead"
        /\ main' = "stop_tor"
    BY <1>12 DEF StopOpenvpn, MainMove, SessionInv, loopVars, tunnelVars
  <2> QED
    BY <2>1, SessionSame
<1>13. CASE ProcessEnds \/ GraceEnds
  <2>1. /\ UNCHANGED <<loop, tunnel_up, strays, main, tor>>
        /\ process' = process \/ process' = "dead"
    BY <1>13 DEF ProcessEnds, GraceEnds, SessionInv, loopVars, tunnelVars, openvpnVars
  <2> QED
    BY <2>1, SessionSame DEF SessionInv
<1>14. CASE UNCHANGED vars
  BY <1>14 DEF vars, loopVars, tunnelVars, openvpnVars, SessionInv
<1> QED
  BY <1>1, <1>2, <1>3, <1>4, <1>5, <1>6, <1>7, <1>8, <1>9, <1>10, <1>11, <1>12, <1>13, <1>14
     DEF Next, MainStep, LoopStep

\* The session invariant holds throughout, when nothing is raised.
LEMMA SessionAlways ==
    ASSUME Exceptions = {}
    PROVE  Spec => [](TypeInv /\ SessionInv)
<1>1. Init => SessionInv
  BY DEF Init, SessionInv, Live, Reading
<1>2. TypeInv /\ OneLoop /\ SessionInv /\ [Next]_vars => SessionInv'
  BY SessionStep
<1> QED
  BY <1>1, <1>2, OneLoopAlways, PTL DEF Spec

\* There are never two OpenVPN processes, when nothing is raised while a line of
\* its output is handled: what the wait of openvpn.py:405 is for.
THEOREM OneOpenvpnCorrect ==
    ASSUME Exceptions = {}
    PROVE  Spec => []OneOpenvpn
<1>1. TypeInv /\ SessionInv => OneOpenvpn
  BY DEF SessionInv, OneOpenvpn, OpenvpnCount
<1> QED
  BY <1>1, SessionAlways, PTL

\* Under the same assumption the flag that the watchdog reads is true to the
\* tunnel, through the races of the loop with a full restart.
THEOREM TunnelWatchedCorrect ==
    ASSUME Exceptions = {}
    PROVE  Spec => []TunnelWatched
<1>1. SessionInv => TunnelWatched
  BY DEF SessionInv, TunnelWatched, Live
<1> QED
  BY <1>1, SessionAlways, PTL

\* Under the same assumption there is one OpenVPN process at most, and the flag of the
\* tunnel is true to it.
THEOREM OneTunnelWatchedCorrect ==
    ASSUME Exceptions = {}
    PROVE  Spec => []OneTunnelWatched
  BY OneOpenvpnCorrect, TunnelWatchedCorrect, PTL DEF OneTunnelWatched

-----------------------------------------------------------------------------
(* The end of the inertia, under the same assumption                       *)

\* A pair of numbers goes down when its first place does, or its second does
\* and the first stays.
LEMMA BelowTwo ==
    ASSUME NEW a, NEW b, DOMAIN a = 1 .. 2,
           a[1] < b[1] \/ (a[1] = b[1] /\ a[2] < b[2])
    PROVE  Below(a, b)
<1>1. PICK i \in 1 .. 2 : a[i] < b[i] /\ \A j \in 1 .. 2 : j < i => a[j] = b[j]
  OBVIOUS
<1>2. \A j \in 1 .. i - 1 : j \in 1 .. 2 /\ j < i
  OBVIOUS
<1> QED
  BY <1>1, <1>2 DEF Below

\* The budget is one of naturals.
LEMMA InertBudgetType == TypeOK => AllNat(InertBudget)
<1> SUFFICES ASSUME TypeOK PROVE AllNat(InertBudget)
  OBVIOUS
<1>1. INERT_EXIT_TICKS - inert_ticks \in Nat
  BY LifecycleAssumption DEF TypeOK
<1>2. StepsToLook \in Nat
  BY DEF StepsToLook, TypeOK, MainStates, Monitoring, Restarting, Gone
<1>3. /\ DOMAIN InertBudget = 1 .. 2
      /\ InertBudget[1] = INERT_EXIT_TICKS - inert_ticks /\ InertBudget[2] = StepsToLook
  BY DEF InertBudget
<1> QED
  BY <1>1, <1>2, <1>3 DEF AllNat

\* Every step of the main thread of an inert daemon spends: the flag of the
\* tunnel is down, so that each look at the inertia counts.
LEMMA InertMain ==
    ASSUME TypeOK, SessionInv, OneLoop, Inert, {main, main'} \cap Gone = {}, MainStep
    PROVE  Below(InertBudget', InertBudget)
<1>1. LooksInert
  BY DEF Inert, LooksInert, OneLoop, Owners, SessionInv, Live
<1>2. /\ DOMAIN InertBudget' = 1 .. 2
      /\ InertBudget'[1] = INERT_EXIT_TICKS - inert_ticks' /\ InertBudget'[2] = StepsToLook'
      /\ InertBudget[1] = INERT_EXIT_TICKS - inert_ticks /\ InertBudget[2] = StepsToLook
  BY DEF InertBudget
<1>3. CASE InertNet
  <2>1. inert_ticks' = inert_ticks + 1
    BY <1>1, <1>3 DEF InertNet
  <2>2. INERT_EXIT_TICKS - inert_ticks' < INERT_EXIT_TICKS - inert_ticks
    BY <2>1, LifecycleAssumption DEF TypeOK
  <2> QED
    BY <1>2, <2>2, BelowTwo
<1>4. ASSUME StepsToLook' < StepsToLook, UNCHANGED inert_ticks
      PROVE  Below(InertBudget', InertBudget)
  BY <1>2, <1>4, BelowTwo
<1>5. CASE WatchTunnel
  <2>1. main = "watch" /\ main' = "sleep" /\ UNCHANGED inert_ticks
    BY <1>1, <1>5 DEF WatchTunnel, LooksInert
  <2> QED
    BY <1>4, <2>1 DEF StepsToLook, Gone
<1>6. CASE CheckPasses \/ CheckFails
  <2>1. main = "check" /\ main' \in {"sleep", "repair", "stop"} /\ UNCHANGED inert_ticks
    BY <1>6 DEF CheckPasses, CheckFails, MainMove
  <2> QED
    BY <1>4, <2>1 DEF StepsToLook, Gone
<1>7. CASE StopVpn \/ StopOpenvpn \/ StopTor \/ WaitLoopExit \/ ResetState
  <2>1. /\ <<main, main'>> \in {<<"stop", "kill">>, <<"kill", "stop_tor">>, <<"stop_tor", "wait">>,
                                <<"wait", "reset">>, <<"reset", "start">>}
        /\ UNCHANGED inert_ticks
    BY <1>7 DEF StopVpn, StopOpenvpn, StopTor, WaitLoopExit, ResetState, MainMove, countVars
  <2> QED
    BY <1>4, <2>1 DEF StepsToLook, Gone
<1>8. CASE StartServices
  <2>1. main \in {"boot", "start"} /\ main' = "sleep" /\ UNCHANGED inert_ticks
    BY <1>8 DEF StartServices, countVars, Gone
  <2> QED
    BY <1>4, <2>1 DEF StepsToLook, Gone
<1>9. CASE Repair
  BY <1>9 DEF Repair, MainMove, Gone
<1> QED
  BY <1>3, <1>5, <1>6, <1>7, <1>8, <1>9 DEF MainStep

\* A daemon without a loop and without an OpenVPN process comes nearer to its
\* exit with every step of its main thread (the net against inertia of
\* watchdog.py), when nothing is raised while a line of OpenVPN is handled.
THEOREM InertiaEndsCorrect ==
    ASSUME Exceptions = {}
    PROVE  Spec => InertiaEnds
<1>1. ASSUME TypeInv, SessionInv, OneLoop, [Next]_vars, Inert, {main, main'} \cap Gone = {}
      PROVE  /\ AllNat(InertBudget)
             /\ IF MainStep THEN Below(InertBudget', InertBudget)
                ELSE InertBudget' = InertBudget
  <2>1. TypeOK
    BY <1>1 DEF TypeInv
  <2>2. ASSUME ~MainStep
        PROVE  UNCHANGED <<main, inert_ticks>>
    <3>1. ASSUME NEW t \in Threads, LoopStep(t) \/ Established(t) \/ Raise(t)
          PROVE  UNCHANGED <<main, inert_ticks>>
      BY <2>1, <3>1, LoopFrame DEF countVars
    <3>2. CASE ProcessEnds \/ TorChanges \/ GraceEnds \/ UNCHANGED vars
      BY <3>2 DEF ProcessEnds, TorChanges, GraceEnds, vars, countVars
    <3>3. CASE SystemdRestart \/ MainRaises
      BY <1>1, <3>3 DEF SystemdRestart, MainRaises, Gone
    <3> QED
      BY <1>1, <2>2, <3>1, <3>2, <3>3 DEF Next
  <2>3. ~MainStep => InertBudget' = InertBudget
    BY <2>2 DEF InertBudget, StepsToLook
  <2> QED
    BY <1>1, <2>1, <2>3, InertBudgetType, InertMain
<1>2. TypeInv /\ SessionInv /\ OneLoop /\ [Next]_vars =>
        [Inert /\ Inert' /\ {main, main'} \cap Gone = {} =>
            /\ AllNat(InertBudget)
            /\ IF MainStep THEN Below(InertBudget', InertBudget)
               ELSE InertBudget' = InertBudget]_vars
  BY <1>1
<1> QED
  BY <1>2, OneLoopAlways, SessionAlways, PTL DEF Spec, InertiaEnds

-----------------------------------------------------------------------------
(* The service                                                             *)

\* A new process has no tunnel until it has started its services.
BootInv == main = "boot" => ~tunnel_up /\ \A t \in Threads : loop[t] = "none"

\* Every step keeps a process that boots without a loop thread and a tunnel.
LEMMA BootStep == TypeInv /\ BootInv /\ [Next]_vars => BootInv'
<1> SUFFICES ASSUME TypeOK, BootInv, [Next]_vars PROVE BootInv'
  BY DEF TypeInv
<1>1. ASSUME NEW t \in Threads, LoopStep(t) \/ Established(t) \/ Raise(t)
      PROVE  main' = main /\ main # "boot"
  <2>1. loop[t] # "none"
    BY <1>1 DEF LoopStep, Enter, Acquire, Begin, Head, Connect, SetupEnds, SessionEnds, Decide,
       Resume, Leave, Established, Raise, LoopMove, At
  <2> QED
    BY <1>1, <2>1, LoopFrame DEF BootInv
<1>2. CASE InertNet \/ WatchTunnel \/ CheckPasses \/ CheckFails \/ Repair \/ StopVpn
           \/ StopOpenvpn \/ StopTor \/ WaitLoopExit \/ ResetState \/ StartServices
  BY <1>2 DEF InertNet, WatchTunnel, CheckPasses, CheckFails, Repair, StopVpn, StopOpenvpn,
     StopTor, WaitLoopExit, ResetState, StartServices, MainMove, BootInv
<1>3. CASE ProcessEnds \/ TorChanges \/ GraceEnds \/ MainRaises \/ UNCHANGED vars
  BY <1>3 DEF ProcessEnds, TorChanges, GraceEnds, MainRaises, vars, loopVars, tunnelVars, BootInv
<1>4. CASE SystemdRestart
  BY <1>4 DEF SystemdRestart, BootInv
<1> QED
  BY <1>1, <1>2, <1>3, <1>4 DEF Next, MainStep, BootInv

\* The daemon starts as a service without a tunnel.
LEMMA ServiceInit == Init => Svc!Init
  BY DEF Init, Svc!Init, ServiceState, Gone

\* Every step of the daemon is a step of the service or one it does not see.
LEMMA ServiceStep ==
    ASSUME TypeInv, BootInv, [Next]_vars
    PROVE  [Svc!Next]_(Svc!vars)
<1> USE LifecycleAssumption DEF Gone, ServiceState, Svc!Next, Svc!vars
<1>a. TypeOK /\ RestartBound
  BY DEF TypeInv
<1>b. tunnel_up \in BOOLEAN /\ full_restarts \in Nat
  BY <1>a DEF TypeOK
<1>1. ASSUME NEW t \in Threads, LoopStep(t) \/ Established(t) \/ Raise(t)
      PROVE  [Svc!Next]_(Svc!vars)
  <2>1. UNCHANGED <<main, full_restarts>> /\ tunnel_up' \in BOOLEAN
    BY <1>1, <1>a, LoopFrame, LoopFlags DEF countVars
  <2>2. \/ UNCHANGED <<ServiceState, full_restarts>>
        \/ ServiceState = "down" /\ ServiceState' = "up"
        \/ ServiceState = "up" /\ ServiceState' = "down"
    BY <2>1, <1>b
  <2> QED
    BY <2>1, <2>2 DEF Svc!Up, Svc!Drop
<1>2. CASE InertNet
  <2>1. UNCHANGED <<tunnel_up, full_restarts>> /\ main = "sleep"
    BY <1>2 DEF InertNet, tunnelVars
  <2>2. \/ main' \in {"sleep", "watch"}
        \/ main' = "exited" /\ ~tunnel_up
    BY <1>2, <1>a DEF InertNet, LooksInert
  <2> QED
    BY <2>1, <2>2 DEF Svc!Exit
<1>3. CASE WatchTunnel \/ StopVpn \/ StopOpenvpn \/ StopTor \/ WaitLoopExit
  <2>1. UNCHANGED <<tunnel_up, full_restarts>>
    BY <1>3 DEF WatchTunnel, StopVpn, StopOpenvpn, StopTor, WaitLoopExit, tunnelVars, countVars
  <2>2. main \notin {"repair"} \cup Gone /\ main' \notin {"repair"} \cup Gone
    BY <1>3 DEF WatchTunnel, StopVpn, StopOpenvpn, StopTor, WaitLoopExit, MainMove
  <2> QED
    BY <2>1, <2>2
<1>4. CASE CheckPasses
  <2>1. /\ UNCHANGED tunnel_up
        /\ full_restarts' = 0
        /\ main = "check" /\ main' = "sleep"
    BY <1>4 DEF CheckPasses, MainMove, NoRestarts, tunnelVars
  <2> QED
    BY <2>1, <1>b DEF Svc!Answer
<1>5. CASE CheckFails
  <2>1. UNCHANGED tunnel_up /\ main = "check" /\ full_restarts < REPAIR_THRESHOLD
    BY <1>5, <1>a DEF CheckFails, tunnelVars, RestartBound
  <2>2. \/ main' = "sleep" /\ UNCHANGED full_restarts
        \/ /\ full_restarts' = full_restarts + 1
           /\ main' = IF full_restarts' >= REPAIR_THRESHOLD THEN "repair" ELSE "stop"
    BY <1>5 DEF CheckFails
  <2>3. CASE main' = "sleep" /\ UNCHANGED full_restarts
    BY <2>1, <2>3
  <2>4. CASE full_restarts' = full_restarts + 1 /\ full_restarts' >= REPAIR_THRESHOLD /\ main' = "repair"
    BY <2>1, <2>4, <1>b DEF Svc!Repair
  <2>5. CASE full_restarts' = full_restarts + 1 /\ full_restarts' < REPAIR_THRESHOLD /\ main' = "stop"
    BY <2>1, <2>5, <1>b DEF Svc!Strike
  <2> QED
    BY <2>2, <2>3, <2>4, <2>5, <1>b
<1>6. CASE Repair
  BY <1>6 DEF Repair, MainMove, tunnelVars, countVars, Svc!Exit
<1>7. CASE ResetState
  BY <1>7, <1>b DEF ResetState, MainMove, Svc!Drop
<1>8. CASE StartServices
  <2>1. UNCHANGED <<tunnel_up, full_restarts>>
    BY <1>8 DEF StartServices, tunnelVars, countVars
  <2>2. \/ main \in {"boot", "start"} /\ main' = "sleep"
        \/ main = "boot" /\ main' = "exited" /\ ~tunnel_up
    BY <1>8 DEF StartServices, BootInv
  <2> QED
    BY <2>1, <2>2 DEF Svc!Exit
<1>9. CASE ProcessEnds \/ TorChanges \/ GraceEnds \/ UNCHANGED vars
  BY <1>9 DEF ProcessEnds, TorChanges, GraceEnds, tunnelVars, countVars, vars
<1>10. CASE SystemdRestart
  BY <1>10 DEF SystemdRestart, Svc!Restart
<1>11. CASE MainRaises
  <2>1. UNCHANGED <<tunnel_up, full_restarts>> /\ main \notin Gone \cup {"repair"}
    BY <1>11 DEF MainRaises, tunnelVars, countVars
  <2>2. ServiceState \in {"down", "up"} /\ ServiceState' = "crashed"
    BY <1>11, <2>1 DEF MainRaises
  <2> QED
    BY <2>1, <2>2 DEF Svc!Crash
<1> QED
  BY <1>1, <1>2, <1>3, <1>4, <1>5, <1>6, <1>7, <1>8, <1>9, <1>10, <1>11 DEF Next, MainStep

\* The daemon implements the service: it decides to exit only without a tunnel or
\* by the repair, and repairs after REPAIR_THRESHOLD full restarts in a row,
\* whatever the threads do and whatever a session raises (watchdog.py); an exception
\* of the main thread is the only other end, with a tunnel or without.
THEOREM ServiceImplemented == Spec => ImplementsService
<1>1. Init => TypeInv /\ BootInv
  BY TypeInit DEF Init, BootInv
<1>2. TypeInv /\ BootInv /\ [Next]_vars => TypeInv' /\ BootInv'
  BY TypeStep, BootStep
<1>3. TypeInv /\ BootInv /\ [Next]_vars => [Svc!Next]_(Svc!vars)
  BY ServiceStep
<1> QED
  BY <1>1, <1>2, <1>3, ServiceInit, PTL DEF Spec, ImplementsService, Svc!Spec
=============================================================================
