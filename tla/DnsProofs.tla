----------------------------- MODULE DnsProofs -----------------------------
(***************************************************************************)
(* Proofs about Dns, for any servers and any number of disturbances:       *)
(* types, the servers the daemon knows of, and the budget of the repairs.  *)
(* That the DNS comes back is a matter of fairness besides, which TLC      *)
(* checks.                                                                 *)
(***************************************************************************)
EXTENDS Dns, TLAPS

\* A new process is well typed.
LEMMA DnsInit == Init => TypeOK
<1> SUFFICES ASSUME Init PROVE TypeOK
  OBVIOUS
<1>1. ThreadsOK
  BY DnsAssumption DEF Init, ThreadsOK, MainStates, LoopStates, Applying, Splitting
<1>2. Blank \in Link /\ 0 \in 0 .. DisturbancesMax
  BY DnsAssumption DEF Blank, Link
<1> QED
  BY <1>1, <1>2 DEF Init, TypeOK

\* Every step keeps each thread in its own states.
LEMMA DnsThreads == ThreadsOK /\ [Next]_vars => ThreadsOK'
<1> SUFFICES ASSUME ThreadsOK, [Next]_vars PROVE ThreadsOK'
  OBVIOUS
<1> USE DnsAssumption
        DEF ThreadsOK, Goto, SameDns, threadVars, MainStates, LoopStates, Applying, Splitting,
            Monitoring
<1>1. CASE Split
  BY <1>1 DEF Split
<1>2. CASE SessionEnds
  BY <1>2 DEF SessionEnds
<1>3. CASE TunnelDown
  BY <1>3 DEF TunnelDown
<1>4. CASE WakeUp
  BY <1>4 DEF WakeUp
<1>5. CASE Look
  BY <1>5 DEF Look
<1>6. CASE LookAtDropIn
  BY <1>6 DEF LookAtDropIn
<1>7. CASE HandleSignal
  BY <1>7 DEF HandleSignal
<1>8. CASE FullRestart
  BY <1>8 DEF FullRestart
<1>9. CASE Relaunch
  BY <1>9 DEF Relaunch
<1>10. CASE Restart
  BY <1>10 DEF Restart
<1>11. CASE ProcessEnds
  BY <1>11 DEF ProcessEnds
<1>12. CASE Reconnects
  BY <1>12 DEF Reconnects
<1>13. CASE ResolvedRestarts
  BY <1>13 DEF ResolvedRestarts
<1>14. CASE DropInRemoved
  BY <1>14 DEF DropInRemoved
<1>15. CASE StartSession
  BY <1>15 DEF StartSession
<1>16. CASE Established
  BY <1>16 DEF Established
<1>17. CASE Apply(Main) \/ Apply(Loop)
  BY <1>17 DEF Apply, Applied
<1>18. CASE SetServers(Main) \/ SetServers(Loop)
  BY <1>18 DEF SetServers, Resolvectl, Applied
<1>19. CASE SetDomain(Main) \/ SetDomain(Loop)
  <2>1. PICK a \in {Main, Loop} : SetDomain(a)
    BY <1>19
  <2>2. Goto(a, "domain", "route") \/ Goto(a, "domain", Applied(a))
    BY <2>1 DEF SetDomain, Resolvectl
  <2> QED
    BY <2>1, <2>2 DEF Applied
<1>20. CASE SetRoute(Main) \/ SetRoute(Loop)
  BY <1>20 DEF SetRoute, Resolvectl, Applied
<1>21. CASE Write(Main) \/ Write(Loop)
  BY <1>21 DEF Write, Done
<1>22. CASE Reload(Main) \/ Reload(Loop)
  BY <1>22 DEF Reload, Done, AfterRestart
<1>23. CASE Remove(Main) \/ Remove(Loop)
  BY <1>23 DEF Remove, AfterRestart
<1>24. CASE Revert(Main) \/ Revert(Loop)
  BY <1>24 DEF Revert
<1>25. CASE UNCHANGED vars
  BY <1>25 DEF vars
<1> QED
  BY <1>1, <1>2, <1>3, <1>4, <1>5, <1>6, <1>7, <1>8, <1>9, <1>10, <1>11, <1>12, <1>13,
     <1>14, <1>15, <1>16, <1>17, <1>18, <1>19, <1>20, <1>21, <1>22, <1>23, <1>24, <1>25
     DEF Next, LoopStep, MonitorStep, ApplyStep, SplitStep

\* What resolvectl may leave of an interface.
LEMMA Links ==
    /\ Blank \in Link
    /\ \A l \in Link, s \in SUBSET Servers :
          /\ [l EXCEPT !.servers = s] \in Link /\ [l EXCEPT !.domain = TRUE] \in Link
          /\ [l EXCEPT !.route = TRUE] \in Link
          /\ [l EXCEPT !.servers = s, !.domain = FALSE, !.route = FALSE] \in Link
  BY DEF Blank, Link

\* A disturbance stays within the bound.
LEMMA Bounded ==
    ASSUME TypeOK, Quiet \/ Disturbance
    PROVE  disturbances' \in 0 .. DisturbancesMax
  BY DnsAssumption DEF TypeOK, Quiet, Disturbance

\* Every step keeps the types of what is not a thread's place.
LEMMA DnsData == TypeOK /\ [Next]_vars => (ThreadsOK' => TypeOK')
<1> SUFFICES ASSUME TypeOK, [Next]_vars PROVE ThreadsOK' => TypeOK'
  OBVIOUS
<1> USE DnsAssumption, Links, Bounded
        DEF TypeOK, Goto, SameDns, setting, threadVars, sessionVars, splitVars
<1>1. CASE Split
  BY <1>1 DEF Split
<1>2. CASE SessionEnds
  BY <1>2 DEF SessionEnds
<1>3. CASE TunnelDown
  BY <1>3 DEF TunnelDown
<1>4. CASE WakeUp
  BY <1>4 DEF WakeUp
<1>5. CASE Look
  BY <1>5 DEF Look
<1>6. CASE LookAtDropIn
  BY <1>6 DEF LookAtDropIn
<1>7. CASE HandleSignal
  BY <1>7 DEF HandleSignal
<1>8. CASE FullRestart
  BY <1>8 DEF FullRestart
<1>9. CASE Relaunch
  BY <1>9 DEF Relaunch
<1>10. CASE Restart
  BY <1>10 DEF Restart
<1>11. CASE ProcessEnds
  BY <1>11 DEF ProcessEnds
<1>12. CASE Reconnects
  <2>1. PICK s \in Pushes :
          /\ pushed' = pushed \cup s /\ vpn_dns_ips' = vpn_dns_ips \cup s
          /\ link' = [link EXCEPT !.servers = s, !.domain = FALSE, !.route = FALSE]
    BY <1>12 DEF Reconnects
  <2>2. s \in SUBSET Servers
    BY <2>1
  <2>3. link' \in Link
    BY <2>1, <2>2
  <2> QED
    BY <1>12, <2>1, <2>2, <2>3 DEF Reconnects
<1>13. CASE ResolvedRestarts
  BY <1>13 DEF ResolvedRestarts
<1>14. CASE DropInRemoved
  BY <1>14 DEF DropInRemoved
<1>15. CASE StartSession
  BY <1>15 DEF StartSession
<1>16. CASE Established
  BY <1>16 DEF Established
<1>17. CASE Apply(Main) \/ Apply(Loop)
  BY <1>17 DEF Apply, Applied
<1>18. CASE SetServers(Main) \/ SetServers(Loop)
  <2>1. PICK a \in {Main, Loop} : SetServers(a)
    BY <1>18
  <2>2. ips[a] \in SUBSET Servers
    BY <2>1
  <2>3. [link EXCEPT !.servers = ips[a]] \in Link
    BY <2>2
  <2>4. link' \in Link
    BY <2>1, <2>3 DEF SetServers, Resolvectl
  <2> QED
    BY <2>1, <2>4 DEF SetServers, Resolvectl, Applied
<1>19. CASE SetDomain(Main) \/ SetDomain(Loop)
  <2>1. PICK a \in {Main, Loop} : SetDomain(a)
    BY <1>19
  <2>2. link' = [link EXCEPT !.domain = TRUE] \/ link' = link
    BY <2>1 DEF SetDomain, Resolvectl
  <2>3. link' \in Link
    BY <2>2
  <2>4. /\ ips' \in [{Main, Loop} -> SUBSET Servers]
        /\ disturbances' = disturbances \/ Disturbance
        /\ UNCHANGED <<setting, sessionVars, splitVars>>
    BY <2>1 DEF SetDomain, Resolvectl, Quiet
  <2> QED
    BY <2>3, <2>4 DEF Disturbance
<1>20. CASE SetRoute(Main) \/ SetRoute(Loop)
  <2>1. PICK a \in {Main, Loop} : SetRoute(a)
    BY <1>20
  <2>2. link' = [link EXCEPT !.route = TRUE] \/ link' = link
    BY <2>1 DEF SetRoute, Resolvectl
  <2>3. link' \in Link
    BY <2>2
  <2>4. /\ ips' \in [{Main, Loop} -> SUBSET Servers]
        /\ disturbances' = disturbances \/ Disturbance
        /\ UNCHANGED <<setting, sessionVars, splitVars>>
    BY <2>1 DEF SetRoute, Resolvectl, Quiet
  <2> QED
    BY <2>3, <2>4 DEF Disturbance
<1>21. CASE Write(Main) \/ Write(Loop)
  BY <1>21 DEF Write, Done
<1>22. CASE Reload(Main) \/ Reload(Loop)
  BY <1>22 DEF Reload, Done, AfterRestart
<1>23. CASE Remove(Main) \/ Remove(Loop)
  BY <1>23 DEF Remove, AfterRestart
<1>24. CASE Revert(Main) \/ Revert(Loop)
  BY <1>24 DEF Revert
<1>25. CASE UNCHANGED vars
  BY <1>25 DEF vars
<1> QED
  BY <1>1, <1>2, <1>3, <1>4, <1>5, <1>6, <1>7, <1>8, <1>9, <1>10, <1>11, <1>12, <1>13,
     <1>14, <1>15, <1>16, <1>17, <1>18, <1>19, <1>20, <1>21, <1>22, <1>23, <1>24, <1>25
     DEF Next, LoopStep, MonitorStep, ApplyStep, SplitStep

\* Every reachable state is well typed.
THEOREM DnsTypeCorrect == Spec => []TypeOK
<1>1. TypeOK /\ [Next]_vars => TypeOK'
  BY DnsThreads, DnsData DEF TypeOK
<1> QED
  BY <1>1, DnsInit, PTL DEF Spec

-----------------------------------------------------------------------------
(* The repairs                                                             *)

\* Until the handler has reverted the DNS, the daemon knows in a session what the
\* server pushed in it, and nothing of another session.
SessionDns ==
    pc[Main] \notin {"remove", "down"} =>
        /\ pc[Loop] # "idle" => vpn_dns_ips = pushed
        /\ pc[Loop] = "connect" => pushed = {}

\* Steps that change neither what is known nor whose session it is.
LEMMA SessionDnsKept ==
    ASSUME SessionDns, UNCHANGED <<vpn_dns_ips, pushed>>,
           pc'[Main] \in {"remove", "down"} \/ pc[Main] \notin {"remove", "down"},
           pc'[Loop] = "idle" \/ pc[Loop] # "idle",
           pc'[Loop] = "connect" => pc[Loop] = "connect"
    PROVE  SessionDns'
  BY DEF SessionDns

\* A thread that goes on leaves the other where it is.
LEMMA Going ==
    ASSUME ThreadsOK, NEW a \in {Main, Loop}, NEW from, NEW to, Goto(a, from, to)
    PROVE  /\ pc[a] = from /\ pc'[a] = to
           /\ \A b \in {Main, Loop} : b # a => pc'[b] = pc[b]
  BY DEF ThreadsOK, Goto

\* Every step keeps it.
LEMMA SessionDnsStep == TypeOK /\ SessionDns /\ [Next]_vars => SessionDns'
<1> SUFFICES ASSUME TypeOK, SessionDns, [Next]_vars PROVE SessionDns'
  OBVIOUS
<1>a. ThreadsOK /\ Main # Loop
  BY DnsAssumption DEF TypeOK
<1>b. ASSUME NEW a \in {Main, Loop}, NEW from, NEW to, Goto(a, from, to),
             UNCHANGED <<vpn_dns_ips, pushed>>,
             from \notin {"idle", "connect", "down"}, to \notin {"connect"},
             from = "remove" => to \in {"down", "live"},
             to \in {"remove", "down"} \/ from # "remove" \/ a = Loop
      PROVE  SessionDns'
  <2>1. /\ pc[a] = from /\ pc'[a] = to
        /\ \A b \in {Main, Loop} : b # a => pc'[b] = pc[b]
    BY <1>a, <1>b, Going
  <2> QED
    BY <1>a, <1>b, <2>1, SessionDnsKept
<1> USE DEF SameDns, sessionVars, threadVars, Applying, Splitting, Monitoring
<1>1. ASSUME NEW a \in {Main, Loop}, ApplyStep(a) \/ Write(a) \/ Reload(a)
      PROVE  SessionDns'
  <2>1. /\ \E from \in Applying \cup {"write", "reload"},
              to \in Applying \cup {"split", "drop", "reload", "live", "sleep"} : Goto(a, from, to)
        /\ UNCHANGED <<vpn_dns_ips, pushed>>
    BY <1>1 DEF ApplyStep, Apply, SetServers, SetDomain, SetRoute, Resolvectl, Applied, Write,
       Reload, Done
  <2> QED
    BY <1>b, <2>1
<1>2. CASE Remove(Main) \/ Remove(Loop)
  <2>1. /\ Goto(Main, "remove", "down") \/ Goto(Loop, "remove", "live")
        /\ UNCHANGED <<vpn_dns_ips, pushed>>
    BY <1>2, <1>a DEF Remove
  <2> QED
    BY <1>b, <2>1
<1>3. CASE Split \/ TunnelDown \/ WakeUp \/ Look \/ LookAtDropIn \/ FullRestart \/ Relaunch
  <2>1. /\ \/ \E to \in {"write", "remove"} : Goto(Loop, "split", to)
           \/ Goto(Loop, "end", "revert")
           \/ \E from \in {"sleep", "look", "drop", "restart"},
                 to \in {"look", "apply", "drop", "write", "sleep", "restart"} : Goto(Main, from, to)
        /\ UNCHANGED <<vpn_dns_ips, pushed>>
    BY <1>3 DEF Split, TunnelDown, WakeUp, Look, LookAtDropIn, FullRestart, Relaunch
  <2> QED
    BY <1>b, <2>1
<1>4. CASE SessionEnds
  <2>1. /\ pc[Loop] \in {"connect", "live"} /\ pc'[Loop] = "end" /\ pc'[Main] = pc[Main]
        /\ UNCHANGED <<vpn_dns_ips, pushed>>
    BY <1>4, <1>a DEF SessionEnds, ThreadsOK
  <2> QED
    BY <2>1, SessionDnsKept
<1>5. CASE HandleSignal
  <2>1. /\ pc[Main] \in Monitoring /\ pc'[Main] = "revert" /\ pc'[Loop] = pc[Loop]
        /\ UNCHANGED <<vpn_dns_ips, pushed>>
    BY <1>5, <1>a DEF HandleSignal, ThreadsOK
  <2> QED
    BY <2>1, SessionDnsKept
<1>6. CASE StartSession
  <2>1. vpn_dns_ips' = {} /\ pushed' = {}
    BY <1>6 DEF StartSession
  <2> QED
    BY <2>1 DEF SessionDns
<1>7. CASE Established
  <2>1. /\ pc[Loop] = "connect" /\ pc'[Loop] = "apply" /\ pc'[Main] = pc[Main]
        /\ \E s \in Pushes : pushed' = s /\ vpn_dns_ips' = vpn_dns_ips \cup s
    BY <1>7, <1>a, Going DEF Established
  <2> QED
    BY <2>1 DEF SessionDns
<1>8. CASE Revert(Main)
  BY <1>8, <1>a, Going DEF Revert, SessionDns
<1>9. CASE Revert(Loop)
  BY <1>9, <1>a, Going DEF Revert, SessionDns
<1>10. CASE Restart
  BY <1>10 DEF Restart, SessionDns
<1>11. CASE Reconnects
  BY <1>11 DEF Reconnects, SessionDns
<1>12. CASE ProcessEnds \/ ResolvedRestarts \/ DropInRemoved \/ UNCHANGED vars
  <2>1. UNCHANGED <<pc, vpn_dns_ips, pushed>>
    BY <1>12 DEF ProcessEnds, ResolvedRestarts, DropInRemoved, vars
  <2> QED
    BY <2>1, SessionDnsKept
<1> QED
  BY <1>1, <1>2, <1>3, <1>4, <1>5, <1>6, <1>7, <1>8, <1>9, <1>10, <1>11, <1>12
     DEF Next, LoopStep, MonitorStep, SplitStep

\* A pair of numbers goes down when its first place does, or its second does
\* and the first stays.
LEMMA BelowTwo ==
    ASSUME NEW a, NEW b, DOMAIN a = 1 .. 2,
           a[1] < b[1] \/ (a[1] = b[1] /\ a[2] < b[2])
    PROVE  Below(a, b)
<1>1. PICK i \in 1 .. 2 : a[i] < b[i] /\ \A j \in 1 .. 2 : j < i => a[j] = b[j]
  OBVIOUS
<1>2. \A j \in 1 .. i - 1 : j \in 1 .. 2 /\ j < i
  OBVIOUS
<1> QED
  BY <1>1, <1>2 DEF Below

\* The budget is one of naturals.
LEMMA BudgetType ==
    /\ ReloadsLeft \in Nat /\ CommandsLeft \in 0 .. 4 /\ RepairsLeft \in Nat
    /\ AllNat(Budget)
<1>1. ReloadsLeft \in Nat
  BY DEF ReloadsLeft
<1>2. CommandsLeft \in 0 .. 4
  BY DEF CommandsLeft, Applying
<1>3. RepairsLeft \in Nat
  BY <1>2 DEF RepairsLeft
<1>4. DOMAIN Budget = 1 .. 2 /\ Budget[1] = ReloadsLeft /\ Budget[2] = RepairsLeft
  BY DEF Budget
<1> QED
  BY <1>1, <1>2, <1>3, <1>4 DEF AllNat

\* The ways the watchdog spends.
LEMMA Spent ==
    ASSUME \/ ReloadsLeft' < ReloadsLeft
           \/ ReloadsLeft' = ReloadsLeft /\ RepairsLeft' < RepairsLeft
    PROVE  Below(Budget', Budget)
<1>1. /\ DOMAIN Budget' = 1 .. 2
      /\ Budget'[1] = ReloadsLeft' /\ Budget'[2] = RepairsLeft'
      /\ Budget[1] = ReloadsLeft /\ Budget[2] = RepairsLeft
  BY DEF Budget
<1> QED
  BY <1>1, BelowTwo

\* While a watched tunnel is not disturbed, only the watchdog moves.
LEMMA OnlyWatchdog ==
    ASSUME TypeOK, [Next]_vars, Watched, Watched', disturbances' = disturbances
    PROVE  WakeUp \/ Look \/ ApplyStep(Main) \/ LookAtDropIn \/ Write(Main) \/ Reload(Main)
           \/ UNCHANGED vars
<1>1. /\ pc[Loop] = "live" /\ alive /\ alive' /\ pc[Main] \in Monitoring /\ pc'[Main] \in Monitoring
      /\ ThreadsOK /\ Main # Loop /\ disturbances \in Nat
  BY DnsAssumption DEF Watched, TypeOK
<1>2. CASE LoopStep
  BY <1>1, <1>2 DEF LoopStep, ApplyStep, Apply, SetServers, SetDomain, SetRoute, Resolvectl, Split,
     SplitStep, Write, Reload, Remove, SessionEnds, TunnelDown, Revert, Goto
<1>3. CASE StartSession \/ Established
  BY <1>1, <1>3 DEF StartSession, Established, Goto
<1>4. CASE Remove(Main) \/ Revert(Main) \/ Relaunch
  BY <1>1, <1>4 DEF Remove, Revert, Relaunch, Goto, Monitoring, Applying
<1>5. CASE HandleSignal \/ FullRestart \/ Restart \/ ProcessEnds
  BY <1>1, <1>5 DEF HandleSignal, FullRestart, Restart, ProcessEnds
<1>6. CASE Reconnects \/ ResolvedRestarts \/ DropInRemoved
  <2>1. Disturbance
    BY <1>6 DEF Reconnects, ResolvedRestarts, DropInRemoved
  <2> QED
    BY <1>1, <2>1 DEF Disturbance
<1> QED
  BY <1>2, <1>3, <1>4, <1>5, <1>6 DEF Next, MonitorStep, SplitStep

\* A sum goes down with its first term.
LEMMA SumDown ==
    ASSUME NEW c \in Nat, NEW d \in Nat, NEW m \in Nat, d < c
    PROVE  d + m < c + m
  OBVIOUS

\* Each of its steps spends, or passes on where nothing is missing.
LEMMA BudgetStep ==
    ASSUME TypeOK, SessionDns, [Next]_vars, Watched, Watched', disturbances' = disturbances,
           ~UNCHANGED vars
    PROVE  \/ Below(Budget', Budget)
           \/ /\ Budget' = Budget
              /\ \/ pc[Main] = "sleep"
                 \/ pc[Main] = "look" /\ (pushed # {} => Complete)
                 \/ pc[Main] = "drop" /\ (split => drop_in)
<1>a. /\ ThreadsOK /\ Main # Loop /\ alive /\ vpn_dns_ips = pushed /\ disturbances \in Nat
      /\ readable \in BOOLEAN /\ split \in BOOLEAN /\ drop_in \in BOOLEAN /\ link \in Link
      /\ ips \in [{Main, Loop} -> SUBSET Servers]
  BY DnsAssumption DEF Watched, TypeOK, SessionDns, Monitoring, Applying
<1>b. ~Disturbance
  BY <1>a DEF Disturbance
<1>1. CASE WakeUp
  <2>1. /\ pc[Main] = "sleep" /\ pc'[Main] = "look"
        /\ UNCHANGED <<split, drop_in, readable, vpn_dns_ips, ips, link, pushed>>
    BY <1>1, <1>a, Going DEF WakeUp, SameDns, setting, splitVars, sessionVars
  <2>2. Budget' = Budget
    BY <2>1 DEF Budget, ReloadsLeft, RepairsLeft, CommandsLeft, OutcomeComplete, Outcome, Applying
  <2> QED
    BY <2>1, <2>2
<1>2. CASE LookAtDropIn
  <2>1. /\ pc[Main] = "drop" /\ pc'[Main] = IF DropInMissing THEN "write" ELSE "sleep"
        /\ UNCHANGED <<split, drop_in, readable, vpn_dns_ips, ips, link, pushed>>
    BY <1>2, <1>a, Going DEF LookAtDropIn, SameDns, setting, splitVars, sessionVars
  <2>2. CASE DropInMissing
    BY <2>1, <2>2, Spent DEF ReloadsLeft, DropInMissing
  <2>3. CASE ~DropInMissing
    <3>1. Budget' = Budget
      BY <2>1, <2>3 DEF Budget, ReloadsLeft, RepairsLeft, CommandsLeft, OutcomeComplete, Outcome,
         Applying
    <3> QED
      BY <2>1, <2>3, <3>1 DEF DropInMissing
  <2> QED
    BY <2>2, <2>3
<1>3. CASE Write(Main)
  <2>1. pc[Main] = "write" /\ pc'[Main] = "reload" /\ drop_in' = TRUE
    BY <1>3, <1>a, <1>b, Going DEF Write
  <2> QED
    BY <2>1, Spent DEF ReloadsLeft
<1>4. CASE Reload(Main)
  <2>1. pc[Main] = "reload" /\ pc'[Main] = "sleep" /\ UNCHANGED <<split, drop_in>>
    BY <1>4, <1>a, Going DEF Reload, Done, setting
  <2> QED
    BY <2>1, Spent DEF ReloadsLeft
\* The steps that leave the split DNS alone.
<1>5. ASSUME pc[Main] \notin {"write", "reload"}, pc'[Main] \notin {"write", "reload"},
             UNCHANGED <<split, drop_in>>, RepairsLeft' < RepairsLeft
      PROVE  Below(Budget', Budget)
  <2>1. ReloadsLeft' = ReloadsLeft
    BY <1>5 DEF ReloadsLeft
  <2> QED
    BY <1>5, <2>1, Spent
<1>6. CASE Look
  <2>1. /\ pc[Main] = "look"
        /\ pc'[Main] = IF vpn_dns_ips # {} /\ Missing THEN "apply" ELSE "drop"
        /\ UNCHANGED <<split, drop_in, readable, vpn_dns_ips, ips, link, pushed>>
    BY <1>6, <1>a, <1>b, Going DEF Look, setting, splitVars, sessionVars
  <2>2. OutcomeComplete <=> Complete
    BY <2>1 DEF OutcomeComplete, Outcome, Complete, Applying
  <2>3. pushed # {} => (Missing <=> ~Complete)
    BY <1>a DEF Missing, RouteMissing, Complete
  <2>4. CASE pushed # {} /\ ~Complete
    <3>1. pc'[Main] = "apply" /\ OutcomeComplete'
      BY <1>a, <2>1, <2>3, <2>4 DEF OutcomeComplete, Outcome, Applying
    <3>2. RepairsLeft' = 4 /\ RepairsLeft = 5
      BY <2>1, <2>2, <2>4, <3>1 DEF RepairsLeft, CommandsLeft, Applying
    <3> QED
      BY <1>5, <2>1, <3>1, <3>2
  <2>5. CASE pushed # {} => Complete
    <3>1. pc'[Main] = "drop"
      BY <1>a, <2>1, <2>3, <2>5
    <3>2. Budget' = Budget
      BY <2>1, <3>1 DEF Budget, ReloadsLeft, RepairsLeft, CommandsLeft, OutcomeComplete, Outcome,
         Applying
    <3> QED
      BY <2>1, <2>5, <3>2
  <2> QED
    BY <2>4, <2>5
\* The steps of _apply_vpn_dns change nothing of its outcome.
<1>7. ASSUME ApplyStep(Main), pc[Main] \in Applying, pc'[Main] \notin {"write", "reload"},
             UNCHANGED <<split, drop_in, readable, pushed>>,
             CommandsLeft' < CommandsLeft, pushed # {} => Outcome' = Outcome
      PROVE  Below(Budget', Budget)
  <2>1. pushed # {} => (OutcomeComplete' <=> OutcomeComplete)
    BY <1>7 DEF OutcomeComplete
  <2>2. CommandsLeft' \in 0 .. 4 /\ CommandsLeft \in 0 .. 4
    BY BudgetType DEF CommandsLeft, Applying
  <2> DEFINE More == IF pushed # {} /\ ~OutcomeComplete THEN 5 ELSE 0
  <2>3. More' = More /\ More \in Nat
    BY <1>7, <2>1, Zenon
  <2>4. RepairsLeft = CommandsLeft + More /\ RepairsLeft' = CommandsLeft' + More'
    BY DEF RepairsLeft
  <2> HIDE DEF More
  <2>5. CommandsLeft' < CommandsLeft /\ CommandsLeft \in Nat /\ CommandsLeft' \in Nat
    BY <1>7, <2>2
  <2>6. RepairsLeft' < RepairsLeft
    BY <2>3, <2>4, <2>5, SumDown
  <2> QED
    BY <1>5, <1>7, <2>6 DEF Applying
<1>8. CASE Apply(Main)
  <2>1. /\ pc[Main] = "apply" /\ pc'[Main] = IF vpn_dns_ips = {} THEN "drop" ELSE "dns"
        /\ pc'[Main] = "dns" => ips'[Main] = vpn_dns_ips
        /\ UNCHANGED <<split, drop_in, readable, pushed, vpn_dns_ips, link>>
    BY <1>8, <1>a, Going DEF Apply, Applied, setting, splitVars, sessionVars
  <2>2. pushed # {} => Outcome' = Outcome
    BY <1>a, <2>1 DEF Outcome, Applying
  <2>3. CommandsLeft' < CommandsLeft
    BY <2>1 DEF CommandsLeft, Applying
  <2> QED
    BY <1>7, <1>8, <2>1, <2>2, <2>3 DEF ApplyStep, Applying
<1>9. CASE SetServers(Main) \/ SetDomain(Main) \/ SetRoute(Main)
  <2>1. /\ \/ /\ pc[Main] = "dns" /\ pc'[Main] = "domain"
              /\ link' = [link EXCEPT !.servers = ips[Main]]
           \/ /\ pc[Main] = "domain" /\ pc'[Main] = "route"
              /\ link' = [link EXCEPT !.domain = TRUE]
           \/ /\ pc[Main] = "route" /\ pc'[Main] = "drop"
              /\ link' = [link EXCEPT !.route = TRUE]
        /\ UNCHANGED <<split, drop_in, readable, pushed, vpn_dns_ips>>
    BY <1>9, <1>a, <1>b, Going DEF SetServers, SetDomain, SetRoute, Resolvectl, Applied, setting,
       splitVars, sessionVars
  <2>2. Outcome' = Outcome
    BY <1>a, <2>1 DEF Outcome, Applying, Link
  <2>3. CommandsLeft' < CommandsLeft
    BY <2>1 DEF CommandsLeft, Applying
  <2> QED
    BY <1>7, <1>9, <2>1, <2>2, <2>3 DEF ApplyStep, Applying
<1> QED
  BY <1>1, <1>2, <1>3, <1>4, <1>6, <1>8, <1>9, OnlyWatchdog DEF ApplyStep

\* While nothing disturbs a watched tunnel, the watchdog repairs it within a
\* finite budget and goes on only where nothing is missing (_ensure_dns_config).
THEOREM RepairsEndCorrect == Spec => RepairsEnd
<1>1. Init => TypeOK /\ SessionDns
  BY DnsInit, DnsAssumption DEF Init, SessionDns
<1>2. TypeOK /\ SessionDns /\ [Next]_vars => (TypeOK /\ SessionDns)'
  BY DnsThreads, DnsData, SessionDnsStep DEF TypeOK
<1>3. TypeOK /\ SessionDns /\ [Next]_vars =>
        [Watched /\ Watched' /\ disturbances' = disturbances =>
          /\ AllNat(Budget)
          /\ \/ Below(Budget', Budget)
             \/ /\ Budget' = Budget
                /\ \/ pc[Main] = "sleep"
                   \/ pc[Main] = "look" /\ (pushed # {} => Complete)
                   \/ pc[Main] = "drop" /\ (split => drop_in)]_vars
  BY BudgetStep, BudgetType
<1> QED
  BY <1>1, <1>2, <1>3, PTL DEF Spec, RepairsEnd
=============================================================================
