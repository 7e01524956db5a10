--------------------------- MODULE FirewallProofs ---------------------------
(***************************************************************************)
(* Proofs about Firewall, for any interfaces, any subnets, any commands    *)
(* that fail or raise, and any bound on the jumps: types, the flag of the  *)
(* IPv6 block, the rules of the LAN and the single copy of each rule.      *)
(***************************************************************************)
EXTENDS Firewall, TLAPS

\* A jump more or less stays within the bound.
LEMMA Jumps ==
    /\ 0 \in 0 .. JumpsMax
    /\ \A n \in 0 .. JumpsMax : Inserted(n) \in 0 .. JumpsMax /\ Removed(n) \in 0 .. JumpsMax
  BY FirewallAssumption DEF Inserted, Removed

\* A new process is well typed.
LEMMA FirewallInit == Init => TypeOK
<1> SUFFICES ASSUME Init PROVE TypeOK
  OBVIOUS
<1>1. ThreadsOK
  BY FirewallAssumption DEF Init, ThreadsOK, MainStates, LoopStates, Undoing
<1> QED
  BY <1>1, Jumps, FirewallAssumption DEF Init, TypeOK

\* Every step keeps each thread in its own states.
LEMMA FirewallThreads == ThreadsOK /\ [Next]_vars => ThreadsOK'
<1> SUFFICES ASSUME ThreadsOK, [Next]_vars PROVE ThreadsOK'
  OBVIOUS
<1> USE FirewallAssumption DEF ThreadsOK, Goto, SameThreads, SameRules, threadVars, Undoing,
        MainStates, LoopStates, AfterOff, AfterTear
<1>1. CASE BlockOn
  BY <1>1 DEF BlockOn
<1>2. CASE BlockJump
  BY <1>2 DEF BlockJump, AfterFailedJump
<1>3. CASE BlockFlag
  BY <1>3 DEF BlockFlag
<1>4. CASE LanCheck
  BY <1>4 DEF LanCheck, RulesAreCurrent
<1>5. CASE LanRefused
  BY <1>5 DEF LanRefused
<1>6. CASE LanNat
  BY <1>6 DEF LanNat, SharedTun
<1>7. CASE LanChain
  BY <1>7 DEF LanChain
<1>8. CASE LanFlag
  BY <1>8 DEF LanFlag
<1>9. CASE DnsmasqStarts
  BY <1>9 DEF DnsmasqStarts
<1>10. CASE OpenTun
  BY <1>10 DEF OpenTun
<1>11. CASE Established
  BY <1>11 DEF Established
<1>12. CASE SessionEnds
  BY <1>12 DEF SessionEnds
<1>13. CASE LoopDecides
  BY <1>13 DEF LoopDecides
<1>14. CASE CleanupStaleRules
  BY <1>14 DEF CleanupStaleRules, Purge, NoRules
<1>15. CASE FullRestart
  BY <1>15 DEF FullRestart
<1>16. CASE LoopWaited
  BY <1>16 DEF LoopWaited
<1>17. CASE Reset
  BY <1>17 DEF Reset
<1>18. CASE HandleSignal
  BY <1>18 DEF HandleSignal
<1>19. CASE Dies
  BY <1>19 DEF Dies
<1>20. CASE Start
  BY <1>20 DEF Start, Purge, NoRules
<1>21. CASE ProcessEnds
  BY <1>21 DEF ProcessEnds
<1>22. CASE BlockOff(Main) \/ BlockOff(Loop)
  BY <1>22 DEF BlockOff
<1>23. CASE OffFlag(Main) \/ OffFlag(Loop)
  BY <1>23 DEF OffFlag
<1>24. CASE TearDown(Main) \/ TearDown(Loop)
  BY <1>24 DEF TearDown
<1>25. CASE TearNat(Main) \/ TearNat(Loop)
  BY <1>25 DEF TearNat, NatOfRules
<1>26. CASE TearFlag(Main) \/ TearFlag(Loop)
  BY <1>26 DEF TearFlag
<1>27. CASE UNCHANGED vars
  BY <1>27 DEF vars
<1>28. CASE BlockRaises
  BY <1>28 DEF BlockRaises
<1>29. CASE OffRaises(Main) \/ OffRaises(Loop)
  BY <1>29 DEF OffRaises
<1>30. CASE LanRaises
  BY <1>30 DEF LanRaises
<1>31. CASE TearRaises(Main) \/ TearRaises(Loop)
  BY <1>31 DEF TearRaises
<1>32. CASE Reopen
  BY <1>32 DEF Reopen
<1> QED
  BY <1>1, <1>2, <1>3, <1>4, <1>5, <1>6, <1>7, <1>8, <1>9, <1>10, <1>11, <1>12, <1>13,
     <1>14, <1>15, <1>16, <1>17, <1>18, <1>19, <1>20, <1>21, <1>22, <1>23, <1>24, <1>25,
     <1>26, <1>27, <1>28, <1>29, <1>30, <1>31, <1>32
     DEF Next, LoopStep, MainStep, UndoStep

\* Every step keeps the types of what is not a thread's place.
LEMMA FirewallData == TypeOK /\ [Next]_vars => (ThreadsOK' => TypeOK')
<1> SUFFICES ASSUME TypeOK, [Next]_vars PROVE ThreadsOK' => TypeOK'
  OBVIOUS
<1> USE FirewallAssumption DEF TypeOK, threadVars, ipv6Vars, lanFlags, lanRules, lanVars, SameThreads, SameRules, Goto,
        Running, Fails, Works, Raises, Configs, Rule, DnsmasqStopped
<1>1. CASE BlockOn
  BY <1>1 DEF BlockOn
<1>2. CASE BlockJump
  BY <1>2, Jumps DEF BlockJump, AfterFailedJump
<1>3. CASE BlockFlag
  BY <1>3 DEF BlockFlag
<1>4. CASE LanCheck
  BY <1>4 DEF LanCheck, RulesAreCurrent
<1>5. CASE LanRefused
  BY <1>5 DEF LanRefused
<1>6. CASE LanNat
  <2>1. /\ nat' = nat \/ nat' = nat \cup {<<config.lan_subnet, tun_iface>>}
        /\ tun' = tun_iface /\ faulty' \in BOOLEAN
        /\ UNCHANGED <<config, stop_vpn, stop_flag, alive, tun_iface, reopened, ipv6Vars,
                       lan_active, lan_tun, lan_chain, lan_jump, dnsmasq>>
    BY <1>6 DEF LanNat, SharedTun
  <2>2. nat' \subseteq Subnets \X Tuns
    BY <2>1
  <2> QED
    BY <2>1, <2>2
<1>7. CASE LanChain
  BY <1>7, Jumps DEF LanChain
<1>8. CASE LanFlag
  BY <1>8 DEF LanFlag
<1>9. CASE DnsmasqStarts
  BY <1>9 DEF DnsmasqStarts
<1>10. CASE OpenTun
  BY <1>10 DEF OpenTun
<1>11. CASE Established
  BY <1>11 DEF Established
<1>12. CASE SessionEnds
  BY <1>12 DEF SessionEnds
<1>13. CASE LoopDecides
  BY <1>13 DEF LoopDecides
<1>14. CASE CleanupStaleRules
  BY <1>14, Jumps DEF CleanupStaleRules, Purge, NoRules
<1>15. CASE FullRestart
  BY <1>15 DEF FullRestart
<1>16. CASE LoopWaited
  BY <1>16 DEF LoopWaited
<1>17. CASE Reset
  BY <1>17 DEF Reset
<1>18. CASE HandleSignal
  BY <1>18 DEF HandleSignal
<1>19. CASE Dies
  BY <1>19 DEF Dies
<1>20. CASE Start
  BY <1>20, Jumps DEF Start, Purge, NoRules
<1>21. CASE ProcessEnds
  BY <1>21 DEF ProcessEnds
<1>22. CASE BlockOff(Main) \/ BlockOff(Loop)
  BY <1>22, Jumps DEF BlockOff
<1>23. CASE OffFlag(Main) \/ OffFlag(Loop)
  BY <1>23 DEF OffFlag
<1>24. CASE TearDown(Main) \/ TearDown(Loop)
  BY <1>24, Jumps DEF TearDown
<1>25. CASE TearNat(Main) \/ TearNat(Loop)
  BY <1>25 DEF TearNat, NatOfRules
<1>26. CASE TearFlag(Main) \/ TearFlag(Loop)
  BY <1>26 DEF TearFlag
<1>27. CASE UNCHANGED vars
  BY <1>27 DEF vars
<1>28. CASE BlockRaises
  BY <1>28 DEF BlockRaises
<1>29. CASE OffRaises(Main) \/ OffRaises(Loop)
  <2>1. jump6' \in 0 .. JumpsMax /\ exempt' \in Tuns \cup {None}
    BY <1>29, Jumps DEF OffRaises
  <2> QED
    BY <1>29, <2>1 DEF OffRaises
<1>30. CASE LanRaises
  BY <1>30 DEF LanRaises
<1>31. CASE TearRaises(Main) \/ TearRaises(Loop)
  <2>1. lan_jump' \in 0 .. JumpsMax /\ lan_chain' \in Tuns \cup {None}
    BY <1>31, Jumps DEF TearRaises
  <2> QED
    BY <1>31, <2>1 DEF TearRaises
<1>32. CASE Reopen
  BY <1>32 DEF Reopen
<1> QED
  BY <1>1, <1>2, <1>3, <1>4, <1>5, <1>6, <1>7, <1>8, <1>9, <1>10, <1>11, <1>12, <1>13,
     <1>14, <1>15, <1>16, <1>17, <1>18, <1>19, <1>20, <1>21, <1>22, <1>23, <1>24, <1>25,
     <1>26, <1>27, <1>28, <1>29, <1>30, <1>31, <1>32
     DEF Next, LoopStep, MainStep, UndoStep

\* Every step keeps the types.
LEMMA FirewallTypes == TypeOK /\ [Next]_vars => TypeOK'
  BY FirewallThreads, FirewallData DEF TypeOK

\* Every reachable state is well typed, the jumps within their bound.
THEOREM FirewallTypeCorrect == Spec => []TypeOK
  BY FirewallInit, FirewallTypes, PTL DEF Spec

-----------------------------------------------------------------------------
(* The block of IPv6                                                       *)

\* Nothing is set up between two processes and while the new one cleans.
NothingYet == pc[Main] \in {"dead", "clean"} => pc[Loop] = "gone" /\ ~ipv6_blocked /\ ~lan_active

\* Only the loop raises the flag, over the jump it has just inserted.
JumpFirst ==
    /\ pc[Loop] \in {"on_jump", "on_flag"} => ~ipv6_blocked
    /\ Running /\ pc[Loop] = "on_flag" => jump6 > 0

BlockInv == TypeOK /\ NothingYet /\ JumpFirst /\ BlockedIsJumped

\* Every step keeps the flag over the jump.
LEMMA BlockStep == BlockInv /\ [Next]_vars => (NothingYet /\ JumpFirst /\ BlockedIsJumped)'
<1> SUFFICES ASSUME BlockInv, [Next]_vars PROVE (NothingYet /\ JumpFirst /\ BlockedIsJumped)'
  OBVIOUS
<1> USE FirewallAssumption DEF BlockInv, TypeOK, ThreadsOK, NothingYet, JumpFirst, BlockedIsJumped, threadVars, ipv6Vars, lanFlags, lanRules, lanVars, SameThreads, SameRules, Goto, Running,
        Undoing, MainStates, LoopStates, Inserted, Removed, Fails, Works, Raises,
        AfterOff, AfterTear, Configs, Rule
<1>1. CASE BlockOn
  BY <1>1 DEF BlockOn
<1>2. CASE BlockJump
  BY <1>2 DEF BlockJump, AfterFailedJump
<1>3. CASE BlockFlag
  BY <1>3 DEF BlockFlag
<1>4. CASE LanCheck
  BY <1>4 DEF LanCheck, RulesAreCurrent
<1>5. CASE LanRefused
  BY <1>5 DEF LanRefused
<1>6. CASE LanNat
  BY <1>6 DEF LanNat, SharedTun
<1>7. CASE LanChain
  BY <1>7 DEF LanChain
<1>8. CASE LanFlag
  BY <1>8 DEF LanFlag
<1>9. CASE DnsmasqStarts
  BY <1>9 DEF DnsmasqStarts
<1>10. CASE OpenTun
  BY <1>10 DEF OpenTun
<1>11. CASE Established
  BY <1>11 DEF Established
<1>12. CASE SessionEnds
  BY <1>12 DEF SessionEnds
<1>13. CASE LoopDecides
  BY <1>13 DEF LoopDecides
<1>14. CASE CleanupStaleRules
  BY <1>14 DEF CleanupStaleRules, Purge, NoRules
<1>15. CASE FullRestart
  BY <1>15 DEF FullRestart
<1>16. CASE LoopWaited
  BY <1>16 DEF LoopWaited
<1>17. CASE Reset
  BY <1>17 DEF Reset
<1>18. CASE HandleSignal
  BY <1>18 DEF HandleSignal
<1>19. CASE Dies
  BY <1>19 DEF Dies
<1>20. CASE Start
  BY <1>20 DEF Start, Purge, NoRules
<1>21. CASE ProcessEnds
  BY <1>21 DEF ProcessEnds
<1>22. CASE BlockOff(Main) \/ BlockOff(Loop)
  BY <1>22 DEF BlockOff
<1>23. CASE OffFlag(Main) \/ OffFlag(Loop)
  BY <1>23 DEF OffFlag
<1>24. CASE TearDown(Main) \/ TearDown(Loop)
  BY <1>24 DEF TearDown
<1>25. CASE TearNat(Main) \/ TearNat(Loop)
  BY <1>25 DEF TearNat, NatOfRules
<1>26. CASE TearFlag(Main) \/ TearFlag(Loop)
  BY <1>26 DEF TearFlag
<1>27. CASE UNCHANGED vars
  BY <1>27 DEF vars
<1>28. CASE BlockRaises
  BY <1>28 DEF BlockRaises
<1>29. CASE OffRaises(Main) \/ OffRaises(Loop)
  BY <1>29 DEF OffRaises
<1>30. CASE LanRaises
  BY <1>30 DEF LanRaises
<1>31. CASE TearRaises(Main) \/ TearRaises(Loop)
  BY <1>31 DEF TearRaises
<1>32. CASE Reopen
  BY <1>32 DEF Reopen
<1> QED
  BY <1>1, <1>2, <1>3, <1>4, <1>5, <1>6, <1>7, <1>8, <1>9, <1>10, <1>11, <1>12, <1>13,
     <1>14, <1>15, <1>16, <1>17, <1>18, <1>19, <1>20, <1>21, <1>22, <1>23, <1>24, <1>25,
     <1>26, <1>27, <1>28, <1>29, <1>30, <1>31, <1>32
     DEF Next, LoopStep, MainStep, UndoStep

\* The strengthened invariant holds throughout.
LEMMA BlockInductive == Spec => []BlockInv
<1>1. Init => BlockInv
  BY FirewallInit, FirewallAssumption
     DEF Init, BlockInv, NothingYet, JumpFirst, BlockedIsJumped
<1>2. BlockInv /\ [Next]_vars => BlockInv'
  BY FirewallTypes, BlockStep DEF BlockInv
<1> QED
  BY <1>1, <1>2, PTL DEF Spec

\* The flag of the IPv6 block is not up without the jump, whichever commands fail and
\* whichever raise, until one of _ipv6_block_off raises (firewall.py:34, 62).
THEOREM BlockedIsJumpedCorrect == Spec => []BlockedIsJumped
<1>1. BlockInv => BlockedIsJumped
  BY DEF BlockInv
<1> QED
  BY <1>1, BlockInductive, PTL

-----------------------------------------------------------------------------
(* The sharing with the LAN                                                *)

\* The tunnel is gone whenever the main thread has stopped it, and nothing of the
\* LAN is undone by it before the handler runs.
MainStopsFirst ==
    /\ pc[Main] \notin {"run", "clean", "dead"} => ~alive
    /\ stop_flag => pc[Main] \in {"tear", "tear_nat", "tear_flag", "off", "off_flag", "done"}
    /\ pc[Main] \in {"tear", "tear_nat", "tear_flag"} => stop_flag

\* No handler, and no command that failed unnoticed.
Calm == Running /\ ~stop_flag /\ ~faulty

\* The rules of the interface t are there, or none is.
LanRulesOf(t) == lan_chain = t /\ lan_jump = 1 /\ nat = {Rule(t)}
NoLanRules == lan_chain = None /\ lan_jump = 0 /\ nat = {}

\* What is in the kernel at each step of the setup and of its undoing.
RulesOfStep ==
    Calm => /\ pc[Loop] = "tear_nat" => lan_chain = None /\ lan_jump = 0 /\ nat = {Rule(lan_tun)}
            /\ pc[Loop] = "tear_flag" => NoLanRules
            /\ pc[Loop] = "setup_chain" => lan_chain = None /\ lan_jump = 0 /\ nat = {Rule(tun)}
            /\ pc[Loop] = "setup_flag" => LanRulesOf(tun)
            /\ pc[Loop] \notin {"tear_nat", "tear_flag", "setup_chain", "setup_flag"} =>
                   IF lan_active THEN LanRulesOf(lan_tun) ELSE NoLanRules

\* _lan_active agrees with the step, and with the configuration.
ActiveOfStep ==
    Calm => /\ lan_active => lan_tun # None /\ config.lan_auto
            /\ pc[Loop] \in {"tear_nat", "tear_flag"} => lan_active
            /\ pc[Loop] \in {"setup", "setup_chain", "setup_flag"} => ~lan_active
            /\ pc[Loop] \in {"tear", "setup", "setup_chain", "setup_flag"} => config.lan_auto
            /\ pc[Loop] \in {"setup_chain", "setup_flag"} => tun # None

\* The interface of the setup is the one of the tunnel, as long as it is alive.
TunIsCurrent ==
    Calm /\ alive =>
        /\ pc[Loop] \in {"setup_chain", "setup_flag"} => tun = tun_iface
        /\ pc[Loop] = "live" /\ lan_active /\ ~reopened => lan_tun = tun_iface

LanInv ==
    /\ TypeOK /\ NothingYet /\ MainStopsFirst
    /\ RulesOfStep /\ ActiveOfStep /\ TunIsCurrent

\* Every step keeps a cleaning process without a loop.
LEMMA NothingYetStep == TypeOK /\ NothingYet /\ [Next]_vars => NothingYet'
<1> SUFFICES ASSUME TypeOK /\ NothingYet, [Next]_vars PROVE NothingYet'
  OBVIOUS
<1> USE FirewallAssumption DEF TypeOK, ThreadsOK, NothingYet, threadVars, ipv6Vars, lanFlags, lanRules, lanVars, SameThreads, SameRules, Goto, Running,
        Undoing, MainStates, LoopStates, Inserted, Removed, Fails, Works, Raises,
        AfterOff, AfterTear, Configs, Rule
<1>1. CASE BlockOn
  BY <1>1 DEF BlockOn
<1>2. CASE BlockJump
  BY <1>2 DEF BlockJump, AfterFailedJump
<1>3. CASE BlockFlag
  BY <1>3 DEF BlockFlag
<1>4. CASE LanCheck
  BY <1>4 DEF LanCheck, RulesAreCurrent
<1>5. CASE LanRefused
  BY <1>5 DEF LanRefused
<1>6. CASE LanNat
  BY <1>6 DEF LanNat, SharedTun
<1>7. CASE LanChain
  BY <1>7 DEF LanChain
<1>8. CASE LanFlag
  BY <1>8 DEF LanFlag
<1>9. CASE DnsmasqStarts
  BY <1>9 DEF DnsmasqStarts
<1>10. CASE OpenTun
  BY <1>10 DEF OpenTun
<1>11. CASE Established
  BY <1>11 DEF Established
<1>12. CASE SessionEnds
  BY <1>12 DEF SessionEnds
<1>13. CASE LoopDecides
  BY <1>13 DEF LoopDecides
<1>14. CASE CleanupStaleRules
  BY <1>14 DEF CleanupStaleRules, Purge, NoRules
<1>15. CASE FullRestart
  BY <1>15 DEF FullRestart
<1>16. CASE LoopWaited
  BY <1>16 DEF LoopWaited
<1>17. CASE Reset
  BY <1>17 DEF Reset
<1>18. CASE HandleSignal
  BY <1>18 DEF HandleSignal
<1>19. CASE Dies
  BY <1>19 DEF Dies
<1>20. CASE Start
  BY <1>20 DEF Start, Purge, NoRules
<1>21. CASE ProcessEnds
  BY <1>21 DEF ProcessEnds
<1>22. CASE BlockOff(Main) \/ BlockOff(Loop)
  BY <1>22 DEF BlockOff
<1>23. CASE OffFlag(Main) \/ OffFlag(Loop)
  BY <1>23 DEF OffFlag
<1>24. CASE TearDown(Main) \/ TearDown(Loop)
  BY <1>24 DEF TearDown
<1>25. CASE TearNat(Main) \/ TearNat(Loop)
  BY <1>25 DEF TearNat, NatOfRules
<1>26. CASE TearFlag(Main) \/ TearFlag(Loop)
  BY <1>26 DEF TearFlag
<1>27. CASE UNCHANGED vars
  BY <1>27 DEF vars
<1>28. CASE BlockRaises
  BY <1>28 DEF BlockRaises
<1>29. CASE OffRaises(Main) \/ OffRaises(Loop)
  BY <1>29 DEF OffRaises
<1>30. CASE LanRaises
  BY <1>30 DEF LanRaises
<1>31. CASE TearRaises(Main) \/ TearRaises(Loop)
  BY <1>31 DEF TearRaises
<1>32. CASE Reopen
  BY <1>32 DEF Reopen
<1> QED
  BY <1>1, <1>2, <1>3, <1>4, <1>5, <1>6, <1>7, <1>8, <1>9, <1>10, <1>11, <1>12, <1>13,
     <1>14, <1>15, <1>16, <1>17, <1>18, <1>19, <1>20, <1>21, <1>22, <1>23, <1>24, <1>25,
     <1>26, <1>27, <1>28, <1>29, <1>30, <1>31, <1>32
     DEF Next, LoopStep, MainStep, UndoStep

\* Every step keeps the tunnel stopped while the main thread undoes it.
LEMMA MainStopsStep == LanInv /\ [Next]_vars => MainStopsFirst'
<1> SUFFICES ASSUME LanInv, [Next]_vars PROVE MainStopsFirst'
  OBVIOUS
<1> USE FirewallAssumption DEF LanInv, TypeOK, ThreadsOK, NothingYet, MainStopsFirst, threadVars, ipv6Vars, lanFlags, lanRules, lanVars, SameThreads, SameRules, Goto, Running,
        Undoing, MainStates, LoopStates, Inserted, Removed, Fails, Works, Raises,
        AfterOff, AfterTear, Configs, Rule
<1>1. CASE BlockOn
  BY <1>1 DEF BlockOn
<1>2. CASE BlockJump
  BY <1>2 DEF BlockJump, AfterFailedJump
<1>3. CASE BlockFlag
  BY <1>3 DEF BlockFlag
<1>4. CASE LanCheck
  BY <1>4 DEF LanCheck, RulesAreCurrent
<1>5. CASE LanRefused
  BY <1>5 DEF LanRefused
<1>6. CASE LanNat
  BY <1>6 DEF LanNat, SharedTun
<1>7. CASE LanChain
  BY <1>7 DEF LanChain
<1>8. CASE LanFlag
  BY <1>8 DEF LanFlag
<1>9. CASE DnsmasqStarts
  BY <1>9 DEF DnsmasqStarts
<1>10. CASE OpenTun
  BY <1>10 DEF OpenTun
<1>11. CASE Established
  BY <1>11 DEF Established
<1>12. CASE SessionEnds
  BY <1>12 DEF SessionEnds
<1>13. CASE LoopDecides
  BY <1>13 DEF LoopDecides
<1>14. CASE CleanupStaleRules
  BY <1>14 DEF CleanupStaleRules, Purge, NoRules
<1>15. CASE FullRestart
  BY <1>15 DEF FullRestart
<1>16. CASE LoopWaited
  BY <1>16 DEF LoopWaited
<1>17. CASE Reset
  BY <1>17 DEF Reset
<1>18. CASE HandleSignal
  BY <1>18 DEF HandleSignal
<1>19. CASE Dies
  BY <1>19 DEF Dies
<1>20. CASE Start
  BY <1>20 DEF Start, Purge, NoRules
<1>21. CASE ProcessEnds
  BY <1>21 DEF ProcessEnds
<1>22. CASE BlockOff(Main) \/ BlockOff(Loop)
  BY <1>22 DEF BlockOff
<1>23. CASE OffFlag(Main) \/ OffFlag(Loop)
  BY <1>23 DEF OffFlag
<1>24. CASE TearDown(Main) \/ TearDown(Loop)
  BY <1>24 DEF TearDown
<1>25. CASE TearNat(Main) \/ TearNat(Loop)
  BY <1>25 DEF TearNat, NatOfRules
<1>26. CASE TearFlag(Main) \/ TearFlag(Loop)
  BY <1>26 DEF TearFlag
<1>27. CASE UNCHANGED vars
  BY <1>27 DEF vars
<1>28. CASE BlockRaises
  BY <1>28 DEF BlockRaises
<1>29. CASE OffRaises(Main) \/ OffRaises(Loop)
  BY <1>29 DEF OffRaises
<1>30. CASE LanRaises
  BY <1>30 DEF LanRaises
<1>31. CASE TearRaises(Main) \/ TearRaises(Loop)
  BY <1>31 DEF TearRaises
<1>32. CASE Reopen
  BY <1>32 DEF Reopen
<1> QED
  BY <1>1, <1>2, <1>3, <1>4, <1>5, <1>6, <1>7, <1>8, <1>9, <1>10, <1>11, <1>12, <1>13,
     <1>14, <1>15, <1>16, <1>17, <1>18, <1>19, <1>20, <1>21, <1>22, <1>23, <1>24, <1>25,
     <1>26, <1>27, <1>28, <1>29, <1>30, <1>31, <1>32
     DEF Next, LoopStep, MainStep, UndoStep

\* Every step keeps the rules of its place.
LEMMA RulesStep == LanInv /\ [Next]_vars => RulesOfStep'
<1> SUFFICES ASSUME LanInv, [Next]_vars PROVE RulesOfStep'
  OBVIOUS
<1> USE FirewallAssumption DEF LanInv, TypeOK, ThreadsOK, NothingYet, MainStopsFirst,
        RulesOfStep, ActiveOfStep, Calm, LanRulesOf, NoLanRules, threadVars, ipv6Vars, lanFlags, lanRules, lanVars, SameThreads, SameRules, Goto, Running,
        Undoing, MainStates, LoopStates, Inserted, Removed, Fails, Works, Raises,
        AfterOff, AfterTear, Configs, Rule
<1>1. CASE BlockOn
  BY <1>1 DEF BlockOn
<1>2. CASE BlockJump
  BY <1>2 DEF BlockJump, AfterFailedJump
<1>3. CASE BlockFlag
  BY <1>3 DEF BlockFlag
<1>4. CASE LanCheck
  BY <1>4 DEF LanCheck, RulesAreCurrent
<1>5. CASE LanRefused
  BY <1>5 DEF LanRefused
<1>6. CASE LanNat
  BY <1>6 DEF LanNat, SharedTun
<1>7. CASE LanChain
  BY <1>7 DEF LanChain
<1>8. CASE LanFlag
  BY <1>8 DEF LanFlag
<1>9. CASE DnsmasqStarts
  BY <1>9 DEF DnsmasqStarts
<1>10. CASE OpenTun
  BY <1>10 DEF OpenTun
<1>11. CASE Established
  BY <1>11 DEF Established
<1>12. CASE SessionEnds
  BY <1>12 DEF SessionEnds
<1>13. CASE LoopDecides
  BY <1>13 DEF LoopDecides
<1>14. CASE CleanupStaleRules
  BY <1>14 DEF CleanupStaleRules, Purge, NoRules
<1>15. CASE FullRestart
  BY <1>15 DEF FullRestart
<1>16. CASE LoopWaited
  BY <1>16 DEF LoopWaited
<1>17. CASE Reset
  BY <1>17 DEF Reset
<1>18. CASE HandleSignal
  BY <1>18 DEF HandleSignal
<1>19. CASE Dies
  BY <1>19 DEF Dies
<1>20. CASE Start
  BY <1>20 DEF Start, Purge, NoRules
<1>21. CASE ProcessEnds
  BY <1>21 DEF ProcessEnds
<1>22. CASE BlockOff(Main) \/ BlockOff(Loop)
  BY <1>22 DEF BlockOff
<1>23. CASE OffFlag(Main) \/ OffFlag(Loop)
  BY <1>23 DEF OffFlag
<1>24. CASE TearDown(Main) \/ TearDown(Loop)
  BY <1>24 DEF TearDown
<1>25. CASE TearNat(Main) \/ TearNat(Loop)
  BY <1>25 DEF TearNat, NatOfRules
<1>26. CASE TearFlag(Main) \/ TearFlag(Loop)
  BY <1>26 DEF TearFlag
<1>27. CASE UNCHANGED vars
  BY <1>27 DEF vars
<1>28. CASE BlockRaises
  BY <1>28 DEF BlockRaises
<1>29. CASE OffRaises(Main) \/ OffRaises(Loop)
  BY <1>29 DEF OffRaises
<1>30. CASE LanRaises
  BY <1>30 DEF LanRaises
<1>31. CASE TearRaises(Main) \/ TearRaises(Loop)
  BY <1>31 DEF TearRaises
<1>32. CASE Reopen
  BY <1>32 DEF Reopen
<1> QED
  BY <1>1, <1>2, <1>3, <1>4, <1>5, <1>6, <1>7, <1>8, <1>9, <1>10, <1>11, <1>12, <1>13,
     <1>14, <1>15, <1>16, <1>17, <1>18, <1>19, <1>20, <1>21, <1>22, <1>23, <1>24, <1>25,
     <1>26, <1>27, <1>28, <1>29, <1>30, <1>31, <1>32
     DEF Next, LoopStep, MainStep, UndoStep

\* Every step keeps the flag of its place.
LEMMA ActiveStep == LanInv /\ [Next]_vars => ActiveOfStep'
<1> SUFFICES ASSUME LanInv, [Next]_vars PROVE ActiveOfStep'
  OBVIOUS
<1> USE FirewallAssumption DEF LanInv, TypeOK, ThreadsOK, NothingYet, MainStopsFirst, ActiveOfStep, TunIsCurrent, Calm, threadVars, ipv6Vars, lanFlags, lanRules, lanVars, SameThreads, SameRules, Goto, Running,
        Undoing, MainStates, LoopStates, Inserted, Removed, Fails, Works, Raises,
        AfterOff, AfterTear, Configs, Rule
<1>1. CASE BlockOn
  BY <1>1 DEF BlockOn
<1>2. CASE BlockJump
  BY <1>2 DEF BlockJump, AfterFailedJump
<1>3. CASE BlockFlag
  BY <1>3 DEF BlockFlag
<1>4. CASE LanCheck
  BY <1>4 DEF LanCheck, RulesAreCurrent
<1>5. CASE LanRefused
  BY <1>5 DEF LanRefused
<1>6. CASE LanNat
  BY <1>6 DEF LanNat, SharedTun
<1>7. CASE LanChain
  BY <1>7 DEF LanChain
<1>8. CASE LanFlag
  BY <1>8 DEF LanFlag
<1>9. CASE DnsmasqStarts
  BY <1>9 DEF DnsmasqStarts
<1>10. CASE OpenTun
  BY <1>10 DEF OpenTun
<1>11. CASE Established
  BY <1>11 DEF Established
<1>12. CASE SessionEnds
  BY <1>12 DEF SessionEnds
<1>13. CASE LoopDecides
  BY <1>13 DEF LoopDecides
<1>14. CASE CleanupStaleRules
  BY <1>14 DEF CleanupStaleRules, Purge, NoRules
<1>15. CASE FullRestart
  BY <1>15 DEF FullRestart
<1>16. CASE LoopWaited
  BY <1>16 DEF LoopWaited
<1>17. CASE Reset
  BY <1>17 DEF Reset
<1>18. CASE HandleSignal
  BY <1>18 DEF HandleSignal
<1>19. CASE Dies
  BY <1>19 DEF Dies
<1>20. CASE Start
  BY <1>20 DEF Start, Purge, NoRules
<1>21. CASE ProcessEnds
  BY <1>21 DEF ProcessEnds
<1>22. CASE BlockOff(Main) \/ BlockOff(Loop)
  BY <1>22 DEF BlockOff
<1>23. CASE OffFlag(Main) \/ OffFlag(Loop)
  BY <1>23 DEF OffFlag
<1>24. CASE TearDown(Main) \/ TearDown(Loop)
  BY <1>24 DEF TearDown
<1>25. CASE TearNat(Main) \/ TearNat(Loop)
  BY <1>25 DEF TearNat, NatOfRules
<1>26. CASE TearFlag(Main) \/ TearFlag(Loop)
  BY <1>26 DEF TearFlag
<1>27. CASE UNCHANGED vars
  BY <1>27 DEF vars
<1>28. CASE BlockRaises
  BY <1>28 DEF BlockRaises
<1>29. CASE OffRaises(Main) \/ OffRaises(Loop)
  BY <1>29 DEF OffRaises
<1>30. CASE LanRaises
  BY <1>30 DEF LanRaises
<1>31. CASE TearRaises(Main) \/ TearRaises(Loop)
  BY <1>31 DEF TearRaises
<1>32. CASE Reopen
  BY <1>32 DEF Reopen
<1> QED
  BY <1>1, <1>2, <1>3, <1>4, <1>5, <1>6, <1>7, <1>8, <1>9, <1>10, <1>11, <1>12, <1>13,
     <1>14, <1>15, <1>16, <1>17, <1>18, <1>19, <1>20, <1>21, <1>22, <1>23, <1>24, <1>25,
     <1>26, <1>27, <1>28, <1>29, <1>30, <1>31, <1>32
     DEF Next, LoopStep, MainStep, UndoStep

\* Every step keeps the interface of the setup current.
LEMMA TunStep == LanInv /\ [Next]_vars => TunIsCurrent'
<1> SUFFICES ASSUME LanInv, [Next]_vars PROVE TunIsCurrent'
  OBVIOUS
<1> USE FirewallAssumption DEF LanInv, TypeOK, ThreadsOK, NothingYet, MainStopsFirst, ActiveOfStep, TunIsCurrent, Calm, threadVars, ipv6Vars, lanFlags, lanRules, lanVars, SameThreads, SameRules, Goto, Running,
        Undoing, MainStates, LoopStates, Inserted, Removed, Fails, Works, Raises,
        AfterOff, AfterTear, Configs, Rule
<1>1. CASE BlockOn
  BY <1>1 DEF BlockOn
<1>2. CASE BlockJump
  BY <1>2 DEF BlockJump, AfterFailedJump
<1>3. CASE BlockFlag
  BY <1>3 DEF BlockFlag
<1>4. CASE LanCheck
  BY <1>4 DEF LanCheck, RulesAreCurrent
<1>5. CASE LanRefused
  BY <1>5 DEF LanRefused
<1>6. CASE LanNat
  BY <1>6 DEF LanNat, SharedTun
<1>7. CASE LanChain
  BY <1>7 DEF LanChain
<1>8. CASE LanFlag
  BY <1>8 DEF LanFlag
<1>9. CASE DnsmasqStarts
  BY <1>9 DEF DnsmasqStarts
<1>10. CASE OpenTun
  BY <1>10 DEF OpenTun
<1>11. CASE Established
  BY <1>11 DEF Established
<1>12. CASE SessionEnds
  BY <1>12 DEF SessionEnds
<1>13. CASE LoopDecides
  BY <1>13 DEF LoopDecides
<1>14. CASE CleanupStaleRules
  BY <1>14 DEF CleanupStaleRules, Purge, NoRules
<1>15. CASE FullRestart
  BY <1>15 DEF FullRestart
<1>16. CASE LoopWaited
  BY <1>16 DEF LoopWaited
<1>17. CASE Reset
  BY <1>17 DEF Reset
<1>18. CASE HandleSignal
  BY <1>18 DEF HandleSignal
<1>19. CASE Dies
  BY <1>19 DEF Dies
<1>20. CASE Start
  BY <1>20 DEF Start, Purge, NoRules
<1>21. CASE ProcessEnds
  BY <1>21 DEF ProcessEnds
<1>22. CASE BlockOff(Main) \/ BlockOff(Loop)
  BY <1>22 DEF BlockOff
<1>23. CASE OffFlag(Main) \/ OffFlag(Loop)
  BY <1>23 DEF OffFlag
<1>24. CASE TearDown(Main) \/ TearDown(Loop)
  BY <1>24 DEF TearDown
<1>25. CASE TearNat(Main) \/ TearNat(Loop)
  BY <1>25 DEF TearNat, NatOfRules
<1>26. CASE TearFlag(Main) \/ TearFlag(Loop)
  BY <1>26 DEF TearFlag
<1>27. CASE UNCHANGED vars
  BY <1>27 DEF vars
<1>28. CASE BlockRaises
  BY <1>28 DEF BlockRaises
<1>29. CASE OffRaises(Main) \/ OffRaises(Loop)
  BY <1>29 DEF OffRaises
<1>30. CASE LanRaises
  BY <1>30 DEF LanRaises
<1>31. CASE TearRaises(Main) \/ TearRaises(Loop)
  BY <1>31 DEF TearRaises
<1>32. CASE Reopen
  BY <1>32 DEF Reopen
<1> QED
  BY <1>1, <1>2, <1>3, <1>4, <1>5, <1>6, <1>7, <1>8, <1>9, <1>10, <1>11, <1>12, <1>13,
     <1>14, <1>15, <1>16, <1>17, <1>18, <1>19, <1>20, <1>21, <1>22, <1>23, <1>24, <1>25,
     <1>26, <1>27, <1>28, <1>29, <1>30, <1>31, <1>32
     DEF Next, LoopStep, MainStep, UndoStep

\* The strengthened invariant holds throughout.
LEMMA LanInductive == Spec => []LanInv
<1>1. Init => LanInv
  BY FirewallInit, FirewallAssumption
     DEF Init, LanInv, NothingYet, MainStopsFirst, RulesOfStep, ActiveOfStep, TunIsCurrent,
         Calm, NoLanRules, Running
<1>2. LanInv /\ [Next]_vars => LanInv'
  <2> SUFFICES ASSUME LanInv, [Next]_vars PROVE LanInv'
    OBVIOUS
  <2>1. TypeOK' /\ NothingYet'
    BY FirewallTypes, NothingYetStep DEF LanInv
  <2> QED
    BY <2>1, MainStopsStep, RulesStep, ActiveStep, TunStep DEF LanInv
<1> QED
  BY <1>1, <1>2, PTL DEF Spec

\* In a session that keeps its device the rules of the LAN name it, whatever devices the
\* earlier sessions had and left, and through every full restart, as long as commands
\* succeed in a process that started without rules (firewall.py:68).
THEOREM LanFollowsTunnelCorrect == Spec => []LanFollowsTunnel
<1>1. LanInv => LanFollowsTunnel
  BY FirewallAssumption
     DEF LanInv, LanFollowsTunnel, NameTheTunnel, MainStopsFirst, RulesOfStep, TunIsCurrent, Calm, LanRulesOf,
         Running
<1> QED
  BY <1>1, LanInductive, PTL

-----------------------------------------------------------------------------
(* Nothing piles up                                                        *)

\* The jump of the IPv6 block: one when it is put in, none when it is not, though
\* both threads may take it out.
OneJump6 ==
    Running /\ ~faulty =>
        /\ jump6 <= 1
        /\ pc[Loop] # "on_flag" /\ ~ipv6_blocked => jump6 = 0
        /\ pc[Loop] = "off_flag" => jump6 = 0
        /\ pc[Main] = "off_flag" =>
               jump6 = 0 /\ (ipv6_blocked \/ pc[Loop] \in {"off", "gone"})

\* Where the loop has rules of the LAN to look at or to undo, before it sets up any.
BeforeSetup == {"opened", "on", "on_jump", "on_flag", "lan", "tear", "tear_nat", "tear_flag"}

\* The rules of the LAN at each step once the handler undoes them too: the loop does
\* not come back to them.
PileOfStep ==
    Running /\ stop_flag /\ ~faulty =>
        /\ lan_jump <= 1 /\ \A s, t \in nat : s = t
        /\ pc[Loop] \in BeforeSetup =>
               /\ nat \subseteq {Rule(lan_tun)}
               /\ ~lan_active => nat = {} /\ lan_jump = 0
               /\ pc[Main] \in {"tear_nat", "tear_flag"} => lan_jump = 0
               /\ pc[Main] = "tear_flag" => nat = {}
        /\ pc[Loop] \in {"tear_nat", "tear_flag", "setup", "setup_chain"} => lan_jump = 0
        /\ pc[Loop] \in {"tear_flag", "setup"} => nat = {}
        /\ pc[Loop] \in {"setup_chain", "setup_flag"} => nat \subseteq {Rule(tun)}

PileInv == LanInv /\ BlockInv /\ OneJump6 /\ PileOfStep

\* Every step keeps the jump of the block single.
LEMMA OneJump6Step == PileInv /\ [Next]_vars => OneJump6'
<1> SUFFICES ASSUME PileInv, [Next]_vars PROVE OneJump6'
  OBVIOUS
<1> USE FirewallAssumption DEF PileInv, LanInv, BlockInv, TypeOK, ThreadsOK, NothingYet,
        MainStopsFirst, JumpFirst, OneJump6, threadVars, ipv6Vars, lanFlags, lanRules, lanVars,
        SameThreads, SameRules, Goto, Running, Undoing, MainStates, LoopStates, Inserted, Removed, Fails, Works, Raises,
        AfterOff, AfterTear, Configs, Rule
<1>1. CASE BlockOn
  BY <1>1 DEF BlockOn
<1>2. CASE BlockJump
  BY <1>2 DEF BlockJump, AfterFailedJump
<1>3. CASE BlockFlag
  BY <1>3 DEF BlockFlag
<1>4. CASE OpenTun
  BY <1>4 DEF OpenTun
<1>5. CASE Established
  BY <1>5 DEF Established
<1>6. CASE SessionEnds
  BY <1>6 DEF SessionEnds
<1>7. CASE LoopDecides
  BY <1>7 DEF LoopDecides
<1>8. CASE CleanupStaleRules
  BY <1>8 DEF CleanupStaleRules, Purge, NoRules
<1>9. CASE FullRestart
  BY <1>9 DEF FullRestart
<1>10. CASE LoopWaited
  BY <1>10 DEF LoopWaited
<1>11. CASE Reset
  BY <1>11 DEF Reset
<1>12. CASE HandleSignal
  BY <1>12 DEF HandleSignal
<1>13. CASE Dies
  BY <1>13 DEF Dies
<1>14. CASE Start
  <2>1. pc'[Main] = "clean" /\ pc'[Loop] = pc[Loop] /\ pc[Loop] = "gone"
    BY <1>14 DEF Start
  <2>2. ~faulty' => jump6' = 0
    BY <1>14 DEF Start, Purge, NoRules
  <2> QED
    BY <2>1, <2>2
<1>15. CASE ProcessEnds
  BY <1>15 DEF ProcessEnds
<1>16. CASE BlockOff(Main) \/ BlockOff(Loop)
  BY <1>16 DEF BlockOff
<1>17. CASE OffFlag(Main) \/ OffFlag(Loop)
  BY <1>17 DEF OffFlag
<1>18. CASE \/ LanCheck \/ LanRefused \/ LanNat \/ LanChain \/ LanFlag
           \/ DnsmasqStarts \/ TearDown(Main) \/ TearDown(Loop) \/ TearNat(Main)
           \/ TearNat(Loop) \/ TearFlag(Main) \/ TearFlag(Loop) \/ UNCHANGED vars
           \/ LanRaises \/ TearRaises(Main) \/ TearRaises(Loop) \/ Reopen
  BY <1>18 DEF LanRaises, TearRaises, Reopen, LanCheck, RulesAreCurrent, LanRefused, LanNat, SharedTun, LanChain, LanFlag,
     DnsmasqStarts, TearDown, TearNat, NatOfRules, TearFlag, vars
<1>19. CASE BlockRaises \/ OffRaises(Main) \/ OffRaises(Loop)
  BY <1>19 DEF BlockRaises, OffRaises
<1> QED
  BY <1>1, <1>2, <1>3, <1>4, <1>5, <1>6, <1>7, <1>8, <1>9, <1>10, <1>11, <1>12, <1>13,
     <1>14, <1>15, <1>16, <1>17, <1>18, <1>19
     DEF Next, LoopStep, MainStep, UndoStep

\* Steps that leave the LAN alone, and do not bring the loop where it looks at it.
LEMMA PileKept ==
    ASSUME PileOfStep, Running' => Running, ~faulty' => ~faulty,
           UNCHANGED <<stop_flag, config, lan_active, lan_tun, tun, lanRules>>,
           \/ pc'[Loop] = pc[Loop]
           \/ /\ pc'[Loop] \notin {"tear_nat", "tear_flag", "setup", "setup_chain", "setup_flag"}
              /\ pc'[Loop] \in BeforeSetup => pc[Loop] \in BeforeSetup,
           pc'[Main] \in {"tear_nat", "tear_flag"} => pc'[Main] = pc[Main]
    PROVE  PileOfStep'
  BY DEF PileOfStep, lanRules, Rule

\* Most steps are of this kind.
LEMMA PileOther ==
    ASSUME PileInv,
           \/ BlockOff(Main) \/ BlockOff(Loop) \/ OffFlag(Main) \/ OffFlag(Loop)
           \/ BlockOn \/ BlockJump \/ BlockFlag \/ DnsmasqStarts \/ Established
           \/ SessionEnds \/ FullRestart \/ LoopWaited \/ Reopen \/ ProcessEnds \/ UNCHANGED vars
    PROVE  PileOfStep'
<1>0. PileOfStep /\ ThreadsOK /\ Main # Loop
  BY FirewallAssumption DEF PileInv, LanInv, TypeOK
<1> DEFINE Kept ==
      /\ Running' => Running
      /\ ~faulty' => ~faulty
      /\ UNCHANGED <<stop_flag, config, lan_active, lan_tun, tun, lanRules>>
      /\ \/ pc'[Loop] = pc[Loop]
         \/ /\ pc'[Loop] \notin {"tear_nat", "tear_flag", "setup", "setup_chain", "setup_flag"}
            /\ pc'[Loop] \in BeforeSetup => pc[Loop] \in BeforeSetup
      /\ pc'[Main] \in {"tear_nat", "tear_flag"} => pc'[Main] = pc[Main]
<1> USE <1>0 DEF ThreadsOK, BeforeSetup, Running, Goto, SameThreads, SameRules, threadVars,
            ipv6Vars, lanFlags, lanRules, lanVars, Fails, Works, AfterOff
<1>1. CASE BlockOff(Main) \/ BlockOff(Loop)
  <2>1. Kept
    BY <1>1 DEF BlockOff
  <2> QED
    BY <2>1, PileKept
<1>2. CASE OffFlag(Main) \/ OffFlag(Loop)
  <2>1. Kept
    BY <1>2 DEF OffFlag
  <2> QED
    BY <2>1, PileKept
<1>3. CASE BlockOn \/ BlockJump \/ BlockFlag
  <2>1. Kept
    BY <1>3 DEF BlockOn, BlockJump, AfterFailedJump, BlockFlag
  <2> QED
    BY <2>1, PileKept
<1>4. CASE DnsmasqStarts \/ Established \/ SessionEnds \/ ProcessEnds \/ UNCHANGED vars
  <2>1. Kept
    BY <1>4 DEF DnsmasqStarts, Established, SessionEnds, ProcessEnds, vars
  <2> QED
    BY <2>1, PileKept
<1>5. CASE FullRestart \/ LoopWaited \/ Reopen
  <2>1. Kept
    BY <1>5 DEF FullRestart, LoopWaited, Reopen
  <2> QED
    BY <2>1, PileKept
<1> QED
  BY <1>1, <1>2, <1>3, <1>4, <1>5

\* Every step keeps the rules of the LAN single, the handler at work.
LEMMA PileStep == PileInv /\ [Next]_vars => PileOfStep'
<1> SUFFICES ASSUME PileInv, [Next]_vars PROVE PileOfStep'
  OBVIOUS
<1> USE FirewallAssumption DEF PileInv, LanInv, BlockInv, TypeOK, ThreadsOK, NothingYet,
        MainStopsFirst, RulesOfStep, ActiveOfStep, Calm, LanRulesOf,
        NoLanRules, PileOfStep, BeforeSetup, threadVars, ipv6Vars, lanFlags, lanRules, lanVars,
        SameThreads, SameRules, Goto, Running, Undoing, MainStates, LoopStates, Inserted, Removed, Fails, Works, Raises,
        AfterOff, AfterTear, Configs, Rule
<1>1. CASE LanCheck
  BY <1>1 DEF LanCheck, RulesAreCurrent
<1>2. CASE LanRefused
  BY <1>2 DEF LanRefused
<1>3. CASE LanNat
  BY <1>3 DEF LanNat, SharedTun
<1>4. CASE LanChain
  BY <1>4 DEF LanChain
<1>5. CASE LanFlag
  BY <1>5 DEF LanFlag
<1>6. CASE OpenTun
  BY <1>6 DEF OpenTun
<1>7. CASE LoopDecides
  BY <1>7 DEF LoopDecides
<1>8. CASE CleanupStaleRules
  BY <1>8 DEF CleanupStaleRules, Purge, NoRules
<1>9. CASE Reset
  BY <1>9 DEF Reset
<1>10. CASE HandleSignal
  BY <1>10 DEF HandleSignal
<1>11. CASE Start
  BY <1>11 DEF Start, Purge, NoRules
<1>12. CASE TearDown(Main)
  BY <1>12 DEF TearDown
<1>13. CASE TearDown(Loop)
  BY <1>13 DEF TearDown
<1>14. CASE TearNat(Main)
  <2> USE <1>14 DEF TearNat
  <2>1. Running /\ stop_flag /\ ~faulty /\ pc[Loop] \in BeforeSetup /\ Works /\ nat' = nat \ {Rule(NatOfRules)}
           => nat' = {}
    BY DEF NatOfRules
  <2>2. /\ UNCHANGED <<stop_flag, config, lan_active, lan_tun, tun, lan_jump>> /\ nat' \subseteq nat
        /\ pc'[Loop] = pc[Loop] /\ pc[Main] = "tear_nat" /\ pc'[Main] = "tear_flag"
        /\ ~faulty' => ~faulty /\ nat' = nat \ {Rule(NatOfRules)}
    OBVIOUS
  <2> QED
    BY <2>1, <2>2
<1>15. CASE TearNat(Loop)
  <2> USE <1>15 DEF TearNat
  <2>1. Running /\ stop_flag /\ ~faulty /\ Works /\ nat' = nat \ {Rule(NatOfRules)} => nat' = {}
    BY DEF NatOfRules
  <2>2. /\ UNCHANGED <<stop_flag, config, lan_active, lan_tun, tun, lan_jump>>
        /\ pc'[Main] = pc[Main] /\ pc[Loop] = "tear_nat" /\ pc'[Loop] = "tear_flag"
        /\ ~faulty' => ~faulty /\ nat' = nat \ {Rule(NatOfRules)}
    OBVIOUS
  <2> QED
    BY <2>1, <2>2
<1>16. CASE TearFlag(Main) \/ TearFlag(Loop)
  BY <1>16 DEF TearFlag
<1>17. CASE \/ BlockOff(Main) \/ BlockOff(Loop) \/ OffFlag(Main) \/ OffFlag(Loop)
           \/ BlockOn \/ BlockJump \/ BlockFlag \/ DnsmasqStarts \/ Established
           \/ SessionEnds \/ FullRestart \/ LoopWaited \/ Reopen \/ ProcessEnds \/ UNCHANGED vars
  BY <1>17, PileOther DEF PileInv
<1>18. CASE Dies
  BY <1>18 DEF Dies
<1>19. CASE \/ BlockRaises \/ OffRaises(Main) \/ OffRaises(Loop) \/ LanRaises
           \/ TearRaises(Main) \/ TearRaises(Loop)
  BY <1>19 DEF BlockRaises, OffRaises, LanRaises, TearRaises
<1> QED
  BY <1>1, <1>2, <1>3, <1>4, <1>5, <1>6, <1>7, <1>8, <1>9, <1>10, <1>11, <1>12, <1>13,
     <1>14, <1>15, <1>16, <1>17, <1>18, <1>19
     DEF Next, LoopStep, MainStep, UndoStep

\* The strengthened invariant holds throughout.
LEMMA PileInductive == Spec => []PileInv
<1>1. Init => OneJump6 /\ PileOfStep
  BY FirewallAssumption DEF Init, OneJump6, PileOfStep
<1>2. PileInv /\ [Next]_vars => OneJump6' /\ PileOfStep'
  BY OneJump6Step, PileStep
<1> QED
  BY <1>1, <1>2, LanInductive, BlockInductive, PTL DEF Spec, PileInv

\* No MASQUERADE rule is left under an earlier name and no jump is put in twice, the
\* handler and a full restart undoing what the loop sets up at the same time, as long
\* as commands succeed in a process that started without rules (firewall.py:148).
THEOREM NothingPilesUpCorrect == Spec => []NothingPilesUp
<1>1. PileInv => NothingPilesUp
  <2> SUFFICES ASSUME PileInv, Running, ~faulty
               PROVE  jump6 <= 1 /\ lan_jump <= 1 /\ \A s, t \in nat : s = t
    BY DEF NothingPilesUp
  <2>1. CASE stop_flag
    BY <2>1 DEF PileInv, OneJump6, PileOfStep
  <2>2. CASE ~stop_flag
    BY <2>2 DEF PileInv, OneJump6, LanInv, RulesOfStep, Calm, LanRulesOf, NoLanRules
  <2> QED
    BY <2>1, <2>2
<1> QED
  BY <1>1, PileInductive, PTL

\* In such a process each rule is known to a flag, or the loop is about to raise it
\* (firewall.py:52, 134).
THEOREM RulesAreKnownCorrect == Spec => []RulesAreKnown
<1>1. PileInv => RulesAreKnown
  BY DEF PileInv, RulesAreKnown, OneJump6, LanInv, TypeOK, RulesOfStep, ActiveOfStep, Calm,
         LanRulesOf, NoLanRules
<1> QED
  BY <1>1, PileInductive, PTL

\* The rules of the LAN are those of the tunnel of the session and no others, as long as
\* commands succeed in a process that started without rules: through reconnections of the
\* loop, full restarts and the handler, and, but for the session it happens in, through a
\* device that OpenVPN opens again.
THEOREM RulesSoundCorrect == Spec => []RulesSound
  BY LanFollowsTunnelCorrect, NothingPilesUpCorrect, PTL DEF RulesSound
=============================================================================
