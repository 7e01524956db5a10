------------------------------ MODULE Firewall ------------------------------
(***************************************************************************)
(* The rules the daemon puts into the kernel (daemon/firewall.py): the     *)
(* block of IPv6 and the sharing of the tunnel with a LAN, set up by the   *)
(* loop thread when a tunnel comes up, undone by it or by the main thread, *)
(* and removed at the next start when a process left them (core.py).       *)
(*                                                                         *)
(* A command may fail, and few results are read; or it may raise, and then *)
(* the rest of its function is skipped and the thread goes on.  A step     *)
(* stands for the commands between two points where it matters to another  *)
(* thread, or to the next process, where they stop.                        *)
(***************************************************************************)
EXTENDS Integers

CONSTANTS
    Main, Loop,         \* the main thread and the thread of the OpenVPN loop
    None,               \* no interface
    Tuns,               \* the interfaces "dev tun" may give
    Subnets,            \* the values of lan_subnet
    Faults,             \* what commands may do: "fails", "raises"
    JumpsMax            \* bound on the copies of a jump

ASSUME FirewallAssumption ==
    /\ Main # Loop
    /\ None \notin Tuns
    /\ "tun0" \in Tuns
    /\ JumpsMax \in Nat \ {0}

VARIABLES
    config,             \* block_ipv6, lan_auto and lan_subnet of the configuration
    pc,                 \* where each thread is
    stop_vpn,           \* _stop_vpn, also TRUE once _stop_flag is
    stop_flag,          \* _stop_flag
    alive,              \* the OpenVPN process is alive
    tun_iface,          \* _tun_iface
    reopened,           \* history: OpenVPN changed its device in this session
    ipv6_blocked,       \* _ipv6_blocked
    exempt,             \* interface the IPv6 chain lets pass; None: it does not drop
    jump6,              \* jumps from OUTPUT to the chain
    off_raised,         \* history: _ipv6_block_off raised in this process
    lan_active,         \* _lan_active
    lan_tun,            \* _lan_tun
    tun,                \* the local variable tun of _setup_lan_sharing
    nat,                \* MASQUERADE rules: a subnet and an interface
    lan_chain,          \* interface the LAN chain lets pass; None: it does not drop
    lan_jump,           \* jumps from FORWARD to the LAN chain
    dnsmasq,            \* dnsmasq of the LAN: "none", "starting" or "alive"
    faulty              \* history: a command of this process failed unnoticed or
                        \* raised, or the start left it a rule of an earlier one

threadVars == <<config, pc, stop_vpn, stop_flag, alive, tun_iface, reopened>>
ipv6Vars == <<ipv6_blocked, exempt, jump6, off_raised>>
lanFlags == <<lan_active, lan_tun, tun>>
lanRules == <<nat, lan_chain, lan_jump>>
lanVars == <<lanFlags, lanRules, dnsmasq>>
vars == <<threadVars, ipv6Vars, lanVars, faulty>>

Configs == [block_ipv6 : BOOLEAN, lan_auto : BOOLEAN, lan_subnet : Subnets]

\* Shared steps: of _ipv6_block_off ("off", "off_flag") and of
\* _teardown_lan_sharing ("tear", "tear_nat", "tear_flag").
Undoing == {"off", "off_flag", "tear", "tear_nat", "tear_flag"}

\* The main thread: dead (the script of the unit runs), cleaning up at start,
\* watching, waiting for the loop, resetting the state of a full restart, past the
\* handler.
MainStates == {"dead", "clean", "run", "wait", "reset", "done"} \cup Undoing

\* The loop: not there, between sessions, with a tunnel device, in the steps of
\* _ipv6_block_on and of _setup_lan_sharing, in session, after it.
LoopStates == {"gone", "idle", "opened", "on", "on_jump", "on_flag", "lan", "setup",
               "setup_chain", "setup_flag", "live", "end"} \cup Undoing

\* A thread in commands, which may take longer than a full restart waits for.
Busy == LoopStates \ {"gone", "idle", "opened", "live"}

Running == pc[Main] # "dead"

Goto(a, from, to) == pc[a] = from /\ pc' = [pc EXCEPT ![a] = to]
SameThreads == UNCHANGED <<config, stop_vpn, stop_flag, alive, tun_iface, reopened>>

\* One more jump, or one less.
Inserted(n) == IF n < JumpsMax THEN n + 1 ELSE n
Removed(n) == IF n > 0 THEN n - 1 ELSE 0

\* What becomes of a command.
Works == UNCHANGED faulty
Fails == "fails" \in Faults /\ faulty' = TRUE
Raises == "raises" \in Faults /\ faulty' = TRUE

\* Where a thread goes on after _teardown_lan_sharing and _ipv6_block_off.
AfterTear(a) == IF a = Loop THEN "setup" ELSE "off"
AfterOff(a) == IF a = Loop THEN "gone" ELSE IF stop_flag THEN "done" ELSE "reset"

\* The MASQUERADE rule of the interface t.
Rule(t) == <<config.lan_subnet, t>>

-----------------------------------------------------------------------------
(* The block of IPv6                                                       *)

\* _ipv6_block_on up to the DROP rule, which may fail.
BlockOn ==
    /\ IF ipv6_blocked
       THEN Goto(Loop, "on", "lan") /\ Works /\ UNCHANGED exempt
       ELSE /\ Goto(Loop, "on", "on_jump")
            /\ \/ exempt' = tun_iface /\ Works
               \/ exempt' = None /\ Fails
    /\ SameThreads
    /\ UNCHANGED <<ipv6_blocked, jump6, off_raised, lanVars>>

\* Mutant: the result of the insertion is not read.
AfterFailedJumpAny == "on_flag"
\* "ip6tables OUTPUT : echec": return.
AfterFailedJump == "lan"

BlockJump ==
    /\ \/ Goto(Loop, "on_jump", "on_flag") /\ jump6' = Inserted(jump6)
       \/ Goto(Loop, "on_jump", AfterFailedJump) /\ "fails" \in Faults /\ UNCHANGED jump6
    /\ SameThreads
    /\ UNCHANGED <<ipv6_blocked, exempt, off_raised, lanVars, faulty>>

\* The chain of FORWARD goes the same way; its failure is not looked at.
BlockFlag ==
    /\ Goto(Loop, "on_flag", "lan")
    /\ ipv6_blocked' = TRUE
    /\ SameThreads
    /\ UNCHANGED <<exempt, jump6, off_raised, lanVars, faulty>>

\* A command of it raises: the flag stays down, the jump may be in.
BlockRaises ==
    /\ pc[Loop] \in {"on", "on_jump", "on_flag"} /\ ~ipv6_blocked
    /\ pc' = [pc EXCEPT ![Loop] = "lan"]
    /\ exempt' \in IF pc[Loop] = "on" THEN {exempt, None} ELSE {exempt}
    /\ Raises
    /\ SameThreads
    /\ UNCHANGED <<ipv6_blocked, jump6, off_raised, lanVars>>

\* _ipv6_block_off.  A chain that is still jumped to is flushed, not deleted.
BlockOff(a) ==
    /\ IF ipv6_blocked
       THEN /\ Goto(a, "off", "off_flag")
            /\ exempt' = None
            /\ \/ jump6' = Removed(jump6) /\ Works
               \/ UNCHANGED jump6 /\ Fails
       ELSE /\ pc[a] = "off"
            /\ pc' = [pc EXCEPT ![a] = AfterOff(a)]
            /\ Works
            /\ UNCHANGED <<exempt, jump6>>
    /\ SameThreads
    /\ UNCHANGED <<ipv6_blocked, off_raised, lanVars>>

OffFlag(a) ==
    /\ Goto(a, "off_flag", "off")
    /\ ipv6_blocked' = FALSE
    /\ SameThreads
    /\ UNCHANGED <<exempt, jump6, off_raised, lanVars, faulty>>

\* A command of it raises: the flag stays up, the jump may be gone.
OffRaises(a) ==
    /\ \/ /\ pc[a] = "off" /\ ipv6_blocked
          /\ exempt' \in {exempt, None} /\ jump6' \in {jump6, Removed(jump6)}
       \/ pc[a] = "off_flag" /\ UNCHANGED <<exempt, jump6>>
    /\ pc' = [pc EXCEPT ![a] = AfterOff(a)]
    /\ Raises /\ off_raised' = TRUE
    /\ SameThreads
    /\ UNCHANGED <<ipv6_blocked, lanVars>>

-----------------------------------------------------------------------------
(* The sharing with the LAN                                                *)

\* The remembered interface is the one of the tunnel.
RulesAreCurrent == lan_tun = tun_iface

LanCheck ==
    /\ pc[Loop] = "lan"
    /\ pc' = [pc EXCEPT ![Loop] = IF ~config.lan_auto \/ (lan_active /\ RulesAreCurrent) THEN "live"
                                  ELSE IF lan_active THEN "tear" ELSE "setup"]
    /\ SameThreads
    /\ UNCHANGED <<ipv6Vars, lanVars, faulty>>

\* The LAN interface has the default route, or "ip addr add" fails or raises: refused.
LanRefused ==
    /\ Goto(Loop, "setup", "live")
    /\ SameThreads
    /\ UNCHANGED <<ipv6Vars, lanVars, faulty>>

\* Mutant: the interface the earlier rules name.
SharedTunOld == lan_tun
\* tun = self._tun_iface
SharedTun == tun_iface

LanNat ==
    /\ Goto(Loop, "setup", "setup_chain")
    /\ tun' = SharedTun
    /\ \/ nat' = nat \cup {Rule(tun')} /\ Works
       \/ UNCHANGED nat /\ Fails
    /\ SameThreads
    /\ UNCHANGED <<ipv6Vars, lan_active, lan_tun, lan_chain, lan_jump, dnsmasq>>

LanChain ==
    /\ Goto(Loop, "setup_chain", "setup_flag")
    /\ \/ lan_chain' = tun /\ lan_jump' = Inserted(lan_jump) /\ Works
       \/ lan_chain' \in {None, tun} /\ lan_jump' \in {lan_jump, Inserted(lan_jump)} /\ Fails
    /\ SameThreads
    /\ UNCHANGED <<ipv6Vars, lanFlags, nat, dnsmasq>>

LanFlag ==
    /\ Goto(Loop, "setup_flag", "live")
    /\ lan_active' = TRUE
    /\ lan_tun' = tun /\ tun' = None
    /\ dnsmasq' = "starting"
    /\ SameThreads
    /\ UNCHANGED <<ipv6Vars, lanRules, faulty>>

\* A command after the MASQUERADE rule raises: the rules that are in stay, with the
\* jump if it was the last one, and _lan_active stays down.
LanRaises ==
    /\ pc[Loop] \in {"setup_chain", "setup_flag"}
    /\ pc' = [pc EXCEPT ![Loop] = "live"]
    /\ lan_chain' \in IF pc[Loop] = "setup_chain" THEN {lan_chain, None, tun} ELSE {lan_chain}
    /\ tun' = None
    /\ Raises
    /\ SameThreads
    /\ UNCHANGED <<ipv6Vars, lan_active, lan_tun, nat, lan_jump, dnsmasq>>

\* The thread of _start_lan_dnsmasq; without dnsmasq there is none.
DnsmasqStarts ==
    /\ dnsmasq = "starting"
    /\ dnsmasq' \in {"alive", "none"}
    /\ UNCHANGED <<threadVars, ipv6Vars, lanFlags, lanRules, faulty>>

\* _stop_lan_dnsmasq ends the one it knows by now.
DnsmasqStopped == IF dnsmasq = "alive" THEN "none" ELSE dnsmasq

\* _teardown_lan_sharing: dnsmasq and the chain.
TearDown(a) ==
    /\ IF lan_active
       THEN /\ Goto(a, "tear", "tear_nat")
            /\ dnsmasq' = DnsmasqStopped
            /\ lan_chain' = None
            /\ \/ lan_jump' = Removed(lan_jump) /\ Works
               \/ UNCHANGED lan_jump /\ Fails
       ELSE /\ Goto(a, "tear", AfterTear(a))
            /\ Works
            /\ UNCHANGED <<dnsmasq, lan_chain, lan_jump>>
    /\ SameThreads
    /\ UNCHANGED <<ipv6Vars, lanFlags, nat>>

\* Mutant: the rule is deleted under the name of the present tunnel.
NatOfTunnel == tun_iface
\* self._lan_tun or self._tun_iface
NatOfRules == IF lan_tun # None THEN lan_tun ELSE tun_iface

TearNat(a) ==
    /\ Goto(a, "tear_nat", "tear_flag")
    /\ \/ nat' = nat \ {Rule(NatOfRules)} /\ Works
       \/ UNCHANGED nat /\ Fails
    /\ SameThreads
    /\ UNCHANGED <<ipv6Vars, lanFlags, lan_chain, lan_jump, dnsmasq>>

TearFlag(a) ==
    /\ Goto(a, "tear_flag", AfterTear(a))
    /\ lan_active' = FALSE
    /\ lan_tun' = None
    /\ SameThreads
    /\ UNCHANGED <<ipv6Vars, tun, lanRules, dnsmasq, faulty>>

\* A command of it raises: the flags stay, and the thread goes on.
TearRaises(a) ==
    /\ \/ /\ pc[a] = "tear" /\ lan_active
          /\ dnsmasq' = DnsmasqStopped
          /\ lan_chain' \in {lan_chain, None} /\ lan_jump' \in {lan_jump, Removed(lan_jump)}
       \/ pc[a] \in {"tear_nat", "tear_flag"} /\ UNCHANGED <<dnsmasq, lan_chain, lan_jump>>
    /\ pc' = [pc EXCEPT ![a] = AfterTear(a)]
    /\ Raises
    /\ SameThreads
    /\ UNCHANGED <<ipv6Vars, lanFlags, nat>>

-----------------------------------------------------------------------------
(* The loop                                                                *)

SameRules == UNCHANGED <<ipv6Vars, lanVars, faulty>>

\* "TUN/TAP device tunX opened": any free device.  None is while a full restart
\* keeps Tor stopped.
OpenTun ==
    /\ Goto(Loop, "idle", "opened")
    /\ ~stop_vpn /\ pc[Main] = "run"
    /\ alive' = TRUE
    /\ tun_iface' \in Tuns
    /\ SameRules
    /\ UNCHANGED <<config, stop_vpn, stop_flag, reopened>>

\* OpenVPN reconnects by itself and its device has another name.  Once the session
\* has announced its tunnel, neither the block nor the sharing is set up again.
Reopen ==
    /\ pc[Loop] \in {"opened", "live"}
    /\ tun_iface' \in Tuns \ {tun_iface}
    /\ reopened' = (pc[Loop] = "live")
    /\ SameRules
    /\ UNCHANGED <<config, pc, stop_vpn, stop_flag, alive>>

Established ==
    /\ Goto(Loop, "opened", IF config.block_ipv6 THEN "on" ELSE "lan")
    /\ SameThreads /\ SameRules

ProcessEnds ==
    /\ alive /\ alive' = FALSE
    /\ SameRules
    /\ UNCHANGED <<config, pc, stop_vpn, stop_flag, tun_iface, reopened>>

\* The output is at its end, or the session raises and leaves the process.
SessionEnds ==
    /\ pc[Loop] \in {"opened", "live"}
    /\ pc' = [pc EXCEPT ![Loop] = "end"]
    /\ reopened' = FALSE
    /\ SameRules
    /\ UNCHANGED <<config, stop_vpn, stop_flag, alive, tun_iface>>

\* Told to stop, or not to reconnect: the block is lifted.  A loop that gives up
\* leaves it, and so does one that is told, or gives up, between two sessions.
LoopDecides ==
    /\ \/ Goto(Loop, "end", "off")
       \/ ~stop_vpn /\ pc[Loop] = "end" /\ \E s \in {"idle", "gone"} : Goto(Loop, "end", s)
       \/ Goto(Loop, "idle", "gone")
    /\ SameThreads /\ SameRules

-----------------------------------------------------------------------------
(* The main thread                                                         *)

FullRestart ==
    /\ Goto(Main, "run", "wait")
    /\ stop_vpn' = TRUE
    /\ alive' = FALSE
    /\ SameRules
    /\ UNCHANGED <<config, stop_flag, tun_iface, reopened>>

LoopWaited ==
    /\ Goto(Main, "wait", "off")
    /\ pc[Loop] \in Busy \cup {"gone"}
    /\ SameThreads /\ SameRules

\* The state of a new start; the services, unless the old loop is there.
Reset ==
    /\ pc[Main] = "reset"
    /\ \/ pc[Loop] = "gone" /\ pc' = [pc EXCEPT ![Main] = "run", ![Loop] = "idle"]
       \/ Goto(Main, "reset", "run")
    /\ stop_vpn' = FALSE
    /\ tun_iface' = "tun0"
    /\ SameRules
    /\ UNCHANGED <<config, stop_flag, alive, reopened>>

\* The handler interrupts the main thread wherever it is.
HandleSignal ==
    /\ Running /\ ~stop_flag
    /\ pc' = [pc EXCEPT ![Main] = "tear"]
    /\ stop_vpn' = TRUE /\ stop_flag' = TRUE
    /\ alive' = FALSE
    /\ SameRules
    /\ UNCHANGED <<config, tun_iface, reopened>>

\* A kill, an exit(1) or the exit of the handler: what was in memory is gone, and
\* dnsmasq with the group of the process.
Dies ==
    /\ Running
    /\ pc' = [pc EXCEPT ![Main] = "dead", ![Loop] = "gone"]
    /\ stop_vpn' = FALSE /\ stop_flag' = FALSE /\ alive' = FALSE
    /\ tun_iface' = "tun0" /\ reopened' = FALSE
    /\ ipv6_blocked' = FALSE /\ off_raised' = FALSE
    /\ lan_active' = FALSE /\ lan_tun' = None /\ tun' = None /\ dnsmasq' = "none"
    /\ faulty' = FALSE
    /\ UNCHANGED <<config, exempt, jump6, lanRules>>

\* Nothing is left of the block and of the sharing.
NoRules == exempt = None /\ jump6 = 0 /\ nat = {} /\ lan_chain = None /\ lan_jump = 0

\* The interfaces whose MASQUERADE rule is deleted without knowing of it.
Purged == {"tun0", "tun1"}

\* The cleanup script (ExecStopPost, ExecStartPre) and cleanup_stale_rules: every
\* jump, the chains, the NAT of two interfaces for the subnet of the configuration
\* they read.  No result is read; the loop over the jumps stops at a failure.
Purge(subnet) ==
    /\ \/ /\ exempt' = None /\ jump6' = 0
          /\ lan_chain' = None /\ lan_jump' = 0
          /\ nat' = nat \ ({subnet} \X Purged)
       \/ /\ "fails" \in Faults
          /\ exempt' \in {exempt, None} /\ jump6' \in 0 .. jump6
          /\ lan_chain' \in {lan_chain, None} /\ lan_jump' \in 0 .. lan_jump
          /\ nat' \in {kept \in SUBSET nat : nat \ ({subnet} \X Purged) \subseteq kept}
    /\ faulty' = ~NoRules'

\* systemd starts a new process.  The GUI may have saved another configuration, before
\* or after the script read it.
Start ==
    /\ Goto(Main, "dead", "clean")
    /\ config' \in Configs
    /\ \E subnet \in {config.lan_subnet, config'.lan_subnet} : Purge(subnet)
    /\ UNCHANGED <<stop_vpn, stop_flag, alive, tun_iface, reopened>>
    /\ UNCHANGED <<ipv6_blocked, off_raised, lanFlags, dnsmasq>>

CleanupStaleRules ==
    /\ pc[Main] = "clean"
    /\ pc' = [pc EXCEPT ![Main] = "run", ![Loop] = "idle"]
    /\ Purge(config.lan_subnet)
    /\ SameThreads
    /\ UNCHANGED <<ipv6_blocked, off_raised, lanFlags, dnsmasq>>

Init ==
    /\ config \in Configs
    /\ pc = [a \in {Main, Loop} |-> IF a = Main THEN "clean" ELSE "gone"]
    /\ stop_vpn = FALSE /\ stop_flag = FALSE /\ alive = FALSE
    /\ tun_iface = "tun0" /\ reopened = FALSE
    /\ ipv6_blocked = FALSE /\ off_raised = FALSE /\ exempt = None /\ jump6 = 0
    /\ lan_active = FALSE /\ lan_tun = None /\ tun = None
    /\ nat = {} /\ lan_chain = None /\ lan_jump = 0 /\ dnsmasq = "none"
    /\ faulty = FALSE

UndoStep(a) ==
    \/ BlockOff(a) \/ OffFlag(a) \/ OffRaises(a)
    \/ TearDown(a) \/ TearNat(a) \/ TearFlag(a) \/ TearRaises(a)

LoopStep ==
    /\ Running
    /\ \/ OpenTun \/ Reopen \/ Established \/ SessionEnds \/ LoopDecides
       \/ BlockOn \/ BlockJump \/ BlockFlag \/ BlockRaises
       \/ LanCheck \/ LanRefused \/ LanNat \/ LanChain \/ LanFlag \/ LanRaises \/ DnsmasqStarts
       \/ UndoStep(Loop)

MainStep ==
    \/ CleanupStaleRules \/ FullRestart \/ LoopWaited \/ Reset \/ HandleSignal \/ Dies \/ Start
    \/ UndoStep(Main)

Next == LoopStep \/ MainStep \/ ProcessEnds

Spec == Init /\ [][Next]_vars

-----------------------------------------------------------------------------
(* Properties                                                              *)

ThreadsOK ==
    /\ pc \in [{Main, Loop} -> MainStates \cup LoopStates]
    /\ pc[Main] \in MainStates /\ pc[Loop] \in LoopStates

TypeOK ==
    /\ config \in Configs
    /\ ThreadsOK
    /\ stop_vpn \in BOOLEAN /\ stop_flag \in BOOLEAN /\ alive \in BOOLEAN
    /\ tun_iface \in Tuns /\ reopened \in BOOLEAN
    /\ ipv6_blocked \in BOOLEAN /\ off_raised \in BOOLEAN
    /\ exempt \in Tuns \cup {None} /\ jump6 \in 0 .. JumpsMax
    /\ lan_active \in BOOLEAN /\ lan_tun \in Tuns \cup {None} /\ tun \in Tuns \cup {None}
    /\ nat \subseteq Subnets \X Tuns /\ lan_chain \in Tuns \cup {None} /\ lan_jump \in 0 .. JumpsMax
    /\ dnsmasq \in {"none", "starting", "alive"}
    /\ faulty \in BOOLEAN

\* _ipv6_blocked, on which every later block and unblock depends, is not up over a
\* jump that is not there, whichever commands fail or raise, until the handler runs or
\* an exception ends _ipv6_block_off between the jump and the flag (firewall.py:34, 62).
BlockedIsJumped ==
    /\ Running /\ ~stop_flag /\ ~off_raised
    /\ ipv6_blocked /\ (\A a \in {Main, Loop} : pc[a] # "off_flag")
    => jump6 > 0

\* The rules of the LAN let through the tunnel there is.
NameTheTunnel == lan_chain = tun_iface /\ lan_jump > 0 /\ Rule(tun_iface) \in nat

\* In a session the rules of the LAN name its tunnel, or the clients are cut off: each
\* session mends what the earlier ones left, those whose device changed under the daemon
\* and full restarts included (firewall.py:68, README.md:677).
LanFollowsTunnel ==
    Running /\ pc[Loop] = "live" /\ alive /\ lan_active /\ ~faulty /\ ~reopened =>
        NameTheTunnel

\* The same when OpenVPN changes its device inside a session: "Apres un remontage du
\* tunnel - redemarrage complet du watchdog ou simple reconnexion OpenVPN - ce nom peut
\* changer [...].  On reconstruit donc." (firewall.py:69).  This does not hold: the
\* announcement of the same session is not handled twice (openvpn.py:554).
LanFollowsDevice ==
    Running /\ pc[Loop] = "live" /\ alive /\ lan_active /\ ~faulty => NameTheTunnel

\* The chain lets the tunnel there is pass.  This does not hold: a chain that is
\* kept for the next tunnel (firewall.py:22) exempts the earlier one.
ExemptIsTunnel ==
    Running /\ pc[Loop] = "live" /\ alive /\ ipv6_blocked /\ ~faulty => exempt = tun_iface

\* No MASQUERADE rule is left under an earlier name (firewall.py:148), and no jump
\* is put in twice, in a process that started without rules and whose commands succeed.
NothingPilesUp ==
    Running /\ ~faulty =>
               /\ jump6 <= 1 /\ lan_jump <= 1
               /\ \A s, t \in nat : s = t

\* In such a process each rule is known to a flag, so that whoever undoes it will find
\* it (firewall.py:52, 134), or the loop is about to raise the flag: a setup that is
\* refused after a teardown, an undoing by both threads, a device that changed under the
\* rules leave nothing behind.  The handler may find the loop between rule and flag.
RulesAreKnown ==
    Running /\ ~faulty =>
        /\ jump6 > 0 => ipv6_blocked \/ pc[Loop] = "on_flag"
        /\ ~stop_flag /\ (lan_jump > 0 \/ nat # {}) =>
               lan_active \/ pc[Loop] \in {"setup_chain", "setup_flag"}

\* In such a process the rules are those of the tunnel of the session and no others.
RulesSound == LanFollowsTunnel /\ NothingPilesUp

\* "Supprime toutes les regles/routes orphelines d'une session precedente" (core.py:214).
\* This does not hold, even when every command succeeds: the NAT rule goes only under two
\* names of interfaces and the present subnet (core.py:237).
StartsClean == [][pc[Main] = "clean" /\ pc'[Main] = "run" => NoRules']_vars
=============================================================================
