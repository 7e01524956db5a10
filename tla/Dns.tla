-------------------------------- MODULE Dns --------------------------------
(***************************************************************************)
(* The DNS of the tunnel (daemon/dns.py): the servers the VPN pushes, put  *)
(* on the interface with resolvectl, and the split DNS, a drop-in of       *)
(* systemd-resolved.  The loop thread sets both up when a tunnel comes up  *)
(* (openvpn.py) and the watchdog looks after them (watchdog.py), while     *)
(* systemd-resolved, OpenVPN and other tools undo parts of them.  What     *)
(* they do, and each command that fails, is a disturbance.                 *)
(***************************************************************************)
EXTENDS Integers, Lexicographic

CONSTANTS
    Main, Loop,         \* the main thread and the thread of the OpenVPN loop
    Servers,            \* the DNS servers of the VPN
    Pushes,             \* the sets of them that a PUSH_REPLY may hold
    DisturbancesMax     \* bound on the disturbances

ASSUME DnsAssumption ==
    /\ Main # Loop
    /\ Pushes \subseteq SUBSET Servers
    /\ DisturbancesMax \in Nat

VARIABLES
    split,              \* local_dns and excluded_domains are set
    readable,           \* resolvectl tells default-route in a known form
    restarts,           \* reload-or-restart restarts systemd-resolved
    pc,                 \* where each thread is
    ips,                \* the local variable ips of _apply_vpn_dns
    alive,              \* the OpenVPN process, and with it the interface
    tunnel_up,          \* _tunnel_up
    vpn_dns_ips,        \* _vpn_dns_ips
    pushed,             \* history: what the server pushed in this session
    link,               \* what systemd-resolved knows of the interface
    drop_in,            \* the drop-in file exists
    in_force,           \* systemd-resolved has read it
    unread,             \* history: a reload that failed was the last one
    disturbances

setting == <<split, readable, restarts>>
threadVars == <<pc, ips>>
sessionVars == <<alive, tunnel_up, vpn_dns_ips, pushed>>
splitVars == <<drop_in, in_force, unread>>
vars == <<setting, threadVars, sessionVars, link, splitVars, disturbances>>

\* The steps of _apply_vpn_dns, of _apply_dns_split and of _remove_dns_split.
Applying == {"apply", "dns", "domain", "route"}
Splitting == {"write", "reload", "remove"}

\* The monitor asleep, in _ensure_dns_config, in the handler or a full restart,
\* or gone.
MainStates == Applying \cup Splitting
                  \cup {"sleep", "look", "drop", "revert", "restart", "down"}
Monitoring == Applying \cup {"sleep", "look", "drop", "write", "reload"}

\* The loop between sessions, connecting, setting up, in session, after it.
LoopStates == Applying \cup Splitting \cup {"idle", "connect", "split", "live", "end", "revert"}

Link == [servers : SUBSET Servers, domain : BOOLEAN, route : BOOLEAN]

\* An interface systemd-resolved was told nothing about.
Blank == [servers |-> {}, domain |-> FALSE, route |-> FALSE]

Goto(a, from, to) == pc[a] = from /\ pc' = [pc EXCEPT ![a] = to]

Quiet == UNCHANGED disturbances
Disturbance == disturbances < DisturbancesMax /\ disturbances' = disturbances + 1

-----------------------------------------------------------------------------
(* _apply_vpn_dns                                                          *)

\* Mutant: the loop goes on as the watchdog does.
AppliedBoth(a) == "drop"
\* Where it returns to.
Applied(a) == IF a = Loop THEN "split" ELSE "drop"

Apply(a) ==
    /\ \/ vpn_dns_ips = {} /\ Goto(a, "apply", Applied(a)) /\ UNCHANGED ips
       \/ /\ vpn_dns_ips # {} /\ Goto(a, "apply", "dns")
          /\ ips' = [ips EXCEPT ![a] = vpn_dns_ips]
    /\ Quiet
    /\ UNCHANGED <<setting, sessionVars, link, splitVars>>

\* One resolvectl.  Without the interface it fails.  Its result is read for the
\* servers only; an exception (it may run into its timeout) ends the function.
Resolvectl(a, from, to, failed, told) ==
    /\ \/ Goto(a, from, to) /\ alive /\ link' = told /\ Quiet
       \/ \E f \in failed : Goto(a, from, f)
          /\ UNCHANGED link /\ (IF alive THEN Disturbance ELSE Quiet)
    /\ ips' = IF pc'[a] = Applied(a) THEN [ips EXCEPT ![a] = {}] ELSE ips
    /\ UNCHANGED <<setting, sessionVars, splitVars>>

SetServers(a) ==
    Resolvectl(a, "dns", "domain", {Applied(a)}, [link EXCEPT !.servers = ips[a]])
SetDomain(a) ==
    Resolvectl(a, "domain", "route", {"route", Applied(a)}, [link EXCEPT !.domain = TRUE])
SetRoute(a) ==
    Resolvectl(a, "route", Applied(a), {Applied(a)}, [link EXCEPT !.route = TRUE])

-----------------------------------------------------------------------------
(* The split DNS                                                           *)

\* A restart of systemd-resolved forgets the interfaces.
AfterRestart(r) == IF r THEN Blank ELSE link

\* Where it returns to.
Done(a) == IF a = Loop THEN "live" ELSE "sleep"

\* _apply_dns_split without a server or a domain removes the drop-in.
Split ==
    /\ Goto(Loop, "split", IF split THEN "write" ELSE "remove")
    /\ Quiet
    /\ UNCHANGED <<setting, ips, sessionVars, link, splitVars>>

Write(a) ==
    /\ \/ Goto(a, "write", "reload") /\ drop_in' = TRUE /\ Quiet
       \/ Goto(a, "write", Done(a)) /\ UNCHANGED drop_in /\ Disturbance
    /\ UNCHANGED <<setting, ips, sessionVars, link, in_force, unread>>

\* systemctl reload-or-restart; its result is not read.
Reload(a) ==
    /\ Goto(a, "reload", Done(a))
    /\ \/ /\ in_force' = drop_in /\ unread' = FALSE /\ Quiet
          /\ link' = AfterRestart(restarts)
       \/ unread' = TRUE /\ Disturbance /\ UNCHANGED <<in_force, link>>
    /\ UNCHANGED <<setting, ips, sessionVars, drop_in>>

\* _remove_dns_split, by the loop or, at last, by the handler.
Remove(a) ==
    /\ Goto(a, "remove", IF a = Loop THEN "live" ELSE "down")
    /\ IF drop_in
       THEN /\ drop_in' = FALSE /\ in_force' = FALSE /\ unread' = FALSE
            /\ link' = AfterRestart(restarts)
       ELSE UNCHANGED <<link, splitVars>>
    /\ Quiet
    /\ UNCHANGED <<setting, ips, sessionVars>>

-----------------------------------------------------------------------------
(* The loop                                                                *)

SameDns == UNCHANGED <<setting, ips, splitVars, disturbances>>

StartSession ==
    /\ Goto(Loop, "idle", "connect") /\ pc[Main] \in Monitoring
    /\ alive' = TRUE /\ tunnel_up' = FALSE /\ vpn_dns_ips' = {} /\ pushed' = {}
    /\ link' = Blank
    /\ SameDns

\* The PUSH_REPLY, which may hold no DNS, and "Initialization Sequence Completed".
Established ==
    /\ Goto(Loop, "connect", "apply") /\ alive
    /\ \E s \in Pushes : pushed' = s /\ vpn_dns_ips' = vpn_dns_ips \cup s
    /\ tunnel_up' = TRUE
    /\ SameDns
    /\ UNCHANGED <<alive, link>>

SessionEnds ==
    /\ pc[Loop] \in {"connect", "live"} /\ ~alive
    /\ pc' = [pc EXCEPT ![Loop] = "end"]
    /\ SameDns
    /\ UNCHANGED <<sessionVars, link>>

TunnelDown ==
    /\ Goto(Loop, "end", "revert")
    /\ tunnel_up' = FALSE
    /\ SameDns
    /\ UNCHANGED <<alive, vpn_dns_ips, pushed, link>>

\* _revert_vpn_dns: of an interface that may have gone.
Revert(a) ==
    /\ Goto(a, "revert", IF a = Loop THEN "idle" ELSE "remove")
    /\ link' = Blank
    /\ vpn_dns_ips' = {}
    /\ SameDns
    /\ UNCHANGED <<alive, tunnel_up, pushed>>

-----------------------------------------------------------------------------
(* The main thread                                                         *)

WakeUp ==
    /\ Goto(Main, "sleep", "look") /\ tunnel_up
    /\ SameDns
    /\ UNCHANGED <<sessionVars, link>>

\* Mutant: "not" for "is False".
RouteMissingNot == ~(readable /\ link.route)
\* _default_route_state(st) is False
RouteMissing == readable /\ ~link.route

\* Mutant: the server alone is looked at.
MissingServer == link.servers \cap vpn_dns_ips = {}
\* The three attributes of _apply_vpn_dns; one of the servers is enough.
Missing == link.servers \cap vpn_dns_ips = {} \/ ~link.domain \/ RouteMissing

\* Nothing pushed, or a status that cannot be read: nothing is concluded.
Look ==
    /\ \/ Goto(Main, "look", IF vpn_dns_ips # {} /\ alive /\ Missing THEN "apply" ELSE "drop")
          /\ Quiet
       \/ Goto(Main, "look", "drop") /\ Disturbance
    /\ UNCHANGED <<setting, ips, sessionVars, link, splitVars>>

DropInMissing == split /\ ~drop_in

LookAtDropIn ==
    /\ Goto(Main, "drop", IF DropInMissing THEN "write" ELSE "sleep")
    /\ SameDns
    /\ UNCHANGED <<sessionVars, link>>

\* The signal interrupts the main thread wherever it is.
HandleSignal ==
    /\ pc[Main] \in Monitoring
    /\ pc' = [pc EXCEPT ![Main] = "revert"]
    /\ ips' = [ips EXCEPT ![Main] = {}]
    /\ alive' = FALSE
    /\ UNCHANGED <<setting, splitVars, disturbances>>
    /\ UNCHANGED <<tunnel_up, vpn_dns_ips, pushed, link>>

FullRestart ==
    /\ Goto(Main, "sleep", "restart")
    /\ alive' = FALSE
    /\ SameDns
    /\ UNCHANGED <<tunnel_up, vpn_dns_ips, pushed, link>>

Relaunch ==
    /\ Goto(Main, "restart", "sleep")
    /\ tunnel_up' = FALSE
    /\ SameDns
    /\ UNCHANGED <<alive, vpn_dns_ips, pushed, link>>

\* The process exits or dies anywhere; the cleanup script of the unit runs, and a
\* new process starts, perhaps with another configuration.
Restart ==
    /\ split' \in BOOLEAN
    /\ pc' = [pc EXCEPT ![Main] = "sleep", ![Loop] = "idle"]
    /\ alive' = FALSE /\ tunnel_up' = FALSE /\ vpn_dns_ips' = {} /\ pushed' = {}
    /\ link' = Blank /\ drop_in' = FALSE /\ in_force' = FALSE /\ unread' = FALSE
    /\ ips' = [a \in {Main, Loop} |-> {}]
    /\ Quiet
    /\ UNCHANGED <<readable, restarts>>

-----------------------------------------------------------------------------
(* OpenVPN, systemd-resolved and other tools                               *)

ProcessEnds ==
    /\ alive /\ alive' = FALSE
    /\ SameDns
    /\ UNCHANGED <<pc, tunnel_up, vpn_dns_ips, pushed, link>>

\* SIGUSR1: a new PUSH_REPLY, for which the hook dns-updown installs the servers
\* only.  The line "Initialization Sequence Completed" is not a new tunnel.
Reconnects ==
    /\ alive /\ pc[Loop] = "live"
    /\ \E s \in Pushes :
          /\ pushed' = pushed \cup s /\ vpn_dns_ips' = vpn_dns_ips \cup s
          /\ link' = [link EXCEPT !.servers = s, !.domain = FALSE, !.route = FALSE]
    /\ Disturbance
    /\ UNCHANGED <<setting, threadVars, alive, tunnel_up, splitVars>>

ResolvedRestarts ==
    /\ link' = Blank /\ in_force' = drop_in /\ unread' = FALSE
    /\ Disturbance
    /\ UNCHANGED <<setting, threadVars, sessionVars, drop_in>>

\* Another tool removes the drop-in.
DropInRemoved ==
    /\ drop_in /\ drop_in' = FALSE
    /\ Disturbance
    /\ UNCHANGED <<setting, threadVars, sessionVars, link, in_force, unread>>

Init ==
    /\ split \in BOOLEAN /\ readable \in BOOLEAN /\ restarts \in BOOLEAN
    /\ pc = [a \in {Main, Loop} |-> IF a = Main THEN "sleep" ELSE "idle"]
    /\ ips = [a \in {Main, Loop} |-> {}]
    /\ alive = FALSE /\ tunnel_up = FALSE /\ vpn_dns_ips = {} /\ pushed = {}
    /\ link = Blank /\ drop_in = FALSE /\ in_force = FALSE /\ unread = FALSE
    /\ disturbances = 0

ApplyStep(a) == Apply(a) \/ SetServers(a) \/ SetDomain(a) \/ SetRoute(a)
SplitStep(a) == Write(a) \/ Reload(a) \/ Remove(a)
LoopStep ==
    /\ pc[Main] # "down"
    /\ \/ ApplyStep(Loop) \/ Split \/ SplitStep(Loop) \/ SessionEnds \/ TunnelDown \/ Revert(Loop)
MonitorStep ==
    \/ WakeUp \/ Look \/ ApplyStep(Main) \/ LookAtDropIn \/ SplitStep(Main) \/ Revert(Main)
    \/ Relaunch

Next ==
    \/ LoopStep \/ (pc[Main] # "down" /\ (StartSession \/ Established))
    \/ MonitorStep \/ HandleSignal \/ FullRestart \/ Restart
    \/ ProcessEnds \/ Reconnects \/ ResolvedRestarts \/ DropInRemoved

Spec == Init /\ [][Next]_vars

\* The two threads are scheduled; no session has to begin or to end.
FairSpec == Spec /\ WF_vars(LoopStep) /\ WF_vars(MonitorStep)

-----------------------------------------------------------------------------
(* Properties                                                              *)

ThreadsOK ==
    /\ pc \in [{Main, Loop} -> MainStates \cup LoopStates]
    /\ pc[Main] \in MainStates /\ pc[Loop] \in LoopStates

TypeOK ==
    /\ split \in BOOLEAN /\ readable \in BOOLEAN /\ restarts \in BOOLEAN
    /\ ThreadsOK
    /\ ips \in [{Main, Loop} -> SUBSET Servers]
    /\ alive \in BOOLEAN /\ tunnel_up \in BOOLEAN
    /\ vpn_dns_ips \subseteq Servers /\ pushed \subseteq Servers
    /\ link \in Link
    /\ drop_in \in BOOLEAN /\ in_force \in BOOLEAN /\ unread \in BOOLEAN
    /\ disturbances \in 0 .. DisturbancesMax

\* The daemon watches over a tunnel that stays.
Watched == pc[Loop] = "live" /\ alive /\ pc[Main] \in Monitoring

\* What is put on the interface came from this session's server, and all of it is.
Complete ==
    /\ link.servers \cap pushed # {}
    /\ link.domain
    /\ readable => link.route

\* The DNS of a tunnel that stays ends up complete and remains so, whatever undid
\* it, in whatever order, the daemon's own restart of systemd-resolved included
\* (dns.py:80, dns.py:187, README.md:413).
ServersComeBack == <>[](Watched /\ pushed # {}) => <>[]Complete

\* The drop-in comes back, and systemd-resolved reads it unless told in vain, for
\* a server that pushes no DNS too (dns.py:121).
SplitComesBack == <>[](Watched /\ split) => <>[](drop_in /\ (in_force \/ unread))

\* Both halves of the DNS of a tunnel that stays come back: they undo each other.
DnsComesBack == ServersComeBack /\ SplitComesBack

\* A sound configuration is not applied for ever: "indefiniment, sur une
\* configuration saine" (dns.py:109).
DnsSettles == <>[]Watched => <>[](pc[Main] \in {"sleep", "look", "drop"})

\* What the _apply_vpn_dns under way, if there is one, leaves of the interface.
Outcome ==
    [servers |-> CASE pc[Main] = "apply" -> vpn_dns_ips
                   [] pc[Main] = "dns" -> ips[Main]
                   [] pc[Main] \notin {"apply", "dns"} -> link.servers,
     domain |-> link.domain \/ pc[Main] \in {"apply", "dns", "domain"},
     route |-> link.route \/ pc[Main] \in Applying]
OutcomeComplete ==
    Outcome.servers \cap pushed # {} /\ Outcome.domain /\ (readable => Outcome.route)

\* What the watchdog has left to do: the steps to the next reload, one more
\* reload if the drop-in is missing; the steps of the _apply_vpn_dns under way, one
\* more if what it leaves is not complete.  A reload may undo an interface.
ReloadsLeft ==
    CASE pc[Main] = "write" -> 2
      [] pc[Main] # "write" -> (IF pc[Main] = "reload" THEN 1 ELSE 0)
                               + (IF split /\ ~drop_in THEN 3 ELSE 0)
CommandsLeft ==
    CASE pc[Main] = "apply" -> 4
      [] pc[Main] = "dns" -> 3
      [] pc[Main] = "domain" -> 2
      [] pc[Main] = "route" -> 1
      [] pc[Main] \notin Applying -> 0
RepairsLeft == CommandsLeft + (IF pushed # {} /\ ~OutcomeComplete THEN 5 ELSE 0)
Budget == <<ReloadsLeft, RepairsLeft>>

\* DnsComesBack and DnsSettles without their fairness: as long as a watched tunnel
\* is not disturbed, the watchdog spends a finite budget on it.  It passes
\* on without spending only where it finds nothing to repair, and when the budget
\* is spent the interface is complete and the drop-in is there.
RepairsEnd ==
    [][Watched /\ Watched' /\ disturbances' = disturbances =>
          /\ AllNat(Budget)
          /\ \/ Below(Budget', Budget)
             \/ /\ Budget' = Budget
                /\ \/ pc[Main] = "sleep"
                   \/ pc[Main] = "look" /\ (pushed # {} => Complete)
                   \/ pc[Main] = "drop" /\ (split => drop_in)]_vars
=============================================================================
