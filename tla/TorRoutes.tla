----------------------------- MODULE TorRoutes -----------------------------
(***************************************************************************)
(* The /32 routes that keep Tor's relays out of the tunnel                 *)
(* (daemon/network.py): the loop thread, the helper thread started when    *)
(* the tunnel comes up and the monitor add them, each in its own call of   *)
(* _protect_tor_routes, without a lock; the main thread removes them at    *)
(* start, in a full restart and in the signal handler.  They live in three *)
(* places: the kernel, the set _protected_routes and the file that should  *)
(* allow the next process to find them.                                    *)
(***************************************************************************)
CONSTANTS
    Callers,            \* the threads that call _protect_tor_routes
    Monitor,            \* the main thread among them
    Loop,               \* the loop thread among them
    Ips,                \* relays
    Gateways,           \* what _get_default_gateway may return
    None,               \* Python's None
    Faults              \* what may go wrong (FaultTypes)

\* A call still runs during a cleanup, or is interrupted by one; the process is
\* killed; the file cannot be written or read; an ip route fails, and nobody reads
\* its result.
FaultTypes == {"overlap", "crash", "file", "command"}

ASSUME TorRoutesAssumption ==
    /\ {Monitor, Loop} \subseteq Callers
    /\ None \notin Ips
    /\ Faults \subseteq FaultTypes

VARIABLES
    gateway,            \* _orig_gw
    kernel,             \* the gateway of each relay's route, or None
    protected,          \* _protected_routes
    file,               \* the content of TOR_ROUTES_FILE
    call,               \* the call each caller is in
    life,               \* what the process is doing
    clean,              \* where _cleanup_tor_routes is
    routes,             \* its local variable of that name
    failed              \* history: the relays whose last ip route replace failed

memoryVars == <<gateway, protected>>
cleanVars == <<clean, routes>>
vars == <<memoryVars, kernel, file, call, life, cleanVars, failed>>

\* A call: "add" is the loop over the addresses, with those left to do and the one
\* whose route is in but which is not recorded yet; "save" is about to write todo.
CallType ==
    [at: {"idle", "add", "save"}, asked: SUBSET Ips, todo: SUBSET Ips,
     ip: Ips \cup {None}, added: BOOLEAN]
Idle == [at |-> "idle", asked |-> {}, todo |-> {}, ip |-> None, added |-> FALSE]
Lives == {"boot", "running", "restart", "stopping", "stopped"}
Called(ips) == [at |-> "add", asked |-> ips, todo |-> ips, ip |-> None, added |-> FALSE]
AllIdle == \A c \in Callers : call[c] = Idle

\* The main thread cleans up in these, and so is not in the monitor; the other
\* threads go on, through the cleanup itself if they overlap.
Cleaning == {"boot", "restart", "stopping"}
Alive(c) ==
    \/ life = "running"
    \/ /\ life \in {"restart", "stopping"} /\ c # Monitor
       /\ clean = "idle" \/ "overlap" \in Faults

-----------------------------------------------------------------------------
(* _protect_tor_routes and _add_protected_routes                           *)

\* The relays Tor is connected to, by the ControlPort or by ss; any set.
Protect(c) ==
    /\ Alive(c) /\ call[c] = Idle
    /\ gateway # None
    /\ \E ips \in SUBSET Ips : call' = [call EXCEPT ![c] = Called(ips)]
    /\ UNCHANGED <<memoryVars, kernel, file, life, cleanVars, failed>>

Adding(c) == Alive(c) /\ call[c].at = "add" /\ call[c].ip = None

\* An address that is in the set is taken for routed.
SkipIp(c) ==
    /\ Adding(c)
    /\ \E ip \in call[c].todo \cap protected :
           call' = [call EXCEPT ![c].todo = @ \ {ip}]
    /\ UNCHANGED <<memoryVars, kernel, file, life, cleanVars, failed>>

\* ip route replace, whose result is not read: the address is recorded next even if
\* the kernel kept what it had.  The gateway is read again for each address.
RouteIp(c) ==
    /\ Adding(c) /\ gateway # None
    /\ \E ip \in call[c].todo \ protected :
           /\ \/ kernel' = [kernel EXCEPT ![ip] = gateway] /\ failed' = failed \ {ip}
              \/ "command" \in Faults /\ failed' = failed \cup {ip} /\ UNCHANGED kernel
           /\ call' = [call EXCEPT ![c].ip = ip]
    /\ UNCHANGED <<memoryVars, file, life, cleanVars>>

\* Without a gateway the command cannot be run: TypeError.
NeedsGateway(c) == Adding(c) /\ gateway = None /\ call[c].todo \ protected # {}

\* The process ends: its memory is lost, the kernel and the file stay.
ProcessEnds ==
    /\ life' = "stopped"
    /\ gateway' = None /\ protected' = {}
    /\ call' = [c \in Callers |-> Idle]
    /\ clean' = "idle" /\ routes' = {}
    /\ failed' = {}

\* The call catches it when the addresses come from ss; otherwise it ends the
\* thread, and the process if it is the main one.
RaiseTypeError(c) ==
    /\ NeedsGateway(c)
    /\ \/ /\ call' = [call EXCEPT ![c] = Idle]
          /\ UNCHANGED <<memoryVars, life, cleanVars, failed>>
       \/ c = Monitor /\ ProcessEnds
    /\ UNCHANGED <<kernel, file>>

\* Mutant: the address is not recorded.
RecordedNot(ip) == protected
\* Mutant: the gateway is recorded in its place.
RecordedGateway(ip) == protected \cup {gateway}
\* self._protected_routes.add(ip)
Recorded(ip) == protected \cup {ip}

RecordIp(c) ==
    /\ Alive(c) /\ call[c].ip # None
    /\ protected' = Recorded(call[c].ip)
    /\ call' = [call EXCEPT ![c].todo = @ \ {call[c].ip}, ![c].ip = None, ![c].added = TRUE]
    /\ UNCHANGED <<gateway, kernel, file, life, cleanVars, failed>>

\* The set is copied (sorted) before the file is opened.
EndAdding(c) ==
    /\ Adding(c) /\ call[c].todo = {}
    /\ call' = IF call[c].added
               THEN [call EXCEPT ![c].at = "save", ![c].todo = protected]
               ELSE [call EXCEPT ![c] = Idle]
    /\ UNCHANGED <<memoryVars, kernel, file, life, cleanVars, failed>>

\* A write that fails is ignored; it may have emptied the file.
Save(c) ==
    /\ Alive(c) /\ call[c].at = "save"
    /\ \/ file' = call[c].todo
       \/ "file" \in Faults /\ file' \in {file, {}}
    /\ call' = [call EXCEPT ![c] = Idle]
    /\ UNCHANGED <<memoryVars, kernel, life, cleanVars, failed>>

-----------------------------------------------------------------------------
(* _cleanup_tor_routes                                                     *)

\* Mutant: only the routes of the file are removed.
KnownInFile == file
\* Those of this session and those of the file.
Known == protected \cup file

\* The copy, without the file if that cannot be read; no call is under way, unless
\* they overlap.
BeginCleanup ==
    /\ life \in Cleaning /\ clean = "idle"
    /\ "overlap" \in Faults \/ AllIdle
    /\ clean' = "delete"
    /\ \/ routes' = Known
       \/ "file" \in Faults /\ routes' = protected
    /\ UNCHANGED <<memoryVars, kernel, file, call, life, failed>>

\* ip route del; a failure is not read either, and the address is forgotten.
DeleteRoute ==
    /\ clean = "delete"
    /\ \E ip \in routes :
           /\ \/ kernel' = [kernel EXCEPT ![ip] = None]
              \/ "command" \in Faults /\ UNCHANGED kernel
           /\ routes' = routes \ {ip}
    /\ UNCHANGED <<memoryVars, file, call, life, clean, failed>>

\* Mutant: the set outlives the routes.
ClearedNot == protected
\* self._protected_routes.clear()
Cleared == {}

ClearRoutes ==
    /\ clean = "delete" /\ routes = {}
    /\ protected' = Cleared
    /\ clean' = "unlink"
    /\ UNCHANGED <<gateway, kernel, file, call, life, routes, failed>>

\* The file goes, and the main thread goes on; the handler exits.
UnlinkFile ==
    /\ clean = "unlink"
    /\ file' = {}
    /\ IF life = "stopping"
       THEN ProcessEnds
       ELSE /\ life' = "running"
            /\ clean' = "idle"
            /\ UNCHANGED <<memoryVars, call, routes, failed>>
    /\ UNCHANGED kernel

-----------------------------------------------------------------------------
(* The daemon around it                                                    *)

\* The loop looks for the gateway at each attempt.
ReadGateway ==
    /\ life = "running" /\ call[Loop] = Idle
    /\ gateway' \in Gateways
    /\ UNCHANGED <<kernel, protected, file, call, life, cleanVars, failed>>

\* _full_restart: the monitor is not in a call.
FullRestart ==
    /\ life = "running" /\ call[Monitor] = Idle
    /\ life' = "restart"
    /\ UNCHANGED <<memoryVars, kernel, file, call, cleanVars, failed>>

\* The handler interrupts the main thread wherever it is; in the middle of a call,
\* if that overlaps.
HandleSignal ==
    /\ life \in {"boot", "running", "restart"}
    /\ "overlap" \in Faults \/ call[Monitor] = Idle
    /\ life' = "stopping"
    /\ clean' = "idle" /\ routes' = {}
    /\ UNCHANGED <<memoryVars, kernel, file, call, failed>>

Crash ==
    /\ "crash" \in Faults /\ life # "stopped"
    /\ ProcessEnds
    /\ UNCHANGED <<kernel, file>>

\* A new process runs cleanup_stale_rules first.
Start ==
    /\ life = "stopped"
    /\ life' = "boot"
    /\ UNCHANGED <<memoryVars, kernel, file, call, cleanVars, failed>>

Init ==
    /\ gateway = None /\ protected = {} /\ file = {}
    /\ kernel = [ip \in Ips |-> None]
    /\ call = [c \in Callers |-> Idle]
    /\ life = "boot" /\ clean = "idle" /\ routes = {} /\ failed = {}

CallStep(c) ==
    \/ Protect(c) \/ SkipIp(c) \/ RouteIp(c) \/ RaiseTypeError(c) \/ RecordIp(c)
    \/ EndAdding(c) \/ Save(c)

CleanupStep == BeginCleanup \/ DeleteRoute \/ ClearRoutes \/ UnlinkFile

Next ==
    \/ \E c \in Callers : CallStep(c)
    \/ CleanupStep
    \/ ReadGateway \/ FullRestart \/ HandleSignal \/ Crash \/ Start

Spec == Init /\ [][Next]_vars

-----------------------------------------------------------------------------
(* Properties                                                              *)

TypeOK ==
    /\ gateway \in Gateways \cup {None}
    /\ kernel \in [Ips -> Gateways \cup {None}]
    /\ failed \in SUBSET Ips
    /\ protected \in SUBSET Ips /\ file \in SUBSET Ips /\ routes \in SUBSET Ips
    /\ call \in [Callers -> CallType]
    /\ life \in Lives /\ clean \in {"idle", "delete", "unlink"}

Routed == {ip \in Ips : kernel[ip] # None}

\* The addresses whose route is in and which are not recorded yet.
InHand == {call[c].ip : c \in Callers}

\* Every route in the kernel is one a cleanup would find, or about to be recorded:
\* no interleaving of the adders loses a route, not even when the file misses some.
NoOrphan == Routed \subseteq protected \cup file \cup InHand

\* While the daemon runs, what it takes for routed is (network.py:97: an address
\* in the set is never routed again), but for the addresses whose ip route replace
\* failed: no crash, no restart, no lost file and no failing removal makes the set
\* say more than the kernel.
ProtectedIsRouted ==
    life = "running" => protected \ failed \subseteq Routed

\* "Routes are [...] cleanly removed at shutdown" (README.md:406).
StoppedClean == life = "stopped" => Routed = {}

\* The phase of the routes, as RouteSet sees it.
Phase ==
    CASE life = "running" -> "up"
      [] life = "stopped" -> "down"
      [] life \in Cleaning -> IF clean = "idle" THEN "closing" ELSE "removing"

Routes == INSTANCE RouteSet WITH phase <- Phase, routed <- Routed

\* Every route there is, is removed before the daemon goes on or ends, "cleanly
\* removed at shutdown" (README.md:406), by a cleanup nobody adds to; no other
\* step takes a route away from a relay.
ImplementsRouteSet == Routes!Spec

\* The start removes "toutes les regles/routes orphelines d'une session
\* precedente" (core.py:214).
BootCleans == [][life = "boot" /\ life' = "running" => Routed' = {}]_vars

\* The call the loop makes before the tunnel takes the default route is over.
LoopCallEnds == life' = "running" /\ call[Loop] # Idle /\ call'[Loop] = Idle

\* When it is, each relay asked for is routed through the gateway of this attempt,
\* whichever thread routed it and however often the set and the kernel were emptied
\* and filled before, unless the command for its route failed.
RelaysRouted ==
    [][LoopCallEnds => \A ip \in call[Loop].asked \ failed : kernel[ip] = gateway]_vars

\* The call "route en /32 via la gateway originale chaque IP IPv4 valide et
\* nouvelle" (network.py:87): when it is over, each relay asked for is routed.  This
\* does not hold: the result of the command is not read (network.py:99).
EveryRelayRouted ==
    [][LoopCallEnds => \A ip \in call[Loop].asked : ip \in Routed]_vars

\* Between two calls the file holds all of the set ("persiste l'ensemble",
\* network.py:88).
SetIsSaved == life = "running" /\ AllIdle => protected \subseteq file

\* "Sans passerelle, _protect_tor_routes() ne peut rien faire" (openvpn.py:474):
\* it does not try to add a route without one.
GatewayKnown == \A c \in Callers : ~NeedsGateway(c)
=============================================================================
