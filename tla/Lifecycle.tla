----------------------------- MODULE Lifecycle -----------------------------
(***************************************************************************)
(* The life of the daemon: the main thread, which starts the services and  *)
(* then watches them (daemon/watchdog.py, core.py), and the threads that   *)
(* run the OpenVPN loop (openvpn.py), one being started by each full       *)
(* restart.  Which account an attempt uses is the matter of Failover; here *)
(* a loop goes on or gives up.                                             *)
(*                                                                         *)
(* A command run by the daemon has no timeout, so a thread may stay as     *)
(* long as it likes where it runs some; the waits of the main thread end.  *)
(* Nothing catches what a command run by the main thread raises: the       *)
(* process ends there, tunnel or not.  Signals are not modelled here.      *)
(***************************************************************************)
EXTENDS Integers, Lexicographic

CONSTANTS
    Threads,            \* the OpenVPN loop threads there can be at a time
    AutoReconnect,      \* the values config["auto_reconnect"] may have
    CONN_FAIL_MAX,
    REPAIR_THRESHOLD,
    INERT_EXIT_TICKS,
    Exceptions          \* what may be raised while a line is handled

ASSUME LifecycleAssumption ==
    /\ AutoReconnect \subseteq BOOLEAN
    /\ CONN_FAIL_MAX \in Nat \ {0}
    /\ REPAIR_THRESHOLD \in Nat \ {0}
    /\ INERT_EXIT_TICKS \in Nat \ {0}
    /\ Exceptions \subseteq {"FileNotFoundError", "Exception"}

VARIABLES
    auto_reconnect,
    main,               \* where the main thread is
    loop,               \* where each loop thread is
    vpn_loop_active,    \* _vpn_loop_active
    stop_vpn,           \* _stop_vpn
    tunnel_up,          \* _tunnel_up
    in_grace,           \* less than _CONN_GRACE since the tunnel came up
    process,            \* openvpn_process: "none", "alive" or "dead"
    strays,             \* OpenVPN processes alive that no variable holds
    tor,                \* Tor is there to connect through
    inert_ticks,        \* _inert_ticks
    conn_fails,         \* _conn_fail_count
    full_restarts,      \* _full_restart_count
    unverified          \* history: full restarts since an endpoint answered

loopVars == <<loop, vpn_loop_active>>
openvpnVars == <<process, strays>>
tunnelVars == <<tunnel_up, in_grace>>
countVars == <<inert_ticks, conn_fails, full_restarts, unverified>>
vars == <<auto_reconnect, main, loopVars, stop_vpn, tunnelVars, openvpnVars, tor,
          countVars>>

\* The main thread: waiting for Tor at start, in the three parts of a monitor
\* iteration, in the steps of _full_restart, repairing, or gone: by a sys.exit, or
\* by an exception that nothing caught.
Monitoring == {"sleep", "watch", "check"}
Restarting == {"stop", "kill", "stop_tor", "wait", "reset", "start"}
Gone == {"exited", "raised"}
MainStates == {"boot", "repair"} \cup Gone \cup Monitoring \cup Restarting

\* A loop thread: not there, started, holding the loop, at the head of the while
\* loop, about to run openvpn, reading its output before and after the tunnel is
\* up ("setup" is the work done at that line), after its end, pausing, leaving.
LoopStates == {"none", "start", "begin", "head", "ready", "connecting", "setup",
               "session", "after", "pause", "exit"}

Owners == {t \in Threads : loop[t] \notin {"none", "start"}}
OpenvpnCount == strays + (IF process = "alive" THEN 1 ELSE 0)

\* Points where the loop runs commands or sleeps and may keep others waiting.
Busy == {"setup", "after", "exit"}

-----------------------------------------------------------------------------
(* The OpenVPN loop                                                        *)

At(t, from, to) == loop[t] = from /\ loop' = [loop EXCEPT ![t] = to]

\* Mutant: the loop is entered whether or not another thread holds it.
AcquireUnguarded(t) == At(t, "start", "begin") /\ vpn_loop_active' = TRUE
\* _openvpn_loop: one thread at a time, the others return at once.
Acquire(t) ==
    \/ ~vpn_loop_active /\ At(t, "start", "begin") /\ vpn_loop_active' = TRUE
    \/ vpn_loop_active /\ At(t, "start", "none") /\ UNCHANGED vpn_loop_active

Enter(t) ==
    /\ Acquire(t)
    /\ UNCHANGED <<auto_reconnect, main, stop_vpn, tunnelVars, openvpnVars, tor, countVars>>

Begin(t) ==
    /\ At(t, "begin", "head")
    /\ stop_vpn' = FALSE
    /\ UNCHANGED <<auto_reconnect, main, vpn_loop_active, tunnelVars, openvpnVars, tor,
                   countVars>>

\* A step of the loop that only moves the thread.
LoopMove(t, from, to) ==
    /\ At(t, from, to)
    /\ UNCHANGED <<auto_reconnect, main, vpn_loop_active, stop_vpn, tunnelVars,
                   openvpnVars, tor, countVars>>

\* The head of the loop: stop, no usable provider or no proxy, or go on.
Head(t) ==
    \/ LoopMove(t, "head", "exit")
    \/ ~stop_vpn /\ tor /\ LoopMove(t, "head", "ready")

\* Popen; the process in openvpn_process, if it still runs, is lost.
Connect(t) ==
    /\ tunnel_up' = FALSE
    /\ \/ /\ At(t, "ready", "connecting")
          /\ process' = "alive"
          /\ strays' = OpenvpnCount
       \/ At(t, "ready", "exit") /\ UNCHANGED openvpnVars
    /\ UNCHANGED <<auto_reconnect, main, vpn_loop_active, stop_vpn, in_grace, tor, countVars>>

\* The line that says so may be read after the process has ended.
Established(t) ==
    /\ tor
    /\ At(t, "connecting", "setup")
    /\ tunnel_up' = TRUE
    /\ in_grace' = TRUE
    /\ UNCHANGED <<auto_reconnect, main, vpn_loop_active, stop_vpn, openvpnVars, tor, countVars>>

SetupEnds(t) == LoopMove(t, "setup", "session")

\* An exception while a line is handled: a FileNotFoundError (any command that
\* is not installed) leaves the loop, another one ends the session.  Neither
\* stops the process nor lowers _tunnel_up.
Raise(t) ==
    \E s \in {"connecting", "setup", "session"} :
        \/ "FileNotFoundError" \in Exceptions /\ LoopMove(t, s, "exit")
        \/ "Exception" \in Exceptions /\ LoopMove(t, s, "after")

\* Mutant: _tunnel_up outlives the session.
TunnelFlagKept == tunnel_up
\* _tunnel_up = False
TunnelDown == FALSE

\* End of the output.
SessionEnds(t) ==
    /\ process = "dead"
    /\ \E s \in {"connecting", "session"} : At(t, s, "after")
    /\ tunnel_up' = TunnelDown
    /\ UNCHANGED <<auto_reconnect, main, vpn_loop_active, stop_vpn, in_grace, openvpnVars,
                   tor, countVars>>

\* Leave (told to, not to reconnect, or out of attempts), or pause and go on.
Decide(t) ==
    \/ LoopMove(t, "after", "exit")
    \/ ~stop_vpn /\ auto_reconnect /\ LoopMove(t, "after", "pause")

Resume(t) ==
    \/ stop_vpn /\ LoopMove(t, "pause", "exit")
    \/ LoopMove(t, "pause", "head")

Leave(t) ==
    /\ At(t, "exit", "none")
    /\ vpn_loop_active' = FALSE
    /\ UNCHANGED <<auto_reconnect, main, stop_vpn, tunnelVars, openvpnVars, tor, countVars>>

LoopStep(t) ==
    \/ Enter(t) \/ Begin(t) \/ Head(t) \/ Connect(t) \/ SetupEnds(t)
    \/ SessionEnds(t) \/ Decide(t) \/ Resume(t) \/ Leave(t)

-----------------------------------------------------------------------------
(* The monitor                                                             *)

MainMove(from, to) == main = from /\ main' = to

\* Mutant: as long as Tor is there, something may still happen.
LooksInertTor == auto_reconnect /\ ~vpn_loop_active /\ ~tunnel_up /\ ~tor
\* Mutant: the net against inertia takes the end of the loop for the end of the tunnel.
LooksInertLoop == auto_reconnect /\ ~vpn_loop_active
\* Nothing runs the loop any more.
LooksInert == auto_reconnect /\ ~vpn_loop_active /\ ~tunnel_up

\* The net against inertia; then, every third time, the state of the tunnel.
InertNet ==
    /\ main = "sleep"
    /\ IF LooksInert
       THEN inert_ticks' = inert_ticks + 1
       ELSE inert_ticks' = 0
    /\ IF inert_ticks' >= INERT_EXIT_TICKS
       THEN main' = "exited"
       ELSE main' \in {"sleep", "watch"}
    /\ UNCHANGED <<auto_reconnect, loopVars, stop_vpn, tunnelVars, openvpnVars, tor,
                   conn_fails, full_restarts, unverified>>

\* _vpn_is_active looks for any openvpn process.
WatchTunnel ==
    /\ main = "watch"
    /\ IF OpenvpnCount > 0 /\ tunnel_up
       THEN /\ main' = IF auto_reconnect THEN "check" ELSE "sleep"
            /\ UNCHANGED conn_fails
       ELSE main' = "sleep" /\ conn_fails' = 0
    /\ UNCHANGED <<auto_reconnect, loopVars, stop_vpn, tunnelVars, openvpnVars, tor,
                   inert_ticks, full_restarts, unverified>>

\* Mutant: a good check does not end a series of full restarts.
KeepRestarts == full_restarts
\* _full_restart_count = 0
NoRestarts == 0

\* _check_connectivity said yes: an endpoint answered, or nobody asked because
\* the tunnel came up less than _CONN_GRACE ago.
CheckPasses ==
    /\ MainMove("check", "sleep")
    /\ conn_fails' = 0
    /\ full_restarts' = NoRestarts
    /\ \/ in_grace /\ UNCHANGED unverified
       \/ ~in_grace /\ unverified' = 0
    /\ UNCHANGED <<auto_reconnect, loopVars, stop_vpn, tunnelVars, openvpnVars, tor, inert_ticks>>

\* It said no: the interface is gone, or neither endpoint answers after the
\* grace.  The second time, _full_restart, which repairs instead the third time.
CheckFails ==
    /\ main = "check"
    /\ conn_fails' = conn_fails + 1
    /\ IF conn_fails' >= CONN_FAIL_MAX
       THEN /\ full_restarts' = full_restarts + 1
            /\ unverified' = IF unverified < REPAIR_THRESHOLD + 1
                             THEN unverified + 1 ELSE unverified
            /\ main' = IF full_restarts' >= REPAIR_THRESHOLD THEN "repair" ELSE "stop"
       ELSE main' = "sleep" /\ UNCHANGED <<full_restarts, unverified>>
    /\ UNCHANGED <<auto_reconnect, loopVars, stop_vpn, tunnelVars, openvpnVars, tor, inert_ticks>>

\* _emergency_repair: the script, then sys.exit(1).
Repair ==
    /\ MainMove("repair", "exited")
    /\ UNCHANGED <<auto_reconnect, loopVars, stop_vpn, tunnelVars, openvpnVars, tor, countVars>>

-----------------------------------------------------------------------------
(* _full_restart and _start_services                                       *)

StopVpn ==
    /\ MainMove("stop", "kill")
    /\ stop_vpn' = TRUE
    /\ UNCHANGED <<auto_reconnect, loopVars, tunnelVars, openvpnVars, tor, countVars>>

\* _stop_openvpn: the process it knows of, else every one (pkill).
StopOpenvpn ==
    /\ MainMove("kill", "stop_tor")
    /\ IF process = "alive"
       THEN process' = "dead" /\ UNCHANGED strays
       ELSE strays' = 0 /\ UNCHANGED process
    /\ UNCHANGED <<auto_reconnect, loopVars, stop_vpn, tunnelVars, tor, countVars>>

StopTor ==
    /\ MainMove("stop_tor", "wait")
    /\ tor' = FALSE
    /\ UNCHANGED <<auto_reconnect, loopVars, stop_vpn, tunnelVars, openvpnVars, countVars>>

\* _wait_vpn_loop_exit returns True, or after 15 seconds False, which its caller
\* does not look at; only a thread at work on commands takes that long, and an
\* OpenVPN process that has lost Tor does not.
LoopExited ==
    \/ ~vpn_loop_active
    \/ process # "alive" /\ \E t \in Threads : loop[t] \in Busy

WaitLoopExit ==
    /\ MainMove("wait", "reset")
    /\ LoopExited
    /\ UNCHANGED <<auto_reconnect, loopVars, stop_vpn, tunnelVars, openvpnVars, tor, countVars>>

\* Mutant: the failed checks before a full restart count after it.
ConnFailsKept == conn_fails
\* _conn_fail_count = 0
NoConnFails == 0

ResetState ==
    /\ MainMove("reset", "start")
    /\ stop_vpn' = FALSE
    /\ tunnel_up' = FALSE
    /\ in_grace' = FALSE
    /\ conn_fails' = NoConnFails
    /\ UNCHANGED <<auto_reconnect, loopVars, openvpnVars, tor, inert_ticks, full_restarts,
                   unverified>>

\* _start_services: Tor answers and a loop thread is started, or it does not;
\* run() exits then, _full_restart goes on without.
StartServices ==
    /\ main \in {"boot", "start"}
    /\ \/ /\ main' = "sleep"
          /\ tor' = TRUE
          /\ \E t \in Threads : At(t, "none", "start")
       \/ /\ main' = IF main = "boot" THEN "exited" ELSE "sleep"
          /\ UNCHANGED <<tor, loop>>
    /\ UNCHANGED <<auto_reconnect, vpn_loop_active, stop_vpn, tunnelVars, openvpnVars, countVars>>

\* An exception of the main thread: a command that cannot be run (pgrep and ip in
\* the monitor, ip route behind _protect_tor_routes, the commands of a full
\* restart), or auth.tmp removed by the loop thread between its test and its
\* unlink.  The process ends with the tunnel, the loop and the counts as they are;
\* only the repair catches what its script raises.
MainRaises ==
    /\ main \notin Gone \cup {"repair"}
    /\ main' = "raised"
    /\ UNCHANGED <<auto_reconnect, loopVars, stop_vpn, tunnelVars, openvpnVars, tor, countVars>>

MainStep ==
    \/ InertNet \/ WatchTunnel \/ CheckPasses \/ CheckFails \/ Repair
    \/ StopVpn \/ StopOpenvpn \/ StopTor \/ WaitLoopExit \/ ResetState \/ StartServices

-----------------------------------------------------------------------------
(* The environment                                                         *)

\* An OpenVPN process ends: the server, the network, a circuit check.
ProcessEnds ==
    /\ \/ process = "alive" /\ process' = "dead" /\ UNCHANGED strays
       \/ strays > 0 /\ strays' = strays - 1 /\ UNCHANGED process
    /\ UNCHANGED <<auto_reconnect, main, loopVars, stop_vpn, tunnelVars, tor, countVars>>

\* Tor ends by itself, or its thread starts it again.
TorChanges ==
    /\ main \in Monitoring
    /\ tor' = ~tor
    /\ UNCHANGED <<auto_reconnect, main, loopVars, stop_vpn, tunnelVars, openvpnVars,
                   countVars>>

GraceEnds ==
    /\ in_grace /\ in_grace' = FALSE
    /\ UNCHANGED <<auto_reconnect, main, loopVars, stop_vpn, tunnel_up, openvpnVars, tor,
                   countVars>>

\* systemd (Restart=on-failure, KillMode=control-group) after an exit(1), which is
\* also how an exception ends: a new process, and nothing of the state outlives one.
SystemdRestart ==
    /\ main \in Gone /\ main' = "boot"
    /\ loop' = [t \in Threads |-> "none"] /\ vpn_loop_active' = FALSE
    /\ stop_vpn' = FALSE /\ tunnel_up' = FALSE /\ in_grace' = FALSE
    /\ process' = "none" /\ strays' = 0 /\ tor' = FALSE
    /\ inert_ticks' = 0 /\ conn_fails' = 0 /\ full_restarts' = 0 /\ unverified' = 0
    /\ UNCHANGED auto_reconnect

Init ==
    /\ auto_reconnect \in AutoReconnect
    /\ main = "boot"
    /\ loop = [t \in Threads |-> "none"] /\ vpn_loop_active = FALSE
    /\ stop_vpn = FALSE /\ tunnel_up = FALSE /\ in_grace = FALSE
    /\ process = "none" /\ strays = 0 /\ tor = FALSE
    /\ inert_ticks = 0 /\ conn_fails = 0 /\ full_restarts = 0 /\ unverified = 0

Next ==
    \/ MainStep \/ MainRaises
    \/ \E t \in Threads : LoopStep(t) \/ Established(t) \/ Raise(t)
    \/ ProcessEnds \/ TorChanges \/ GraceEnds \/ SystemdRestart

Spec == Init /\ [][Next]_vars

\* The threads are scheduled and their commands end; without Tor an OpenVPN
\* process cannot go on.  Nothing forces a tunnel up, down, or out of an
\* exception, and no exception is ever due.
FairSpec ==
    /\ Spec
    /\ WF_vars(MainStep)
    /\ \A t \in Threads : WF_vars(LoopStep(t))
    /\ WF_vars(~tor /\ ProcessEnds)

-----------------------------------------------------------------------------
(* Properties                                                              *)

TypeOK ==
    /\ auto_reconnect \in BOOLEAN
    /\ main \in MainStates
    /\ loop \in [Threads -> LoopStates]
    /\ vpn_loop_active \in BOOLEAN /\ stop_vpn \in BOOLEAN
    /\ tunnel_up \in BOOLEAN /\ in_grace \in BOOLEAN /\ tor \in BOOLEAN
    /\ process \in {"none", "alive", "dead"}
    /\ strays \in Nat
    /\ inert_ticks \in 0 .. INERT_EXIT_TICKS
    /\ conn_fails \in 0 .. CONN_FAIL_MAX
    /\ full_restarts \in 0 .. REPAIR_THRESHOLD
    /\ unverified \in 0 .. REPAIR_THRESHOLD + 1

\* "Une seule boucle OpenVPN active a la fois" (openvpn.py:416): one thread in
\* the loop at most, whatever full restarts overlap, and the flag says so.
OneLoop ==
    /\ \A s, t \in Owners : s = t
    /\ vpn_loop_active <=> Owners # {}

\* There are never two OpenVPN processes at once (openvpn.py:406: waiting for
\* the loop "evite deux boucles/processus concurrents").
OneOpenvpn == OpenvpnCount <= 1

\* The flag the watchdog relies on follows the tunnel: it never outlives the
\* session, and a session whose process lives is never left unwatched.
TunnelWatched ==
    /\ tunnel_up => \E t \in Threads : loop[t] \in {"setup", "session"}
    /\ (process = "alive" /\ \E t \in Threads : loop[t] = "session") => tunnel_up

\* One process at most, and the flag that watches it.
OneTunnelWatched == OneOpenvpn /\ TunnelWatched

\* The emergency repair needs REPAIR_THRESHOLD full restarts since an endpoint
\* last answered.
RepairIsJustified ==
    [][main' = "repair" => unverified' >= REPAIR_THRESHOLD]_vars

\* After REPAIR_THRESHOLD full restarts during which no endpoint answered, the
\* watchdog repairs the network (README.md:498).
RepairIsReached ==
    unverified >= REPAIR_THRESHOLD => main \in {"repair", "exited"}

\* Without a loop and without an OpenVPN process, the daemon starts a loop or
\* exits for systemd to restart it: "No outage, however long, can leave the
\* daemon permanently inert" (README.md:490).
Inert == auto_reconnect /\ ~vpn_loop_active /\ OpenvpnCount = 0
NeverInert == Inert ~> (~Inert \/ main \in Gone)

\* What an inert daemon has left before it exits: looks at the inertia, and the
\* steps of the main thread to the next one.
StepsToLook ==
    CASE main \in {"sleep"} \cup Gone -> 0
      [] main \in {"watch", "start", "boot", "repair"} -> 1
      [] main = "reset" -> 2
      [] main = "wait" -> 3
      [] main = "stop_tor" -> 4
      [] main = "kill" -> 5
      [] main = "stop" -> 6
      [] main = "check" -> 7
InertBudget == <<INERT_EXIT_TICKS - inert_ticks, StepsToLook>>

\* NeverInert without its fairness: as long as the daemon is inert, every step of
\* the main thread brings its exit nearer, wherever in a check or a full restart
\* the inertia found it, and no step of another thread puts it off.
InertiaEnds ==
    [][Inert /\ Inert' /\ {main, main'} \cap Gone = {} =>
          /\ AllNat(InertBudget)
          /\ IF MainStep THEN Below(InertBudget', InertBudget)
             ELSE InertBudget' = InertBudget]_vars

\* The state of the service, as Service sees it.
ServiceState ==
    CASE main = "exited" -> "gone"
      [] main = "raised" -> "crashed"
      [] main = "repair" -> "repair"
      [] main \notin Gone \cup {"repair"} -> IF tunnel_up THEN "up" ELSE "down"

Svc == INSTANCE Service WITH state <- ServiceState, strikes <- full_restarts

\* Whatever the threads do and whatever a session raises, the daemon decides to
\* exit only without a tunnel or by the repair, and repairs only after
\* REPAIR_THRESHOLD full restarts in a row (watchdog.py:77, 132, 141); with a
\* tunnel up, only an exception of its main thread ends it.
ImplementsService == Svc!Spec
=============================================================================
