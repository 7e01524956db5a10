# Tor-VPN Manager in TLA+

The daemon of Tor-VPN Manager (`src/daemon/`, Python) keeps an OpenVPN tunnel up
through Tor: it starts Tor, runs OpenVPN over Tor's SOCKS port, changes account
or provider when a connection fails, watches the connectivity of the tunnel and
restarts everything when it is lost. It is one process of a handful of threads
that share some fifty fields of one object, nearly all of them without a lock.
This directory holds TLA+ models of it, the TLC runs that check them and the
proofs, checked by TLAPS, of what they promise.

## 1. Inventory

| Component | State | Operations | Runs in |
|---|---|---|---|
| Accounts and failover (`daemon/openvpn.py`) | `_current_provider_idx`, `_current_account_idx`, `_account_order`, `_account_pos`, `_account_cooldown`, `_auth_passes`, `_reconnect_vpn_count` | `_plan_accounts`, `_try_failover`, `_try_next_provider`, `_mettre_en_quarantaine` | loop thread |
| OpenVPN loop (`daemon/openvpn.py`) | `openvpn_process`, `_vpn_loop_active`, `_stop_vpn`, `_tunnel_up`, `_tunnel_up_time`, `_auth_failed`, `_tun_iface`, `auth.tmp` | `_openvpn_loop`, `_stop_openvpn`, `_wait_vpn_loop_exit` | loop thread, main thread |
| Circuit check (`daemon/openvpn.py`) | `_circuit_attempts`, `_circuit_retry`, `_last_circuit_kbs`, `_last_circuit_at` | `_circuit_quality_check` | one thread per tunnel |
| Watchdog (`daemon/watchdog.py`) | `_inert_ticks`, `_conn_fail_count`, `_conn_restart_pending`, `_full_restart_count` | `_monitor_loop`, `_full_restart`, `_emergency_repair` | main thread |
| Tor service (`daemon/tor.py`) | `tor_process`, `_tor_thread`, `_tor_ready`, `_stop_tor_flag`, `_reconnect_tor_count` | `_start_tor`, `_stop_tor`, `_new_tor_circuit`, ControlPort queries | Tor thread, main thread |
| Tor routes (`daemon/network.py`) | `_protected_routes`, `tor-vpn-routes.txt`, the kernel's routes, `_orig_gw` | `_protect_tor_routes`, `_add_protected_routes`, `_cleanup_tor_routes` | loop thread, helper threads, main thread |
| IPv6 block (`daemon/firewall.py`) | `_ipv6_blocked`, two ip6tables chains | `_ipv6_block_on`, `_ipv6_block_off` | loop thread, main thread |
| LAN sharing (`daemon/firewall.py`) | `_lan_active`, `_lan_tun`, `_dnsmasq_proc`, iptables and address of the interface | `_setup_lan_sharing`, `_teardown_lan_sharing`, dnsmasq | loop thread, main thread, dnsmasq thread |
| DNS (`daemon/dns.py`) | `_vpn_dns_ips`, resolved's per-link settings, the drop-in | `_apply_vpn_dns`, `_revert_vpn_dns`, `_ensure_dns_config`, split DNS | loop thread, main thread |
| Start, stop, configuration (`daemon/core.py`) | `config`, `_stop_flag` | `run`, `handle_signal`, `cleanup_stale_rules`, `_load_config` | main thread, signal handler |
| Status socket (`daemon/status.py`) | none of its own | `_status_snapshot` | status thread |
| GUI, CLI, installer, repair (`gui/`, `*.sh`) | `config.json`, systemd units | edit the configuration, start, stop, clean up | other processes |

How they interact: the watchdog (main thread) and the OpenVPN loop thread share
the flags; a full restart stops both services, waits for the loop for 15 s at
most, and starts them again, with a new loop thread; helper threads (circuit
check, route protection) outlive the session that started them; systemd restarts
the process when it exits with an error or stops answering its own watchdog. The
signal handler runs in the main thread, wherever that is, and undoes everything
while the other threads go on.

What is hard in each part, and what makes it correct:

| Component | What is hard | What makes it correct |
|---|---|---|
| Accounts and failover | five fields changed by refusals, failures, replans and restarts; quarantines that end at any time; two counters that know nothing of each other | the plan stays sound; a pass tries every account once, quarantined ones last; the loop does not turn for ever |
| OpenVPN loop, watchdog | a restart that does not wait long enough; an exception in the middle of a session; counters reset by other events | one loop, one process; the flag follows the tunnel; never inert; the repair comes when it should and only then |
| Circuit check | minutes between what is measured and what is done; checks that outlive their tunnel; a bound shared by them | no other process is terminated; no measurement of another tunnel is shown; the re-draws end |
| Tor routes | three adders and a cleanup without a lock; three copies of the truth; kills; a gateway that changes | no route is lost; what is taken for routed is; nothing left at the end |
| Tor service | stop flag lowered in two places, join with a timeout, a process started after the stop, a ready event that is cleared | one Tor; "ready" is said of the Tor that runs; a stop ends in no Tor |
| IPv6 block, LAN sharing | ten commands of which each may fail or raise, one flag set at the end; rules that name an interface that changes, inside a session too; kills | the flag says what is installed; rules name the tunnel in use; nothing piles up or is forgotten |
| DNS | applied by two threads, reverted by two, lost when resolved restarts, which the daemon itself causes | while a tunnel is up its DNS comes back; without one none is left |
| Start and stop | the handler interrupts the main thread and races with the loop's setup and with `auth.tmp` | after a stop nothing is left |
| Status socket, configuration | snapshots of changing state; a file replaced by another process | an answer is one of some moment; no half-written configuration is read |

## 2. Plan

Each component has a module with its own state, one action per step of the code
that another thread can see; what it needs of its neighbours is reduced to the
nondeterminism they cause (Lifecycle's loop "goes on or gives up", Failover's
watchdog "stops"). Modules came in the order of what an error costs:

1. `Failover`, `Lifecycle`, `TorRoutes`, `CircuitCheck`: the tunnel, who keeps it up,
   and the routes without which it cuts itself off.
2. `TorService`, `Firewall`, `Dns`: what a tunnel stands on, and what is set up
   around it.
3. `Service`, the contract that `Lifecycle` implements, and `RouteSet`, that of
   `TorRoutes`.
4. `ConfigFile`, the one piece of state the GUI shares with the daemon.

`Lexicographic`, the order of tuples of numbers, is for the budgets with which the
modules say why something ends (section 3).

All of this is done. The signal handler has no module of its own: its steps touch
state of one component each, so each module has the steps that concern it, the
handler interrupting the main thread anywhere.

What would come next: `Status`, if the status socket ever does more than read.

## 3. Modules and code

In all modules an action is what a thread does between two points at which
another thread, a process or a signal can make a difference; names are those of
the code where it has one. Definitions whose comment begins with "Mutant" are
the same definition with a plausible bug; they are not part of a specification.
`MCX.tla` holds the constants of module `X` for TLC, `XProofs.tla` its proofs.

**Failover** - `_openvpn_loop_body` seen from the accounts. `pc` is the point the
loop has reached: `head` (the test of the while), `session` (OpenVPN runs),
`decide` (after it), `failover`, the two waits, and the ways of ending. A plan
takes two steps, since `_plan_accounts` reads the clock in two comprehensions
(`CallPlan`, `PlanAccounts`). Time is the action `Tick`, which shortens the
quarantines. The circuit check is a flag that may be raised late, the watchdog
something that stops the loop and starts it again with its indices. `tried` and
`fails` are history: the accounts refused since the provider was entered, the
failures in a row of one account. Accounts and providers count from 1, as in the
journal.

**Lifecycle** - the main thread (`run`, `_monitor_loop`, `_full_restart`,
`_emergency_repair`) and the threads it starts on `_openvpn_loop`. A full restart
is six steps (stop flag, OpenVPN, Tor, wait, reset, start); the wait ends when
the loop has left or not. `Raise` is an exception while a line of OpenVPN's output
is handled (output that is not UTF-8, a command that is missing): it goes to the
except clauses of the session, which do not stop the process; `strays` counts
processes no variable holds any more. `MainRaises` is an exception of the main thread
anywhere but in the repair script's call: a command of the monitor that cannot be run
(watchdog.py:18, 28), a lost gateway (network.py:99, called from watchdog.py:156), or
`auth.tmp` removed between test and `unlink` (openvpn.py:49). The process ends with the
tunnel and the loop as they are. `SystemdRestart` is the unit's
`Restart=on-failure`. `unverified` is history: full restarts since an endpoint
last answered. Which account is used is left out.

**TorRoutes** - `network.py`. Each caller of `_protect_tor_routes` has a record
for its call: what it was asked, what is left, the address whose route is in but
not in the set yet, whether anything was added. `RouteIp` and `RecordIp` are two
steps, the copy of the set and the write of the file two more; the cleanup is a
copy, a deletion per address, the clearing of the set and the removal of the
file. `Faults` says what may go wrong: `overlap` (a call during a cleanup, or
interrupted by the signal), `crash`, `file` (it cannot be written, or not be read by
the cleanup), `command` (an `ip route replace` or `ip route del` fails; no result is
read). `failed` is history: the relays whose last `ip route replace` failed. `ReadGateway` is the loop's; the
gateway may be lost when `None` is among `Gateways`, and a call that then routes
dies of a TypeError, with its thread unless the addresses come from `ss`.

**RouteSet** - the same routes as a set that grows while the daemon is up, shrinks only
in a removal, and is empty when the removal ends. `TorRoutes` implements it
(`ImplementsRouteSet`): the relays with a route in the kernel are the set, and `Phase`
reads the phase from the life of the process and the steps of the cleanup. The threads,
their calls, `_protected_routes` and the file are stutters.

**CircuitCheck** - `_circuit_quality_check`, a thread per tunnel, next to the loop,
cuts and full restarts. A check holds the process it captured; `Wake`,
measurement, NEWNYM, flag and termination are steps of their own. What the check
does after its last test of the tunnel up to NEWNYM is one step: nothing in it
waits, and the loop sleeps two seconds and connects through Tor before another
tunnel is there. A measurement is `good`, `slow` or `none`. Waits are not timed, so
a check may sleep through any number of tunnels. The loop resets the measurement in
the same step in which it announces the tunnel; the code raises the flag first
(openvpn.py:559) and resets a few statements later (:573), so a reader in between still
sees the earlier value.

**Service** - the daemon as its user sees it: the tunnel is down or up, the daemon
repairs, is gone or has crashed, with the full restarts in a row. `Lifecycle` implements it
(`ImplementsService`) under the mapping `ServiceState`, which reads the tunnel from
`_tunnel_up`, the repair and the end from the main thread; every thread, process and
counter but one is a stutter.

**TorService** - `tor.py`, `_wait_tor_ready`, and the steps of `_full_restart` that
concern Tor. `main` is the main thread in the steps of a start, of the wait or of a
restart; `thread[t]` is one `_run_tor`: `launch`, `read` (its output), `decide`,
`pause`. `proc[t]` is the Tor that thread started last, `owner` says which of them
`tor_process` is, `strays` counts Tors nobody reads: one of the system at first, one
an exception left. "Bootstrapped 100%" is in the output (`unread`) before the thread
reads it. The full restart lowers the stop flag twice, by itself and in the start, as
in the code. `doomed` and `stale` are history: the Tors that were alive in the last stop,
and whether the event was set on the word of one. The 15 s of a pause are one step
that may miss the flag in its last second.

**Firewall** - `firewall.py`, and `cleanup_stale_rules` with the script of the unit.
`pc` has both threads in the steps of setup and teardown, which they share
(`BlockOff(a)`, `TearDown(a)`). The kernel is a count of jumps per chain, the interface
the chain lets pass (`None`: it does not drop, or is not there), and the MASQUERADE
rules, each a subnet and an interface. A step may end in a kill, or in the signal, at any
place; a command whose result is not read may fail; and one that raises ends its
function, after which the thread goes on (`BlockRaises`, `OffRaises`, `LanRaises`,
`TearRaises`). `faulty` remembers that a command failed or raised, or that the process
began with a rule of an earlier one; `off_raised` that `_ipv6_block_off` raised. `Reopen` is
OpenVPN reconnecting by itself with another device, which the daemon reads
(openvpn.py:524) without setting anything up again (:554); `reopened` is history of the
session. Each deletion of the cleanup at start may fail unread, and the configuration, with
`lan_subnet`, may be another one for the next process (`Start`). The
second IPv6 chain (FORWARD, for virtual machines) goes the way of the first and is
not kept apart. Addresses of the LAN interface and DHCP ranges are left out.

**Dns** - `dns.py`, the DNS lines of the session, and the monitor's turn of 30 s.
`link` is what systemd-resolved knows of the interface: servers, `~.`, default-route;
`drop_in` is the file, `in_force` whether systemd-resolved has read it, `restarts`
whether `reload-or-restart` is a restart, which forgets the link. Both threads may be in
`_apply_vpn_dns` with the servers they copied at its entry. OpenVPN's reconnection by
SIGUSR1 installs the servers and nothing else; other tools restart systemd-resolved or
remove the drop-in. Each of these, and each command that fails, is a disturbance. The
reload that follows the removal of the drop-in is taken not to fail.

**ConfigFile** - `_load_config` of both programs and `_save_config` of the GUI: open,
dump, fsync, replace. `disk` is the set of contents `config.json` may have after a power
failure: the names are not synchronised, so an earlier one may come back. The content
is a version, a part of one (`Partial`) or something else (`Spoilt`). A save that fails
and leaves the GUI running is not told from one that is given up.

**Lexicographic** - tuples of numbers compared place by place (`Below`). Five modules
say why something in them ends with a budget, a tuple of naturals read from the state
that each step of the threads concerned lowers and no other step raises (the monitor of
Dns may also pass on without a repair, where nothing is missing):

| Budget | Places | What ends |
|---|---|---|
| Failover, `LoopSpends` | passes, providers, attempts (accounts, retries, new circuits), steps of an attempt | the loop without a tunnel |
| Lifecycle, `InertiaEnds` | looks before the exit, steps of the main thread to the next look | the inertia |
| CircuitCheck, `RedrawsEnd` | cuts and restarts, checks to come, draws, steps of the loop, steps of the checks | the re-draws |
| TorService, `AttemptsSpend` | a bootstrap not read yet, attempts, steps of the thread | the restarts of Tor |
| Dns, `RepairsEnd` | reloads, commands of a repair | the repairs of an undisturbed tunnel |

They are action properties, so they need no fairness and can be proved for all values
of the constants. With fairness, which makes the steps happen, they give the liveness
properties of the same modules.

## 4. Runs

| Run | Instance | Result |
|---|---|---|
| `failover_plan` | one or two providers with up to three accounts, an unusable provider, circuit check, quarantines that end inside a plan; 500 000 states | TypeOK, PlanSound, QuarantinedLast hold |
| `failover_pass` | the same kinds of configuration, all eight, fair; 139 000 states | EachAccountOnce, PassCoversProvider, LoopSpends, GivesUp hold |
| `lifecycle_safety` | two loop threads, no exception but of the main thread, fair; 70 000 states | TypeOK, OneTunnelWatched, RepairIsJustified, InertiaEnds, NeverInert hold |
| `lifecycle_raise` | two loop threads, any exception, two strays at most; 266 000 states | OneLoop and ImplementsService hold |
| `lifecycle_missing_tool` | FileNotFoundError, fair | NeverInert is violated |
| `routes_safety` | three adders, two relays, one gateway, a file that fails; 47 000 states | TypeOK, NoOrphan, ImplementsRouteSet hold |
| `routes_faults` | three adders, two relays, kills, a file and commands that fail, a gateway that is lost; 446 000 states | ProtectedIsRouted, RelaysRouted hold |
| `circuit_check` | eight tunnels, two re-draws, one cut or full restart, fair; 3 600 states | TypeOK, KbsIsCurrent, KillIsRedraw, RedrawsEnd, Settles hold |
| `tor_service` | two Tor threads, one stray, one retry, fair; 62 000 states | TypeOK, OneTor, ReadyIsFresh, NotDeaf, AttemptsSpend, RetriesEnd hold |
| `firewall` | two interfaces, one subnet, two copies of a jump, commands that fail or raise, devices that change, kills; 3.5 million states | TypeOK, BlockedIsJumped, RulesSound, RulesAreKnown hold |
| `dns` | two servers of which one, or none, is pushed at a time, two disturbances, fair; 380 000 states | TypeOK, DnsComesBack, DnsSettles, RepairsEnd hold |
| `config_file` | three saves; 4 200 states | TypeOK, KeptSafe hold |

Some of these names join statements that belong together: PlanSound says of the order
that it repeats nothing, is of the current provider, agrees with the account in use, and
leaves out free accounts only (`DroppedIsFree`); EachAccountOnce is OrderIsPermutation and
RefusedNotRetried; OneTunnelWatched is OneOpenvpn and TunnelWatched; RulesSound is
LanFollowsTunnel and NothingPilesUp; DnsComesBack is ServersComeBack and SplitComesBack.
ImplementsRouteSet has StoppedClean as a consequence.

Bounds, and why they are enough:

- *Failover*: a quarantine of two ticks gives "just refused", "about to end" and
  "over"; three accounts are the fewest for which an order has a middle; two
  providers the fewest for a rotation that comes back; two passes as in the code;
  one or two retries for five, since only "less" and "reached" matter.
- *Lifecycle*: two threads, the old one and its successor: `OneLoopCorrect` holds for
  any number. `CONN_FAIL_MAX` 2, `REPAIR_THRESHOLD` 3, `INERT_EXIT_TICKS` 3 (for 40)
  keep the order of the thresholds; `StraysBound` stops the run from counting
  strays for ever; `unverified` is capped just above the threshold.
- *TorRoutes*: a relay being added and one that is known; the three threads the
  code has; a second gateway only where the change is the question.
- *CircuitCheck*: `MaxTunnels` is large enough for every sequence of re-draws, with
  checks that measure each other's tunnels, to end by itself; were it not, Settles
  would fail at the bound. One cut or restart makes two checks share a tunnel.

- *TorService*: two threads, the last one and the one before: `OneTorCorrect` holds for
  any number. One retry gives "less" and "reached"; a second stray would be killed by
  the same pkill as the first.
- *Firewall*: two interfaces, since what matters is whether a rule names the present one;
  they are also the two the cleanup knows (section 5 has the third). One subnet in
  `firewall`, since a process has one and `faulty` excludes rules of an earlier process.
  Two copies of a jump are one too many.
- *Dns*: two servers, so that what a reconnection installs is not what the daemon would;
  two disturbances, so that one falls into the repair of the other. The number is a bound
  on the world, not on the daemon: the properties speak of what comes after the last one.
- *ConfigFile*: three versions: one on the disk, one in the file, one being written.

Deadlock: `failover_*` and `circuit_check` switch the check off, since there the loop
really ends and nothing else is left to do. The other runs check it.

Fairness:

- *Failover*: weak fairness of the loop, since each OpenVPN run ends
  (`--connect-timeout`, `--connect-retry-max 1`, `--ping-exit`) and each wait is
  bounded; weak fairness of the watchdog's decision, taken at each iteration of the
  monitor; strong fairness of the end of the pauses, which a stop may interrupt.
- *Lifecycle*: weak fairness of the main thread and of each loop thread, and of the end
  of the OpenVPN process when Tor is gone (`--ping-exit 60`); none of Tor, of the
  network or of connections that succeed.
- *TorService*: weak fairness of the main thread in a start or a restart and of each Tor
  thread, whose waits all have an end; none of Tor, which need not bootstrap or end, nor of
  the restart.
- *Dns*: weak fairness of the loop inside a session and of the monitor; none of sessions
  that begin or end, and none of a full restart.
- *CircuitCheck*: weak fairness of the loop, of each check (curl, ControlPort and
  waits have timeouts), and of a full restart once it has begun; none of good
  measurements.

## 5. Deviations

The run `lifecycle_missing_tool` shows that the code does not do what is said of it:
README.md:490 says "No outage, however long, can leave the daemon permanently inert"; a
missing command ends the loop with `_tunnel_up` raised (openvpn.py:601), which blinds the
net against inertia (watchdog.py:132).

Other statements of the modules do not hold either. They are defined next to the
properties, or hold under the constants of a run only, and each is refuted by TLC with
the constants of a run here, changed as said:

| Statement | Of | Constants | What happens |
|---|---|---|---|
| RotationNeedsFailures | README.md:471 | `failover_pass`, `Configs <- TwoProviders`, `RECONNECT_MAX = 2` | "Same account fails 5 times in a row": the count is shared by the accounts (openvpn.py:692) and not reset by a refusal, so a provider is left after one failure of the account in use |
| GivesUp | openvpn.py:672 | `failover_pass` with `TickInPlan = TRUE` | each plan may drop the account whose quarantine ends inside it; when the one that is left is refused the loop plans again (openvpn.py:138), and no pass comes to its end |
| PassCoversProvider | openvpn.py:112 | `failover_pass` with `TickInPlan = TRUE` | a quarantine that ends between the two comprehensions drops an account from the order: the pass leaves the provider without having tried it |
| RefusedNotRetried | openvpn.py:618, README.md:469 | `failover_pass` with `CircuitCheck = TRUE` | a check that raises the retry flag late makes the loop take a refusal for a re-draw |
| NoneUsableIsTrue | openvpn.py:452 | `failover_pass`, `Configs <- Unusable` | an unusable last provider ends the loop while the first is usable |
| OneOpenvpn | openvpn.py:406 | `lifecycle_raise` | after an exception in the session the process is not stopped, and the loop starts another one (openvpn.py:604, 515) |
| RepairIsReached | README.md:498 | `lifecycle_safety` | a check in the grace period counts as connectivity and resets the restarts (watchdog.py:30, 177) |
| StoppedClean | README.md:406 | `routes_safety` with `Faults <- Overlapping` | a route put in while the handler cleans up stays after the stop |
| RelaysRouted | README.md:406 | `routes_faults` with `Gateways <- TwoGateways` | relays in the set keep the route through the old gateway (network.py:97) |
| ImplementsRouteSet | network.py:150 | `routes_safety` with `Gateways <- LostGateway` | the gateway is lost during a call of the monitor, whose TypeError (network.py:99) ends the process with its routes left |
| BootCleans | core.py:214 | `routes_safety` with `Faults <- Crashing` | a kill before the write of the file leaves a route no start removes |
| SetIsSaved | network.py:88 | `routes_safety` with `Faults <- NoFault` | the older of two copies is written last |
| GatewayKnown | openvpn.py:474 | `routes_faults` | the gateway is lost between the test and its use |
| ExemptIsTunnel | firewall.py:22 | `firewall` | the chain kept for the next tunnel exempts the interface of the earlier one |
| EveryRelayRouted | network.py:87 | `routes_safety` with `Faults <- CommandFails` | "Route [...] chaque IP IPv4 valide et nouvelle": the result of `ip route replace` is not read (:99), the address is recorded (:100), and no later call tries it again (:97). ProtectedIsRouted and RelaysRouted are stated for the addresses whose command did not fail |
| LanFollowsDevice | firewall.py:69-74, README.md:677 | `firewall` with `Faults <- NoFault` | the rules are to be rebuilt after "une simple reconnexion OpenVPN" too; when OpenVPN reconnects by itself, without `persist-tun` (template.ovpn has it) or with other options pushed, the loop notes the new name and does not call the setup (openvpn.py:554). LanFollowsTunnel is stated for the sessions that keep their device; the next one mends the rules |
| StartsClean | core.py:214 | `firewall` with `Faults <- NoFault`, `Subnets = {s1, s2}` | the NAT rule is deleted for the `lan_subnet` of the new configuration (core.py:237): that of a killed process stays when the subnet was changed |
| StartsClean | core.py:214 | `firewall` with `Faults <- NoFault`, `Tuns <- ThreeTuns` | the NAT rule of a third interface stays after a kill (core.py:242) |
| StartsClean | core.py:214 | `firewall` | a deletion that fails is not read (core.py:221, 235, 243) |
| NoOrphan, StoppedClean, ImplementsRouteSet | README.md:406 | `routes_safety` with `Faults <- CommandFails` | an `ip route del` that fails is not read (network.py:163), and the set is cleared all the same |

Met while modelling, and outside what the properties say:

- After the LAN rules were torn down for a new interface, a setup that is refused
  (firewall.py:92, 105) leaves the LAN without its DROP rule, against README.md:675.
- A dnsmasq that is not stored yet is not terminated (firewall.py:209); the one of the next
  tunnel then fails on the same address. The next start of the daemon ends it.
- The failure of the chain of FORWARD and of the DROP rules is not read
  (firewall.py:32, 44, 121).
- An exception of `_ipv6_block_off` between the jump and the flag is swallowed
  (firewall.py:62): `_ipv6_blocked` stays up without a jump, and no later tunnel is
  blocked (:22). BlockedIsJumped is stated until then.
- An exception of the LAN setup (firewall.py:129) leaves its rules with `_lan_active` down,
  where no teardown finds them, and the next setup puts the jump in again; one of the
  teardown (:159) leaves the flags up. RulesSound and RulesAreKnown speak of processes in
  which no command failed or raised.
- An exception of the main thread ends the process with the tunnel up and without the
  handler's cleanup; the group is killed and the script of the unit runs. Service allows
  it (`Crash`).
- An exception while a line of Tor is handled leaves that Tor (tor.py:97); `OneTor`
  speaks of processes only before one.
- A drop-in whose reload failed is not read again, since only the file is looked for
  (dns.py:125); `SplitComesBack` excludes it.
- After a reconnection inside OpenVPN the servers of both PUSH_REPLYs are in
  `_vpn_dns_ips` (openvpn.py:540) and any of them satisfies the check (dns.py:104).
- The loop may write the drop-in after the handler removed it; the script of the unit
  removes it (install.sh:204).
- A configuration saved between the failed read and the move of the bad one is moved
  too (core.py:177): it is in `config.json.bad`, and the daemon runs on the defaults.
- Two GUIs write the same `config.json.tmp` (app.py:94).

## 6. Proofs

TLAPS checks every theorem for all values of the constants that satisfy the
modules' assumptions, and the assumptions a theorem states. An invariant is first
checked by TLC, then strengthened until every action keeps it; each proof has one
step per action.

| Module | Theorems | Assuming | Argument |
|---|---|---|---|
| `FailoverProofs` | TypeCorrect, PlanCorrect, QuarantinedLastCorrect | nothing more | `TypeInv` adds to the types that the count of failures is bounded and that the half-made plan's free accounts are of the current provider. `PlannedOrder` says what order two disjoint sets of accounts give, even when the clock moved in between. PlanSound is then inductive, with DroppedIsFree as a part of it: an account dropped from the order is free, and only accounts of the order are ever put in quarantine. |
| | PermutationCorrect, PassCovers | `~TickInPlan` | `PassInv` ties the accounts refused so far to the position in the order: those before it, and the one in use when it is being refused. With a full order, the last position means all. The assumption is needed: without it the statement is false (section 5). |
| | EachAccountOnceCorrect | `~TickInPlan`, `~CircuitCheck` | PermutationCorrect for the order; for the refusals `RetryInv`: neither the account of the coming attempt nor any after it in the order was refused in this pass, so the next position is fresh; a new plan begins a new pass. A check that raises the retry flag late refutes it (section 5). |
| | LoopSpendsCorrect | `~TickInPlan` | every action of the loop that leaves a point of it lowers the first place of the budget that it changes: a pass, a provider, an attempt, or a step of the attempt. `PassInv` is needed for the accounts left, which a new plan would otherwise give back (section 5). That a budget ends is the lemma BudgetRunsOut: the lexicographic product of `<` on the naturals is well-founded (WellFoundedInduction). |
| `LifecycleProofs` | LifecycleTypeCorrect, RepairJustified | nothing more | `TypeInv` adds that each counter is below its limit where the code tests it, and that the restarts counted had no answer. |
| | OneLoopCorrect | nothing more | the flag is up exactly when a thread is past `Acquire`; any number of threads, any exception. |
| | OneTunnelWatchedCorrect | `Exceptions = {}` | `SessionInv`: a living process has a thread that reads it, and the flag is up exactly in a live session; a restart that resets the flag has stopped Tor, so no session begins meanwhile. |
| | InertiaEndsCorrect | `Exceptions = {}` | while there is neither loop nor process, `SessionInv` keeps the flag of the tunnel down, so the net against inertia sees the daemon inert at every look; each step of the main thread counts or comes nearer to the next look, and no thread of the loop touches either. With an exception the flag stays up and TLC refutes NeverInert. |
| | ServiceImplemented | nothing more | Init maps to Init and each action to an action of Service or a stutter, the exceptions of the main thread to its crash; `BootInv` (no tunnel flag in a process that has no session yet) and the bound on the restarts from `TypeInv` are what the steps need. |
| `TorRoutesProofs` | RoutesTypeCorrect | nothing more | types. |
| | NoOrphanCorrect, StoppedCleanCorrect | no overlap, no kill, no command that fails, a gateway once found is not lost | `KnownInv`: the set and the calls know every route without the file, which may fail; a cleanup meets no call, so its copy has all of them, and it empties the kernel before the set. |
| | RouteSetImplemented | the same | each action maps to one of RouteSet or to a stutter: `CallAdds` for the calls, `CleanupRemoves` for the cleanup. `KnownInv` is what the end of a removal needs, and that nothing is added during one. Overlaps, kills, commands that fail and lost gateways each refute it. |
| | ProtectedIsRoutedCorrect | no overlap | `RoutedInv`: a process begins with an empty set, a call routes before it records, and a cleanup is over before the daemon goes on; kills and failed writes touch neither, and an address whose command failed is in `failed`. |
| | RelaysRoutedCorrect | no overlap, one gateway, which may be lost | `AskedInv`: an address leaves the list of a call only when it is in the set, which is routed (`RoutedInv`) through the only gateway there may be; `LoopGateway`: the loop has found one before it calls, and looks for it only between calls. Kills, the file and commands that fail do no other harm. A second gateway refutes it (section 5). |
| `CircuitCheckProofs` | CircuitTypeCorrect, KbsIsCurrentCorrect, KillIsRedrawCorrect | nothing more | the bound is tested in the step that counts; a measurement is published only in a step that compares the process; `AnnouncedInv`: the loop reads any process that runs, so it cannot be deciding; a check about to end the process it measured has raised the retry flag, and only the decision after that process has ended lowers it. Any number of tunnels and checks. |
| | RedrawsEndCorrect | nothing more | every step of every thread lowers the budget: one lemma per place (`CutPays`, `CheckStepSpends`, `LoopSpends`), with the checks counted by where they are (`InMoves`, on cardinalities). Checks of tunnels past lower it too, and none gives a draw back. |
| `TorServiceProofs` | TorTypeCorrect, OneTorCorrect | nothing more | `LastThreadOnly`: a thread that is there is the one `_tor_thread` names, since a new one waits for it; `TorIsRead`: without an exception whoever has a Tor reads it, so one thread means one Tor; `RetriesLeft` bounds the attempts. Any number of threads. |
| | ReadyIsFreshCorrect | nothing more | `DoomedIsRead`: from the lowering of the flag to the next stop nobody reads a Tor that was stopped; `StaleIsForgotten`: an event such a Tor raised lasts until `ForgetReady` at most. |
| | AttemptsSpendCorrect | nothing more | by `LastThreadOnly` the thread that moves is the only one there, and by `RetriesLeft` its budget is one of naturals; the reset of the counter is paid by the bootstrap that was read, and every other step of the daemon that touches the counter is one of the main thread. |
| `FirewallProofs` | FirewallTypeCorrect, BlockedIsJumpedCorrect | nothing more | `JumpFirst`: the flag is down while a jump is being inserted, and the jump is there when the flag is raised; a full restart undoes the block only after the loop has stopped working on it. Any commands that fail or raise; the only exception that refutes it is the one of `_ipv6_block_off`, named in the property. |
| | RulesSoundCorrect (LanFollowsTunnelCorrect, NothingPilesUpCorrect), RulesAreKnownCorrect | nothing more: a process that began with rules of an earlier one is excepted in the properties | `RulesOfStep` says what is in the kernel at each step of the setup and of its undoing, as long as no command failed or raised and no signal came; `PileOfStep` goes on after the signal, when both threads undo: the loop does not come back to the rules. `OneJump6` does the same for the block. Any interfaces and subnets; that a process begins without rules is not proved, since it is false (section 5). |
| `DnsProofs` | DnsTypeCorrect | nothing more | types. |
| | RepairsEndCorrect | nothing more | `SessionDns`: until the handler has reverted the DNS, the daemon knows in a session what the server pushed in it and nothing of another; so a repair installs what the check looks for, and its outcome can be told at each of its commands (`Outcome`). Any set of servers, any commands that fail. |
| `ConfigFileProofs` | ConfigTypeCorrect, SavedIsKept | nothing more | `SaveInOrder`: a replacement puts in what was written and synchronised; `NeverTruncated`: so neither the file nor what a power failure brings back is a partial save; `KeptInPlace`: the last version is put aside only when nothing takes its place. Any number of saves. |

Model-checked only: GivesUp, NeverInert, Settles, NotDeaf, RetriesEnd, DnsComesBack and
DnsSettles, which need fairness, and everything section 5 refutes. All of these but NotDeaf
rest on a budget, and that the budget is spent is proved, under `~TickInPlan` for GivesUp
and `Exceptions = {}` for NeverInert; what TLC adds is that fairness makes the steps happen.
Every safety property the runs check is proved, and so are both refinements.

## 7. What is not modelled

- The status socket: it reads, answers and changes nothing; an exception ends one answer.
- The GUI but for its file, the CLI, the installer, the interactive part of the repair
  script: sequential, without state the daemon shares but the configuration, the unit
  and the kernel's tables.
- `auth.tmp`: `exists()` then `unlink()` of two threads may end the handler or the monitor
  with an exception (openvpn.py:49, 607). Lifecycle lets the main thread end there
  (`MainRaises`), Firewall and Dns a process anywhere; whose file it was does not matter,
  since the loop writes it for each connection.
- Parsing and formatting (ControlPort, `ss`, `ip route`, `resolvectl`, OpenVPN's output),
  OpenVPN's arguments, the journal: they change no state the properties tell apart. What
  they yield is any member of a small set.
- Durations: a wait that is over is one that may be over. Where an argument needs a
  duration it is said: CircuitCheck (section 3), and TorService, where the restart's six
  seconds after the end of the loop are enough for a Tor thread to read the rest of the
  output of a Tor that was stopped (`Drained`), and where a wait of 90 s does not end
  without an answer while there is a Tor that has bootstrapped, since the ControlPort is
  asked every two seconds (`WaitTimesOut`).
