------------------------------ MODULE Failover ------------------------------
(***************************************************************************)
(* The OpenVPN loop of the daemon (daemon/openvpn.py, _openvpn_loop_body)  *)
(* seen from the accounts: which provider and which account the next       *)
(* attempt uses, who is put in quarantine, when the loop gives up.         *)
(*                                                                         *)
(* Indices count from 1, as the log does; the code counts from 0.  A       *)
(* quarantine is the number of clock ticks it has left; 0 is "available".  *)
(* _plan_accounts reads the clock in two list comprehensions, so a plan    *)
(* takes two steps: the call (CallPlan, the first comprehension) and       *)
(* PlanAccounts (the second one and the new order).                        *)
(***************************************************************************)
EXTENDS Integers, FiniteSets, SequencesExt, Lexicographic

CONSTANTS
    Configs,            \* the configurations a process may load at start
    AUTH_COOLDOWN,      \* quarantine of a refused account, in ticks
    AUTH_PASS_MAX,      \* full passes of refusals before giving up
    RECONNECT_MAX,      \* retries of one account after network failures
    CircuitCheck,       \* config["circuit_check"]
    TickInPlan          \* may a quarantine end inside _plan_accounts?

\* A configuration: the number of accounts of each provider, the providers
\* whose .ovpn file exists, and the two switches the loop reads.
ConfigType ==
    [accounts: Seq(Nat), ovpn: SUBSET Nat,
     random_account: BOOLEAN, auto_reconnect: BOOLEAN]

\* run() exits at once without a provider (core.py:301), hence the last part.
ASSUME ConfigsAssumption ==
    /\ Configs \subseteq ConfigType
    /\ \A c \in Configs : c.accounts # <<>>

ASSUME BoundsAssumption ==
    /\ AUTH_COOLDOWN \in Nat \ {0}
    /\ AUTH_PASS_MAX \in Nat \ {0}
    /\ RECONNECT_MAX \in Nat
    /\ CircuitCheck \in BOOLEAN
    /\ TickInPlan \in BOOLEAN

VARIABLES
    config,
    provider_idx,       \* _current_provider_idx
    account_idx,        \* _current_account_idx
    account_order,      \* _account_order
    account_pos,        \* _account_pos
    libres,             \* the first comprehension of the running plan
    after,              \* where the running plan returns to
    account_cooldown,   \* _account_cooldown, as remaining ticks
    auth_passes,        \* _auth_passes
    reconnect_count,    \* _reconnect_vpn_count
    auth_failed,        \* _auth_failed
    tunnel_up,          \* tunnel_up of the current session
    circuit_retry,      \* _circuit_retry
    checking,           \* a circuit check thread is running
    watchdog,           \* "ok", "suspects" a dead tunnel, "stops" (_stop_vpn)
    pc,                 \* where the loop thread is
    tried,              \* history: accounts refused since the provider was entered
    fails               \* history: consecutive failed sessions, and of whom

planVars == <<provider_idx, account_idx, account_order, account_pos, libres, after>>
countVars == <<auth_passes, reconnect_count>>
sessionVars == <<auth_failed, tunnel_up>>
checkVars == <<circuit_retry, checking>>
otherVars == <<config, watchdog>>
historyVars == <<tried, fails>>
vars == <<planVars, account_cooldown, countVars, sessionVars, checkVars, otherVars,
          pc, historyVars>>

\* The ways the loop ends by itself: no usable provider, SOCKS proxy down, no
\* openvpn binary, auto_reconnect off, refused in every pass, network failures.
Ended == {"no_usable", "no_proxy", "no_openvpn", "no_reconnect",
          "refused", "unreachable"}
\* The program points a plan returns to, and those of the loop proper.
Returns == {"enter", "head", "advance", "exhausted"}
Running == Returns \cup {"punis", "session", "decide", "failover",
                         "wait_pass", "wait"}

-----------------------------------------------------------------------------
(* Accounts of a configuration                                             *)

Accounts(c, p) == 1 .. c.accounts[p]
Slots(c) == UNION {{p} \X Accounts(c, p) : p \in DOMAIN c.accounts}
LastProvider == Len(config.accounts)
Current == <<provider_idx, account_idx>>

\* _get_active_creds returns a tuple and not None.
Usable(p, a) == p \in config.ovpn /\ a \in Accounts(config, p)
StopVpn == watchdog = "stops"

-----------------------------------------------------------------------------
(* _plan_accounts                                                          *)

\* The accounts of provider p that are in quarantine.
Punis(c, p, cooldown) == {a \in Accounts(c, p) : cooldown[<<p, a>>] > 0}

\* The orders an index set can be given: shuffled, or as in the list.
Orders(S, shuffled) ==
    {s \in SetToSeqs(S) : shuffled \/ \A i, j \in DOMAIN s : i < j => s[i] < s[j]}

\* Mutant: quarantined accounts come first.
OrdersOfPunisFirst(free, held, shuffled) ==
    {h \o f : f \in Orders(free, shuffled), h \in Orders(held, shuffled)}
\* libres + punis
OrdersOf(free, held, shuffled) ==
    {f \o h : f \in Orders(free, shuffled), h \in Orders(held, shuffled)}

\* A call of _plan_accounts with provider p current: the first comprehension.
CallPlan(p, return) ==
    /\ provider_idx' = p
    /\ libres' = Accounts(config, p) \ Punis(config, p, account_cooldown)
    /\ pc' = "punis"
    /\ after' = return
    /\ UNCHANGED <<account_idx, account_order, account_pos, account_cooldown,
                   sessionVars, checkVars, otherVars>>

\* The second comprehension, the order and the first account.
PlanAccounts ==
    /\ pc = "punis"
    /\ \E o \in OrdersOf(libres, Punis(config, provider_idx, account_cooldown),
                         config.random_account) :
           /\ account_order' = o
           /\ account_idx' = IF o = <<>> THEN 1 ELSE o[1]
    /\ account_pos' = 1
    /\ pc' = after
    /\ libres' = {} /\ after' = "head"
    /\ UNCHANGED <<provider_idx, account_cooldown, countVars, sessionVars, checkVars,
                   otherVars, historyVars>>

\* A plan on entering a provider, which starts a pass over its accounts.
EnterProvider(p, return) == CallPlan(p, return) /\ tried' = {} /\ UNCHANGED fails

\* A step that only moves the loop thread.
Move(to) ==
    /\ pc' = to
    /\ UNCHANGED <<planVars, account_cooldown, countVars, sessionVars, checkVars,
                   otherVars, historyVars>>

-----------------------------------------------------------------------------
(* Entering the loop, and the head of the while loop                       *)

EnterLoop == pc = "idle" /\ ~StopVpn /\ EnterProvider(1, "enter") /\ UNCHANGED countVars

\* _stop_vpn is cleared here too; it is never set at this point.
BeginLoop ==
    /\ pc = "enter"
    /\ pc' = "head"
    /\ reconnect_count' = 0
    /\ circuit_retry' = FALSE
    /\ UNCHANGED <<planVars, account_cooldown, auth_passes, sessionVars, checking,
                   otherVars, historyVars>>

\* The points where the loop looks at _stop_vpn and leaves.
ObserveStop == pc \in {"head", "wait", "wait_pass"} /\ StopVpn /\ Move("idle")

\* The waits last 15 and 60 seconds, a connectivity check 10 at most: a check
\* that began before a wait is over, one way or the other, when the wait is.
WaitIsOver == watchdog = "ok"

AtHead == pc = "head" /\ ~StopVpn

\* No credentials, and _try_next_provider moves on.
SkipProvider ==
    /\ AtHead
    /\ ~Usable(provider_idx, account_idx)
    /\ provider_idx < LastProvider
    /\ EnterProvider(provider_idx + 1, "head")
    /\ UNCHANGED countVars

NothingUsable ==
    /\ AtHead
    /\ ~Usable(provider_idx, account_idx)
    /\ provider_idx = LastProvider
    /\ Move("no_usable")

\* A wait of 60 seconds, in vain.
ProxyDown ==
    /\ AtHead /\ WaitIsOver
    /\ Usable(provider_idx, account_idx)
    /\ Move("no_proxy")

\* Popen succeeds or not.
Connect ==
    /\ AtHead
    /\ Usable(provider_idx, account_idx)
    /\ pc' \in {"session", "no_openvpn"}
    /\ auth_failed' = FALSE
    /\ tunnel_up' = FALSE
    /\ UNCHANGED <<planVars, account_cooldown, countVars, checkVars, otherVars,
                   historyVars>>

-----------------------------------------------------------------------------
(* The session: lines of OpenVPN's output, then the end of the process     *)

\* "Initialization Sequence Completed", the first time.
Established ==
    /\ pc = "session" /\ ~tunnel_up
    /\ tunnel_up' = TRUE
    /\ reconnect_count' = 0
    /\ auth_passes' = 0
    /\ account_cooldown' = [account_cooldown EXCEPT ![Current] = 0]
    /\ checking' = CircuitCheck
    /\ tried' = IF auth_failed THEN tried ELSE tried \ {account_idx}
    /\ fails' = [who |-> Current, n |-> 0]
    /\ UNCHANGED <<planVars, auth_failed, circuit_retry, otherVars, pc>>

\* An AUTH_FAILED line.
Refused ==
    /\ pc = "session" /\ ~auth_failed
    /\ auth_failed' = TRUE
    /\ tried' = tried \cup {account_idx}
    /\ UNCHANGED <<planVars, account_cooldown, countVars, tunnel_up, checkVars,
                   otherVars, pc, fails>>

\* End of the output, or an exception while a line of it is handled: tunnel_up
\* is kept, and a FileNotFoundError (any missing tool) ends the loop.
SessionEnds ==
    /\ pc = "session"
    /\ \/ /\ pc' = IF StopVpn THEN "idle"
                   ELSE IF config.auto_reconnect THEN "decide" ELSE "no_reconnect"
          /\ tunnel_up' \in {tunnel_up, FALSE}
       \/ /\ pc' = "no_openvpn"
          /\ UNCHANGED tunnel_up
    /\ UNCHANGED <<planVars, account_cooldown, countVars, auth_failed, checkVars,
                   otherVars, historyVars>>

-----------------------------------------------------------------------------
(* What to do next                                                         *)

\* The session was ended to draw a new circuit: same account.
TakeCircuitRetry ==
    /\ pc = "decide" /\ circuit_retry
    /\ circuit_retry' = FALSE
    /\ pc' = "head"
    /\ UNCHANGED <<planVars, account_cooldown, countVars, sessionVars, checking,
                   otherVars, historyVars>>

\* The history of failed sessions after one more of the current account.
FailedAgain ==
    [who |-> Current,
     n |-> IF fails.who # Current THEN 1
           ELSE IF fails.n < RECONNECT_MAX THEN fails.n + 1 ELSE fails.n]

\* Mutant: a new refusal lengthens the quarantine that is left.
MettreEnQuarantaineAdded == [account_cooldown EXCEPT ![Current] = @ + AUTH_COOLDOWN]
\* _mettre_en_quarantaine(_current_account_idx)
MettreEnQuarantaine == [account_cooldown EXCEPT ![Current] = AUTH_COOLDOWN]

QuarantineRefused ==
    /\ pc = "decide" /\ ~circuit_retry /\ auth_failed
    /\ auth_failed' = FALSE
    /\ account_cooldown' = MettreEnQuarantaine
    /\ pc' = "failover"
    /\ fails' = FailedAgain
    /\ UNCHANGED <<planVars, countVars, tunnel_up, checkVars, otherVars, tried>>

\* _try_failover, when the plan does not cover the list: plan again first.
ReplanStale ==
    /\ pc = "failover"
    /\ Len(account_order) # config.accounts[provider_idx]
    /\ CallPlan(provider_idx, "advance")
    /\ UNCHANGED <<countVars, historyVars>>

AtFailover ==
    \/ pc = "failover" /\ Len(account_order) = config.accounts[provider_idx]
    \/ pc = "advance"

\* Mutant: the position moves, the account does not follow.
NextAccountStuck(o, i) == account_idx
\* The account at a position of the order.
NextAccount(o, i) == o[i]

\* Mutant: the order is left one account early.
MoreAccountsEarly == account_pos + 1 < Len(account_order)
\* _account_pos + 1 < len(_account_order), with positions from 0.
MoreAccounts == account_pos < Len(account_order)

\* _try_failover: the next account of the order.
FailoverAccount ==
    /\ AtFailover
    /\ MoreAccounts
    /\ account_pos' = account_pos + 1
    /\ account_idx' = NextAccount(account_order, account_pos + 1)
    /\ pc' = "head"
    /\ UNCHANGED <<provider_idx, account_order, libres, after, account_cooldown,
                   countVars, sessionVars, checkVars, otherVars, historyVars>>

\* _try_failover: the order is over, the next provider or the first one again.
FailoverProvider ==
    /\ AtFailover
    /\ ~MoreAccounts
    /\ IF provider_idx < LastProvider
       THEN EnterProvider(provider_idx + 1, "head")
       ELSE EnterProvider(1, "exhausted")
    /\ UNCHANGED countVars

\* Mutant: the count of passes starts over at each pass.
PassesReset == 1
Passes == auth_passes + 1

\* _try_failover returned False: one more pass, or give up.
PassOver ==
    /\ pc = "exhausted"
    /\ auth_passes' = Passes
    /\ pc' = IF Passes < AUTH_PASS_MAX THEN "wait_pass" ELSE "refused"
    /\ UNCHANGED <<planVars, account_cooldown, reconnect_count, sessionVars,
                   checkVars, otherVars, historyVars>>

NewPass ==
    pc = "wait_pass" /\ WaitIsOver /\ EnterProvider(1, "head") /\ UNCHANGED countVars

\* Mutant: the failures of an account are not counted.
NetworkFailuresUncounted == reconnect_count
NetworkFailures == reconnect_count + 1

AtNetworkFailure == pc = "decide" /\ ~circuit_retry /\ ~auth_failed

\* Anything but a refusal: the same account again, up to RECONNECT_MAX times.
RetryLater ==
    /\ AtNetworkFailure
    /\ reconnect_count' = NetworkFailures
    /\ \/ NetworkFailures <= RECONNECT_MAX /\ pc' = "wait"
       \/ /\ NetworkFailures > RECONNECT_MAX
          /\ provider_idx = LastProvider
          /\ pc' = "unreachable"
    /\ fails' = FailedAgain
    /\ UNCHANGED <<planVars, account_cooldown, auth_passes, sessionVars, checkVars,
                   otherVars, tried>>

\* More than that, and there is a next provider.
RotateProvider ==
    /\ AtNetworkFailure
    /\ NetworkFailures > RECONNECT_MAX
    /\ provider_idx < LastProvider
    /\ CallPlan(provider_idx + 1, "head")
    /\ reconnect_count' = 0
    /\ tried' = {}
    /\ fails' = FailedAgain
    /\ UNCHANGED auth_passes

RetryAccount == pc = "wait" /\ WaitIsOver /\ Move("head")

-----------------------------------------------------------------------------
(* The other threads and the clock, as the loop sees them                  *)

\* A circuit check thread judged its tunnel intact, at this moment or earlier,
\* and asks for a new circuit; or it ends without asking.
CircuitCheckEnds ==
    /\ checking
    /\ checking' = FALSE
    /\ circuit_retry' \in {circuit_retry, TRUE}
    /\ UNCHANGED <<planVars, account_cooldown, countVars, sessionVars, otherVars, pc,
                   historyVars>>

\* _monitor_loop checks the connectivity of a tunnel it saw up ...
WatchdogChecks ==
    /\ watchdog = "ok" /\ tunnel_up /\ config.auto_reconnect
    /\ watchdog' = "suspects"
    /\ UNCHANGED <<planVars, account_cooldown, countVars, sessionVars, checkVars,
                   config, pc, historyVars>>

\* ... and finds it good, or calls _full_restart, which sets _stop_vpn.
WatchdogDecides ==
    /\ watchdog = "suspects"
    /\ watchdog' \in {"ok", "stops"}
    /\ UNCHANGED <<planVars, account_cooldown, countVars, sessionVars, checkVars,
                   config, pc, historyVars>>

\* Once the loop has exited, _full_restart resets the counters and starts over.
FullRestart ==
    /\ StopVpn
    /\ pc \in {"idle"} \cup Ended
    /\ watchdog' = "ok"
    /\ pc' = "idle"
    /\ reconnect_count' = 0
    /\ tunnel_up' = FALSE
    /\ UNCHANGED <<planVars, account_cooldown, auth_passes, auth_failed, checkVars,
                   config, historyVars>>

\* One tick of time.time(), for every quarantine at once.
Tick ==
    /\ pc # "punis" \/ TickInPlan
    /\ \E s \in DOMAIN account_cooldown : account_cooldown[s] > 0
    /\ account_cooldown' =
           [s \in DOMAIN account_cooldown |->
                IF account_cooldown[s] > 0 THEN account_cooldown[s] - 1 ELSE 0]
    /\ UNCHANGED <<planVars, countVars, sessionVars, checkVars, otherVars, pc,
                   historyVars>>

-----------------------------------------------------------------------------
\* A new process: nothing of this state outlives one, so a restart by systemd
\* is a new behaviour.
Init ==
    /\ config \in Configs
    /\ provider_idx = 1 /\ account_idx = 1 /\ account_order = <<>> /\ account_pos = 1
    /\ libres = {} /\ after = "head"
    /\ account_cooldown = [s \in Slots(config) |-> 0]
    /\ auth_passes = 0 /\ reconnect_count = 0
    /\ auth_failed = FALSE /\ tunnel_up = FALSE
    /\ circuit_retry = FALSE /\ checking = FALSE
    /\ watchdog = "ok" /\ pc = "idle"
    /\ tried = {} /\ fails = [who |-> <<1, 1>>, n |-> 0]

LoopStep ==
    \/ EnterLoop \/ PlanAccounts \/ BeginLoop \/ ObserveStop \/ SkipProvider
    \/ NothingUsable \/ ProxyDown \/ Connect \/ SessionEnds \/ TakeCircuitRetry
    \/ QuarantineRefused \/ ReplanStale \/ FailoverAccount \/ FailoverProvider
    \/ PassOver \/ NewPass \/ RetryLater \/ RotateProvider \/ RetryAccount

Next ==
    \/ LoopStep
    \/ Established \/ Refused \/ CircuitCheckEnds
    \/ WatchdogChecks \/ WatchdogDecides \/ FullRestart \/ Tick

Spec == Init /\ [][Next]_vars

\* The loop thread is scheduled, and an OpenVPN process ends some day: it runs
\* with --connect-timeout, --connect-retry-max 1 and --ping-exit.  A check of the
\* watchdog and a wait of the loop end by their timeouts.
FairSpec ==
    /\ Spec
    /\ WF_vars(LoopStep)
    /\ WF_vars(WatchdogDecides)
    /\ SF_vars(RetryAccount \/ NewPass)

-----------------------------------------------------------------------------
(* Properties                                                              *)

TypeOK ==
    /\ config \in Configs
    /\ provider_idx \in 1 .. LastProvider
    /\ account_idx \in Nat \ {0}
    /\ account_order \in Seq(Nat \ {0})
    /\ account_pos \in Nat \ {0}
    /\ account_cooldown \in [Slots(config) -> 0 .. AUTH_COOLDOWN]
    /\ auth_passes \in Nat
    /\ reconnect_count \in 0 .. RECONNECT_MAX + 1
    /\ auth_failed \in BOOLEAN /\ tunnel_up \in BOOLEAN
    /\ circuit_retry \in BOOLEAN /\ checking \in BOOLEAN
    /\ watchdog \in {"ok", "suspects", "stops"}
    /\ pc \in {"idle"} \cup Running \cup Ended
    /\ libres \in SUBSET Accounts(config, provider_idx)
    /\ after \in Returns
    /\ tried \in SUBSET Nat
    /\ fails \in [who: Nat \X Nat, n: Nat]

\* The order never names an account twice: a pass cannot come back to one.
OrderNoRepeat ==
    \A i, j \in DOMAIN account_order : account_order[i] = account_order[j] => i = j

\* Outside a plan in progress, the order lists accounts of the current provider.
OrderOfProvider ==
    pc # "punis" =>
        \A i \in DOMAIN account_order :
            account_order[i] \in Accounts(config, provider_idx)

\* The account in use is the one at the position of the order, through every
\* failover, rotation and restart.
AccountFollowsOrder ==
    account_order # <<>> =>
        /\ account_pos \in DOMAIN account_order
        /\ account_idx = account_order[account_pos]

\* An account that a plan left out (its quarantine ended between the two
\* comprehensions) stays available until the provider is planned again: only
\* accounts of the order are ever put in quarantine.
DroppedIsFree ==
    pc # "punis" /\ account_order # <<>> =>
        \A a \in Accounts(config, provider_idx) \ ToSet(account_order) :
            account_cooldown[<<provider_idx, a>>] = 0

\* The plan the loop works from: no repetition, the right provider, the account in
\* use at its position, and no quarantine that the order does not know of.
PlanSound == OrderNoRepeat /\ OrderOfProvider /\ AccountFollowsOrder /\ DroppedIsFree

\* A plan never puts an account still in quarantine before an available one.
QuarantinedLast ==
    [][PlanAccounts =>
         \A i, j \in DOMAIN account_order' :
            /\ i < j
            /\ account_cooldown[<<provider_idx, account_order'[i]>>] > 0
            => account_cooldown[<<provider_idx, account_order'[j]>>] > 0]_vars

\* "L'ordre reste une permutation complete, donc << tous les comptes essayes >>
\* garde son sens" (openvpn.py:112): the order covers the provider's list.
OrderIsPermutation ==
    pc \in Running \ {"punis"} =>
        Len(account_order) = config.accounts[provider_idx]

\* Refusals leave a provider only when each of its accounts was refused since
\* it was entered: no account is passed over in a pass.
PassCoversProvider ==
    [][AtFailover /\ pc' = "punis" => tried = Accounts(config, provider_idx)]_vars

\* The account of a new attempt was not refused earlier in the same pass: after
\* a refusal the daemon goes on to other accounts before it comes back.
RefusedNotRetried ==
    pc = "session" /\ ~auth_failed => account_idx \notin tried

\* A pass goes through each account of the provider, and through none twice.
EachAccountOnce == OrderIsPermutation /\ RefusedNotRetried

\* Network failures make the daemon change provider only after the account in
\* use failed RECONNECT_MAX times in a row (README.md:471).
RotationNeedsFailures ==
    [][RotateProvider => fails'.n >= RECONNECT_MAX]_vars

\* When the loop ends with "Aucun fournisseur/compte utilisable."
\* (openvpn.py:452), there is none.
NoneUsableIsTrue ==
    pc = "no_usable" =>
        \A p \in 1 .. LastProvider : \A a \in Accounts(config, p) : ~Usable(p, a)

\* Without a tunnel the loop never runs for ever: whatever mix of refusals and
\* network failures it meets, it ends (and leaves it to the watchdog and
\* systemd), or a tunnel comes up.
GivesUp == []<>((pc = "session" /\ tunnel_up) \/ pc \in {"idle"} \cup Ended)

\* What the loop may still spend without a tunnel, the dearest first: passes,
\* providers of the pass, attempts on the accounts of the provider (an account
\* left, a retry left, a circuit check that may ask for one more), and the way
\* to the end of the attempt.
PassesLeft ==
    IF auth_passes < AUTH_PASS_MAX THEN AUTH_PASS_MAX - auth_passes ELSE 0
PlanFor(return) == pc = return \/ (pc = "punis" /\ after = return)
ProvidersLeft ==
    CASE PlanFor("exhausted") -> 0
      [] pc = "wait_pass" -> LastProvider + 1
      [] ~PlanFor("exhausted") /\ pc # "wait_pass" -> LastProvider - provider_idx + 1
AccountsLeft ==
    IF pc = "punis" THEN config.accounts[provider_idx] + 1
    ELSE IF MoreAccounts THEN Len(account_order) - account_pos ELSE 0
RetriesLeft ==
    RECONNECT_MAX - (IF PlanFor("enter") THEN 0 ELSE reconnect_count)
CircuitsLeft == (IF checking THEN 2 ELSE 0) + (IF circuit_retry THEN 1 ELSE 0)
AttemptEnd ==
    CASE pc \in {"enter", "wait"} -> 4
      [] pc = "head" -> 3
      [] pc = "session" -> 2
      [] pc = "decide" -> 1
      [] pc \notin {"enter", "wait", "head", "session", "decide"} -> 0
Budget ==
    <<PassesLeft, ProvidersLeft, AccountsLeft + RetriesLeft + CircuitsLeft, AttemptEnd>>

\* GivesUp without its fairness: as long as no tunnel comes up, every step of
\* the loop from one of its points to another spends some of the budget, and
\* nothing that happens around the loop gives any of it back, whatever mix of
\* refusals, failures, failovers, rotations and new circuits it meets.
LoopSpends ==
    [][{pc, pc'} \subseteq Running /\ (tunnel_up' => tunnel_up) =>
          /\ AllNat(Budget)
          /\ Below(Budget', Budget) \/ (pc' = pc /\ Budget' = Budget)]_vars
=============================================================================
