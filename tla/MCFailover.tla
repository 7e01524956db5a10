----------------------------- MODULE MCFailover -----------------------------
(* Instances of Failover for TLC. *)
EXTENDS Failover

Configuration(accounts, ovpn, random) ==
    [accounts |-> accounts, ovpn |-> ovpn, random_account |-> random,
     auto_reconnect |-> TRUE]

\* Three accounts of one provider: enough for a plan that loses one.
OneProvider ==
    {Configuration(<<3>>, {1}, TRUE), Configuration(<<3>>, {1}, FALSE)}

\* Two providers, one with a single account; the list order or shuffled; one
\* configuration without auto_reconnect.
TwoProviders ==
    {Configuration(<<2, 1>>, {1, 2}, TRUE), Configuration(<<2, 1>>, {1, 2}, FALSE),
     [Configuration(<<1, 1>>, {1, 2}, TRUE) EXCEPT !.auto_reconnect = FALSE]}

\* A provider without .ovpn file, or without account, first or last in the list.
Unusable ==
    {Configuration(<<2, 1>>, {1}, TRUE), Configuration(<<0, 2>>, {1, 2}, TRUE),
     Configuration(<<1, 2>>, {2}, FALSE)}

AllConfigs == OneProvider \cup TwoProviders \cup Unusable

\* One of each kind, for the runs in which the clock moves inside a plan.
PlanConfigs ==
    {Configuration(<<3>>, {1}, TRUE), Configuration(<<2, 1>>, {1, 2}, FALSE),
     Configuration(<<0, 1>>, {2}, TRUE)}
=============================================================================
