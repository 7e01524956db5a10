--------------------------- MODULE FailoverProofs ---------------------------
(***************************************************************************)
(* Proofs about Failover, for every configuration and every bound: types,  *)
(* the plan the loop works from, and, when no quarantine ends inside       *)
(* _plan_accounts, what a pass over the accounts of a provider covers.     *)
(***************************************************************************)
EXTENDS Failover, FiniteSetTheorems, SequenceTheorems, WellFoundedInduction, TLAPS

\* SetToSeqs(S) holds the enumerations of S: no repetition, nothing missing.
LEMMA Enumeration ==
    ASSUME NEW S, IsFiniteSet(S), NEW f \in SetToSeqs(S)
    PROVE  /\ f \in Seq(S)
           /\ Len(f) = Cardinality(S)
           /\ \A i, j \in DOMAIN f : f[i] = f[j] => i = j
           /\ \A x \in S : \E i \in DOMAIN f : f[i] = x
<1> DEFINE D == 1 .. Cardinality(S)
<1>1. Cardinality(S) \in Nat
  BY FS_CardinalityType
<1>2. f \in [D -> S] /\ \A i, j \in D : i # j => f[i] # f[j]
  BY DEF SetToSeqs
<1>3. IsFiniteSet(D) /\ Cardinality(D) = Cardinality(S)
  BY <1>1, FS_Interval
<1>4. f \in Injection(D, S)
  BY <1>2 DEF Injection, IsInjective
<1>5. f \in Surjection(D, S)
  BY <1>3, <1>4, FS_Injection
<1>6. f \in Seq(S) /\ Len(f) = Cardinality(S) /\ DOMAIN f = D
  BY <1>1, <1>2
<1>7. \A x \in S : \E i \in DOMAIN f : f[i] = x
  BY <1>5, <1>6 DEF Surjection
<1> QED
  BY <1>2, <1>6, <1>7

\* The order of a plan enumerates the available accounts, then the others.
LEMMA OrderSound ==
    ASSUME NEW free, NEW held, IsFiniteSet(free), IsFiniteSet(held),
           free \cap held = {}, NEW shuffled, NEW o \in OrdersOf(free, held, shuffled)
    PROVE  /\ o \in Seq(free \cup held)
           /\ Len(o) = Cardinality(free) + Cardinality(held)
           /\ \A i, j \in DOMAIN o : o[i] = o[j] => i = j
           /\ \A x \in free \cup held : \E i \in DOMAIN o : o[i] = x
           /\ \A i, j \in DOMAIN o : i < j /\ o[i] \in held => o[j] \in held
<1>1. PICK f \in SetToSeqs(free), h \in SetToSeqs(held) : o = f \o h
  BY DEF OrdersOf, Orders
<1>2. /\ f \in Seq(free) /\ Len(f) = Cardinality(free)
      /\ \A i, j \in DOMAIN f : f[i] = f[j] => i = j
      /\ \A x \in free : \E i \in DOMAIN f : f[i] = x
  BY Enumeration
<1>3. /\ h \in Seq(held) /\ Len(h) = Cardinality(held)
      /\ \A i, j \in DOMAIN h : h[i] = h[j] => i = j
      /\ \A x \in held : \E i \in DOMAIN h : h[i] = x
  BY Enumeration
<1> DEFINE S == free \cup held
<1>0. f \in Seq(S) /\ h \in Seq(S)
  BY <1>2, <1>3
<1>4. /\ o \in Seq(S) /\ Len(o) = Len(f) + Len(h)
      /\ \A i \in 1 .. Len(f) + Len(h) :
            o[i] = IF i <= Len(f) THEN f[i] ELSE h[i - Len(f)]
  BY <1>0, <1>1, ConcatProperties
<1>5. /\ DOMAIN o = 1 .. Len(f) + Len(h)
      /\ \A i \in 1 .. Len(f) : o[i] = f[i] /\ o[i] \in free
      /\ \A i \in 1 .. Len(h) : o[Len(f) + i] = h[i] /\ o[Len(f) + i] \in held
  <2>1. Len(f) \in Nat /\ Len(h) \in Nat /\ DOMAIN o = 1 .. Len(f) + Len(h)
    BY <1>0, <1>4
  <2>2. \A i \in 1 .. Len(f) : o[i] = f[i] /\ o[i] \in free
    BY <2>1, <1>2, <1>4
  <2>3. ASSUME NEW i \in 1 .. Len(h)
        PROVE  o[Len(f) + i] = h[i] /\ o[Len(f) + i] \in held
    <3>1. Len(f) + i \in 1 .. Len(f) + Len(h) /\ ~(Len(f) + i <= Len(f)) /\ (Len(f) + i) - Len(f) = i
      BY <2>1
    <3>2. o[Len(f) + i] = h[i]
      BY <3>1, <1>4
    <3> QED
      BY <3>2, <1>3
  <2> QED
    BY <2>1, <2>2, <2>3
<1>6. \A i \in DOMAIN o : i > Len(f) => i - Len(f) \in 1 .. Len(h) /\ o[i] = h[i - Len(f)]
  <2> TAKE i \in DOMAIN o
  <2> HAVE i > Len(f)
  <2>1. Len(f) \in Nat /\ Len(h) \in Nat /\ i \in Nat
    BY <1>2, <1>3, <1>5
  <2>2. i - Len(f) \in 1 .. Len(h) /\ Len(f) + (i - Len(f)) = i
    BY <2>1, <1>5
  <2> QED
    BY <2>2, <1>5
<1>7. \A i, j \in DOMAIN o : o[i] = o[j] => i = j
  <2> SUFFICES ASSUME NEW i \in DOMAIN o, NEW j \in DOMAIN o, o[i] = o[j]
               PROVE  i = j
    OBVIOUS
  <2>1. Len(f) \in Nat /\ Len(h) \in Nat /\ i \in 1 .. Len(f) + Len(h) /\ j \in 1 .. Len(f) + Len(h)
    BY <1>2, <1>3, <1>5
  <2>2. CASE i <= Len(f) /\ j <= Len(f)
    BY <2>1, <2>2, <1>2, <1>5
  <2>3. CASE i > Len(f) /\ j > Len(f)
    <3>1. i - Len(f) \in DOMAIN h /\ j - Len(f) \in DOMAIN h /\ h[i - Len(f)] = h[j - Len(f)]
      BY <2>1, <2>3, <1>3, <1>6
    <3>2. i - Len(f) = j - Len(f)
      BY <3>1, <1>3
    <3> QED
      BY <3>2, <2>1
  <2>4. CASE (i <= Len(f) /\ j > Len(f)) \/ (i > Len(f) /\ j <= Len(f))
    <3>1. \A k \in DOMAIN o : k > Len(f) => o[k] \in held
      BY <1>3, <1>6
    <3>2. \A k \in DOMAIN o : k <= Len(f) => o[k] \in free
      BY <2>1, <1>5
    <3> QED
      BY <3>1, <3>2, <2>4
  <2> QED
    BY <2>1, <2>2, <2>3, <2>4
<1>8. \A x \in free \cup held : \E i \in DOMAIN o : o[i] = x
  <2> TAKE x \in free \cup held
  <2>0. Len(f) \in Nat /\ Len(h) \in Nat
    BY <1>2, <1>3
  <2>1. CASE x \in free
    <3>1. PICK i \in DOMAIN f : f[i] = x
      BY <2>1, <1>2
    <3>2. i \in DOMAIN o /\ o[i] = x
      BY <3>1, <2>0, <1>2, <1>5
    <3> QED
      BY <3>2
  <2>2. CASE x \in held
    <3>1. PICK i \in DOMAIN h : h[i] = x
      BY <2>2, <1>3
    <3>2. i \in 1 .. Len(h) /\ Len(f) + i \in DOMAIN o
      BY <3>1, <2>0, <1>3, <1>5
    <3>3. o[Len(f) + i] = x
      BY <3>1, <3>2, <1>5
    <3> QED
      BY <3>2, <3>3
  <2> QED
    BY <2>1, <2>2
<1>9. \A i, j \in DOMAIN o : i < j /\ o[i] \in held => o[j] \in held
  <2> SUFFICES ASSUME NEW i \in DOMAIN o, NEW j \in DOMAIN o, i < j, o[i] \in held
               PROVE  o[j] \in held
    OBVIOUS
  <2>1. Len(f) \in Nat /\ Len(h) \in Nat /\ i \in 1 .. Len(f) + Len(h) /\ j \in 1 .. Len(f) + Len(h)
    BY <1>2, <1>3, <1>5
  <2>2. i > Len(f)
    BY <2>1, <1>5
  <2>3. j > Len(f)
    BY <2>1, <2>2
  <2> QED
    BY <2>3, <1>3, <1>6
<1> QED
  BY <1>2, <1>3, <1>4, <1>7, <1>8, <1>9

-----------------------------------------------------------------------------
(* Type correctness                                                        *)

\* The count of failures passes its bound only when the loop ends on it.
CountBound == reconnect_count <= RECONNECT_MAX \/ pc = "unreachable"

\* The bounds of the counters, as the types below use them.
LEMMA Bounds ==
    /\ RECONNECT_MAX \in Nat /\ 0 \in 0 .. RECONNECT_MAX /\ 0 \in 0 .. RECONNECT_MAX + 1
    /\ AUTH_COOLDOWN \in Nat /\ 0 \in 0 .. AUTH_COOLDOWN
    /\ AUTH_COOLDOWN \in 0 .. AUTH_COOLDOWN
    /\ CircuitCheck \in BOOLEAN
  BY BoundsAssumption

\* What a configuration gives the proofs below.
LEMMA ConfigFacts ==
    ASSUME NEW c \in Configs
    PROVE  /\ c.accounts \in Seq(Nat)
           /\ Len(c.accounts) \in Nat \ {0}
           /\ DOMAIN c.accounts = 1 .. Len(c.accounts)
           /\ c.auto_reconnect \in BOOLEAN /\ c.random_account \in BOOLEAN
           /\ \A p \in 1 .. Len(c.accounts) :
                 /\ c.accounts[p] \in Nat
                 /\ Accounts(c, p) \subseteq Nat \ {0}
                 /\ IsFiniteSet(Accounts(c, p))
                 /\ Cardinality(Accounts(c, p)) = c.accounts[p]
                 /\ \A a \in Accounts(c, p) : <<p, a>> \in Slots(c)
<1>1. c \in ConfigType /\ c.accounts # <<>>
  BY ConfigsAssumption
<1>2. c.accounts \in Seq(Nat) /\ c.auto_reconnect \in BOOLEAN /\ c.random_account \in BOOLEAN
  BY <1>1 DEF ConfigType
<1>3. Len(c.accounts) \in Nat \ {0} /\ DOMAIN c.accounts = 1 .. Len(c.accounts)
  BY <1>1, <1>2, EmptySeq
<1>4. ASSUME NEW p \in 1 .. Len(c.accounts)
      PROVE  /\ c.accounts[p] \in Nat
             /\ Accounts(c, p) \subseteq Nat \ {0}
             /\ IsFiniteSet(Accounts(c, p))
             /\ Cardinality(Accounts(c, p)) = c.accounts[p]
             /\ \A a \in Accounts(c, p) : <<p, a>> \in Slots(c)
  <2>1. c.accounts[p] \in Nat
    BY <1>2, <1>3
  <2>2. IsFiniteSet(1 .. c.accounts[p]) /\ Cardinality(1 .. c.accounts[p]) = c.accounts[p]
    <3>1. ASSUME NEW n \in Nat
          PROVE  IsFiniteSet(1 .. n) /\ Cardinality(1 .. n) = n
      BY FS_Interval
    <3> QED
      BY <2>1, <3>1
  <2>3. ASSUME NEW a \in Accounts(c, p)
        PROVE  <<p, a>> \in Slots(c)
    <3>1. <<p, a>> \in {p} \X Accounts(c, p)
      OBVIOUS
    <3>2. {p} \X Accounts(c, p) \in {{q} \X Accounts(c, q) : q \in DOMAIN c.accounts}
      BY <1>3
    <3> QED
      BY <3>1, <3>2 DEF Slots
  <2> QED
    BY <2>1, <2>2, <2>3 DEF Accounts
<1> QED
  BY <1>2, <1>3, <1>4

\* The available accounts the first half of a plan saw are still available.
LibresFree ==
    pc = "punis" => \A a \in libres : account_cooldown[<<provider_idx, a>>] = 0

TypeInv == TypeOK /\ CountBound /\ LibresFree

\* The order a plan chooses, whatever the clock did since its first half.
LEMMA PlannedOrder ==
    ASSUME TypeInv, pc = "punis",
           NEW o \in OrdersOf(libres, Punis(config, provider_idx, account_cooldown),
                              config.random_account)
    PROVE  LET held == Punis(config, provider_idx, account_cooldown)
               all  == Accounts(config, provider_idx)
           IN  /\ o \in Seq(all) /\ o \in Seq(Nat \ {0})
               /\ Len(o) = Cardinality(libres) + Cardinality(held)
               /\ \A i, j \in DOMAIN o : o[i] = o[j] => i = j
               /\ \A x \in libres \cup held : \E i \in DOMAIN o : o[i] = x
               /\ \A i, j \in DOMAIN o : i < j /\ o[i] \in held => o[j] \in held
<1> DEFINE held == Punis(config, provider_idx, account_cooldown)
           all  == Accounts(config, provider_idx)
<1>1. held \subseteq all /\ libres \subseteq all
  BY DEF TypeInv, TypeOK, Punis
<1>2. IsFiniteSet(all) /\ all \subseteq Nat \ {0}
  BY ConfigFacts DEF TypeInv, TypeOK, LastProvider
<1>3. IsFiniteSet(held) /\ IsFiniteSet(libres)
  BY <1>1, <1>2, FS_Subset
<1>4. libres \cap held = {}
  BY DEF TypeInv, Punis, LibresFree
<1>5. /\ o \in Seq(libres \cup held)
      /\ Len(o) = Cardinality(libres) + Cardinality(held)
      /\ \A i, j \in DOMAIN o : o[i] = o[j] => i = j
      /\ \A x \in libres \cup held : \E i \in DOMAIN o : o[i] = x
      /\ \A i, j \in DOMAIN o : i < j /\ o[i] \in held => o[j] \in held
  BY <1>3, <1>4, OrderSound
<1>6. o \in Seq(all) /\ o \in Seq(Nat \ {0})
  BY <1>1, <1>2, <1>5
<1> QED
  BY <1>5, <1>6

\* A new process is in the type invariant.
LEMMA TypeInit == Init => TypeInv
<1> SUFFICES ASSUME Init PROVE TypeInv
  OBVIOUS
<1>1. 1 \in 1 .. LastProvider
  BY ConfigFacts DEF Init, LastProvider
<1>2. fails \in [who: Nat \X Nat, n: Nat]
  BY DEF Init
<1>3. account_order \in Seq(Nat \ {0})
  BY EmptySeq DEF Init
<1>4. account_cooldown \in [Slots(config) -> 0 .. AUTH_COOLDOWN]
  BY Bounds DEF Init
<1>5. /\ provider_idx \in 1 .. LastProvider /\ account_idx \in Nat \ {0}
      /\ libres \in SUBSET Accounts(config, provider_idx) /\ tried \in SUBSET Nat
  BY <1>1 DEF Init
<1>6. TypeOK
  BY Bounds, <1>2, <1>3, <1>4, <1>5 DEF Init, TypeOK, Returns
<1> QED
  BY Bounds, <1>6 DEF Init, TypeInv, CountBound, LibresFree

\* The steps that start a plan.
LEMMA CallPlanSound ==
    ASSUME TypeInv, NEW p \in 1 .. LastProvider, NEW return \in Returns, CallPlan(p, return),
           auth_passes' \in Nat, reconnect_count' \in 0 .. RECONNECT_MAX,
           tried' \in SUBSET Nat, fails' \in [who: Nat \X Nat, n: Nat]
    PROVE  TypeInv'
<1>1. TypeOK'
  BY Bounds DEF TypeInv, TypeOK, CallPlan, sessionVars, checkVars, otherVars, Running, Returns, LastProvider
<1>2. CountBound'
  BY Bounds DEF CountBound
<1>3. LibresFree'
  <2>1. /\ provider_idx' = p /\ account_cooldown' = account_cooldown
        /\ libres' = Accounts(config, p) \ Punis(config, p, account_cooldown)
    BY DEF CallPlan
  <2>2. \A a \in Accounts(config, p) :
           /\ <<p, a>> \in Slots(config)
           /\ account_cooldown[<<p, a>>] \in Nat
    BY ConfigFacts, SMTT(30) DEF TypeInv, TypeOK, LastProvider
  <2> QED
    BY <2>1, <2>2 DEF LibresFree, Punis
<1> QED
  BY <1>1, <1>2, <1>3 DEF TypeInv

\* The history of failures keeps its type.
LEMMA FailedAgainType ==
    ASSUME TypeInv
    PROVE  FailedAgain \in [who: Nat \X Nat, n: Nat]
<1>1. Current \in Nat \X Nat
  BY DEF TypeInv, TypeOK, Current
<1> QED
  BY <1>1 DEF TypeInv, TypeOK, FailedAgain

\* A quarantine written for one account keeps the type of them all.
LEMMA CooldownType ==
    ASSUME NEW cd \in [Slots(config) -> 0 .. AUTH_COOLDOWN], NEW slot, NEW ticks \in 0 .. AUTH_COOLDOWN
    PROVE  [cd EXCEPT ![slot] = ticks] \in [Slots(config) -> 0 .. AUTH_COOLDOWN]
  OBVIOUS

\* Every step of the loop and of the threads around it keeps the types.
LEMMA TypeStep == TypeInv /\ [Next]_vars => TypeInv'
<1> SUFFICES ASSUME TypeInv, [Next]_vars PROVE TypeInv'
  OBVIOUS
<1> USE DEF TypeInv, TypeOK
<1>a. config \in Configs /\ LastProvider \in Nat \ {0} /\ 1 \in 1 .. LastProvider
  BY ConfigFacts DEF LastProvider
<1> USE Bounds
<1>b. reconnect_count \in 0 .. RECONNECT_MAX \/ pc = "unreachable"
  BY DEF CountBound
<1>1. CASE EnterLoop
  BY <1>1, <1>a, <1>b, CallPlanSound DEF EnterLoop, EnterProvider, countVars, Returns
<1>2. CASE PlanAccounts
  <2>1. PICK o \in OrdersOf(libres, Punis(config, provider_idx, account_cooldown),
                            config.random_account) :
          account_order' = o /\ account_idx' = IF o = <<>> THEN 1 ELSE o[1]
    BY <1>2 DEF PlanAccounts
  <2>2. o \in Seq(Nat \ {0})
    BY <1>2, <2>1, PlannedOrder DEF PlanAccounts
  <2>3. account_idx' \in Nat \ {0} /\ account_order' \in Seq(Nat \ {0})
    BY <2>1, <2>2, EmptySeq
  <2>4. TypeOK'
    BY <1>2, <2>3 DEF PlanAccounts, countVars, sessionVars, checkVars, otherVars,
       historyVars, Returns, Running, LastProvider
  <2> QED
    BY <1>2, <1>b, <2>4 DEF PlanAccounts, CountBound, LibresFree, countVars, Returns
<1>3. ASSUME NEW to \in {"idle", "no_usable", "no_proxy", "head"}, Move(to),
             reconnect_count <= RECONNECT_MAX
      PROVE  TypeInv'
  BY <1>3 DEF Move, planVars, countVars, sessionVars, checkVars, otherVars, historyVars,
     Running, Returns, Ended, LastProvider, CountBound, LibresFree
<1>4. CASE SkipProvider
  BY <1>4, <1>a, <1>b, CallPlanSound, SMTT(30) DEF SkipProvider, AtHead, EnterProvider, countVars, Returns
<1>5. CASE BeginLoop
  <2>1. TypeOK'
    BY <1>5 DEF BeginLoop, planVars, sessionVars, otherVars, historyVars, Running, Returns,
       LastProvider
  <2>2. CountBound' /\ LibresFree'
    BY <1>5 DEF BeginLoop, CountBound, LibresFree
  <2> QED
    BY <2>1, <2>2
<1>6. CASE ObserveStop
  BY <1>3, <1>6, <1>b, SMTT(30) DEF ObserveStop
<1>7. CASE NothingUsable
  BY <1>3, <1>7, <1>b, SMTT(30) DEF NothingUsable, AtHead
<1>8. CASE ProxyDown
  BY <1>3, <1>8, <1>b, SMTT(30) DEF ProxyDown, AtHead
<1>9. CASE RetryAccount
  BY <1>3, <1>9, <1>b, SMTT(30) DEF RetryAccount
<1>10. CASE Connect
  BY <1>10, <1>b DEF Connect, AtHead, planVars, countVars, checkVars, otherVars, historyVars,
     Running, Returns, Ended, LastProvider, CountBound, LibresFree
<1>11. CASE Established
  <2>1. account_cooldown' \in [Slots(config) -> 0 .. AUTH_COOLDOWN]
    BY <1>11, CooldownType DEF Established
  <2>2. tried' \in SUBSET Nat /\ fails' \in [who: Nat \X Nat, n: Nat]
    BY <1>11 DEF Established, Current
  <2> QED
    <3>1. TypeOK'
      BY <1>11, <2>1, <2>2 DEF Established, planVars, otherVars, LastProvider
    <3>2. reconnect_count' = 0 /\ pc' # "punis"
      BY <1>11 DEF Established
    <3>3. CountBound' /\ LibresFree'
      BY <3>2 DEF CountBound, LibresFree
    <3> QED
      BY <3>1, <3>3
<1>12. CASE Refused
  BY <1>12 DEF Refused, planVars, countVars, checkVars, otherVars, LastProvider,
     CountBound, LibresFree
<1>13. CASE SessionEnds
  <2>1. pc' \in {"idle", "decide", "no_reconnect", "no_openvpn"} /\ tunnel_up' \in BOOLEAN
    BY <1>13 DEF SessionEnds
  <2>2. UNCHANGED <<config, provider_idx, account_idx, account_order, account_pos, libres,
                    after, account_cooldown, auth_passes, reconnect_count, auth_failed,
                    circuit_retry, checking, watchdog, tried, fails>>
    BY <1>13 DEF SessionEnds, planVars, countVars, checkVars, otherVars, historyVars
  <2>3. CountBound' /\ LibresFree'
    <3>1. pc = "session"
      BY <1>13 DEF SessionEnds
    <3> QED
      BY <2>1, <2>2, <3>1, <1>b DEF CountBound, LibresFree
  <2>4. TypeOK'
    BY <2>1, <2>2 DEF Running, Returns, Ended, LastProvider
  <2> QED
    BY <2>3, <2>4
<1>14. CASE TakeCircuitRetry
  BY <1>14, <1>b DEF TakeCircuitRetry, planVars, countVars, sessionVars, otherVars, historyVars,
     Running, Returns, LastProvider, CountBound, LibresFree
<1>15. CASE QuarantineRefused
  <2>1. account_cooldown' \in [Slots(config) -> 0 .. AUTH_COOLDOWN]
    BY <1>15, CooldownType DEF QuarantineRefused, MettreEnQuarantaine
  <2>2. fails' \in [who: Nat \X Nat, n: Nat]
    BY <1>15, FailedAgainType DEF QuarantineRefused
  <2> QED
    BY <1>15, <1>b, <2>1, <2>2 DEF QuarantineRefused, planVars, countVars, checkVars, otherVars,
       Running, LastProvider, CountBound, LibresFree
<1>16. CASE ReplanStale
  BY <1>16, <1>b, CallPlanSound DEF ReplanStale, countVars, historyVars, Returns
<1>17. CASE FailoverAccount
  <2>1. account_idx' \in Nat \ {0} /\ account_pos' \in Nat \ {0}
    BY <1>17 DEF FailoverAccount, MoreAccounts, NextAccount
  <2> QED
    BY <1>17, <1>b, <2>1 DEF FailoverAccount, AtFailover, countVars, sessionVars, checkVars,
       otherVars, historyVars, Running, Returns, LastProvider, CountBound, LibresFree
<1>18. CASE FailoverProvider
  <2>1. reconnect_count' \in 0 .. RECONNECT_MAX /\ auth_passes' \in Nat
    BY <1>18, <1>b DEF FailoverProvider, AtFailover, countVars
  <2>2. PICK p \in 1 .. LastProvider, return \in Returns : EnterProvider(p, return)
    BY <1>18, <1>a DEF FailoverProvider, Returns
  <2> QED
    BY <2>1, <2>2, CallPlanSound DEF EnterProvider
<1>19. CASE PassOver
  BY <1>19, <1>b DEF PassOver, Passes, planVars, sessionVars, checkVars, otherVars, historyVars,
     Running, Ended, LastProvider, CountBound, LibresFree
<1>20. CASE NewPass
  BY <1>20, <1>a, <1>b, CallPlanSound DEF NewPass, EnterProvider, countVars, Returns
<1>21. CASE RetryLater
  <2>1. fails' \in [who: Nat \X Nat, n: Nat]
    BY <1>21, FailedAgainType DEF RetryLater
  <2>2. reconnect_count' \in 0 .. RECONNECT_MAX + 1 /\ CountBound'
    BY <1>21, <1>b DEF RetryLater, NetworkFailures, CountBound, AtNetworkFailure
  <2> QED
    BY <1>21, <2>1, <2>2 DEF RetryLater, planVars, sessionVars, checkVars, otherVars,
       Running, Ended, LastProvider, LibresFree
<1>22. CASE RotateProvider
  <2>1. fails' \in [who: Nat \X Nat, n: Nat]
    BY <1>22, FailedAgainType DEF RotateProvider
  <2> QED
    BY <1>22, <1>a, <2>1, CallPlanSound, SMTT(30) DEF RotateProvider, Returns
<1>23. CASE CircuitCheckEnds \/ WatchdogChecks \/ WatchdogDecides
  BY <1>23 DEF CircuitCheckEnds, WatchdogChecks, WatchdogDecides, planVars, countVars,
     sessionVars, checkVars, otherVars, historyVars, LastProvider, CountBound, LibresFree
<1>24. CASE FullRestart
  <2>1. TypeOK'
    BY <1>24 DEF FullRestart, planVars, checkVars, historyVars, LastProvider
  <2>2. CountBound' /\ LibresFree'
    BY <1>24 DEF FullRestart, CountBound, LibresFree
  <2> QED
    BY <2>1, <2>2
<1>25. CASE Tick
  <2>1. account_cooldown' \in [Slots(config) -> 0 .. AUTH_COOLDOWN]
    BY <1>25 DEF Tick
  <2>2. LibresFree'
    <3>1. provider_idx \in 1 .. Len(config.accounts) /\ libres \subseteq Accounts(config, provider_idx)
      BY DEF LastProvider
    <3>2. \A a \in libres : <<provider_idx, a>> \in Slots(config)
      BY <1>a, <3>1, ConfigFacts
    <3> QED
      BY <1>25, <3>2 DEF Tick, LibresFree, planVars
  <2> QED
    BY <1>25, <2>1, <2>2 DEF Tick, planVars, countVars, sessionVars, checkVars, otherVars,
       historyVars, LastProvider, CountBound
<1>26. CASE UNCHANGED vars
  BY <1>26 DEF vars, planVars, countVars, sessionVars, checkVars, otherVars, historyVars,
     LastProvider, CountBound, LibresFree
<1> QED
  BY <1>1, <1>2, <1>4, <1>5, <1>6, <1>7, <1>8, <1>9, <1>10, <1>11, <1>12, <1>13, <1>14,
     <1>15, <1>16, <1>17, <1>18, <1>19, <1>20, <1>21, <1>22, <1>23, <1>24, <1>25, <1>26
     DEF Next, LoopStep

\* Every variable keeps its type, in every execution of the loop.
THEOREM TypeCorrect == Spec => []TypeOK
<1>1. TypeInv => TypeOK
  BY DEF TypeInv
<1> QED
  BY <1>1, TypeInit, TypeStep, PTL DEF Spec

-----------------------------------------------------------------------------
(* The plan                                                                *)

\* A step keeps the plan when it keeps the order and the place in it, and puts
\* no account outside of the order in quarantine.
LEMMA PlanKept ==
    ASSUME PlanSound,
           UNCHANGED <<config, account_idx, account_order, account_pos>>,
           \/ pc' = "punis"
           \/ /\ pc # "punis" /\ provider_idx' = provider_idx
              /\ account_order # <<>> =>
                   \A a \in Accounts(config, provider_idx) \ ToSet(account_order) :
                      account_cooldown[<<provider_idx, a>>] = 0 =>
                         account_cooldown'[<<provider_idx, a>>] = 0
    PROVE  PlanSound'
<1>1. OrderNoRepeat' /\ AccountFollowsOrder'
  BY DEF PlanSound, OrderNoRepeat, AccountFollowsOrder
<1>2. Accounts(config, provider_idx)' = Accounts(config, provider_idx) \/ pc' = "punis"
  BY DEF Accounts
<1>3. OrderOfProvider' /\ DroppedIsFree'
  BY <1>2 DEF PlanSound, OrderOfProvider, DroppedIsFree
<1> QED
  BY <1>1, <1>3 DEF PlanSound

\* Every step keeps the plan sound, and what it left out available.
LEMMA PlanStep == TypeInv /\ PlanSound /\ [Next]_vars => PlanSound'
<1> SUFFICES ASSUME TypeInv, PlanSound, [Next]_vars PROVE PlanSound'
  OBVIOUS
<1> DEFINE all == Accounts(config, provider_idx)
<1>a. \A a \in all : /\ <<provider_idx, a>> \in Slots(config)
                     /\ <<provider_idx, a>> \in DOMAIN account_cooldown
                     /\ account_cooldown[<<provider_idx, a>>] \in Nat
  BY ConfigFacts, Bounds DEF TypeInv, TypeOK, LastProvider
\* Steps that start a plan.
<1>1. ASSUME NEW p, NEW return, CallPlan(p, return)
      PROVE  PlanSound'
  BY <1>1, PlanKept DEF CallPlan, otherVars
\* Steps that touch neither the plan nor a quarantine.
<1>2. ASSUME UNCHANGED <<config, planVars, account_cooldown>>, pc # "punis" \/ pc' = "punis"
      PROVE  PlanSound'
  BY <1>2, PlanKept DEF planVars
<1>3. CASE PlanAccounts
  <2> DEFINE held == Punis(config, provider_idx, account_cooldown)
  <2>1. PICK o \in OrdersOf(libres, held, config.random_account) :
          account_order' = o /\ account_idx' = IF o = <<>> THEN 1 ELSE o[1]
    BY <1>3 DEF PlanAccounts
  <2>2. /\ o \in Seq(all)
        /\ \A i, j \in DOMAIN o : o[i] = o[j] => i = j
        /\ \A x \in libres \cup held : \E i \in DOMAIN o : o[i] = x
    BY <1>3, <2>1, PlannedOrder DEF PlanAccounts
  <2>3. /\ UNCHANGED <<config, provider_idx, account_cooldown>> /\ account_pos' = 1
    BY <1>3 DEF PlanAccounts, otherVars
  <2>4. OrderNoRepeat'
    BY <2>1, <2>2 DEF OrderNoRepeat
  <2>5. OrderOfProvider'
    <3>1. \A i \in DOMAIN o : o[i] \in all
      BY <2>2
    <3> HIDE DEF held
    <3> QED
      BY <2>1, <2>3, <3>1 DEF OrderOfProvider, Accounts
  <2>6. AccountFollowsOrder'
    <3>1. o # <<>> => 1 \in DOMAIN o
      BY <2>2, EmptySeq
    <3> QED
      BY <2>1, <2>3, <3>1 DEF AccountFollowsOrder
  <2>7. DroppedIsFree'
    <3>1. \A a \in all : a \notin held => account_cooldown[<<provider_idx, a>>] = 0
      BY <1>a DEF Punis
    <3>2. \A a \in held : a \in ToSet(o)
      BY <2>2 DEF ToSet
    <3> QED
      BY <2>1, <2>3, <3>1, <3>2 DEF DroppedIsFree, Accounts
  <2> QED
    BY <2>4, <2>5, <2>6, <2>7 DEF PlanSound
<1>4. CASE Established
  BY <1>4, <1>a, PlanKept DEF Established, planVars, otherVars
<1>5. CASE QuarantineRefused
  <2>1. account_order # <<>> => account_idx \in ToSet(account_order)
    BY DEF PlanSound, AccountFollowsOrder, ToSet
  <2>2. account_order # <<>> =>
          \A a \in all \ ToSet(account_order) :
             account_cooldown'[<<provider_idx, a>>] = account_cooldown[<<provider_idx, a>>]
    BY <1>5, <1>a, <2>1 DEF QuarantineRefused, MettreEnQuarantaine, Current
  <2> QED
    BY <1>5, <2>2, PlanKept DEF QuarantineRefused, planVars, otherVars
<1>6. CASE FailoverAccount
  <2>1. account_order \in Seq(Nat \ {0}) /\ account_pos \in Nat \ {0}
    BY DEF TypeInv, TypeOK
  <2>2. account_pos' \in DOMAIN account_order /\ account_idx' = account_order[account_pos']
    BY <1>6, <2>1 DEF FailoverAccount, MoreAccounts, NextAccount
  <2>3. UNCHANGED <<config, provider_idx, account_order, account_cooldown>> /\ pc # "punis"
    BY <1>6 DEF FailoverAccount, AtFailover, otherVars
  <2> QED
    BY <2>2, <2>3 DEF PlanSound, OrderNoRepeat, OrderOfProvider,
       AccountFollowsOrder, DroppedIsFree, Accounts
<1>7. CASE Tick
  <2>1. \A a \in all : account_cooldown[<<provider_idx, a>>] = 0 =>
                         account_cooldown'[<<provider_idx, a>>] = 0
    BY <1>7, <1>a DEF Tick
  <2>2. UNCHANGED <<config, planVars, pc>>
    BY <1>7 DEF Tick, otherVars
  <2> QED
    BY <2>1, <2>2, PlanKept DEF planVars
<1>8. CASE EnterLoop \/ SkipProvider \/ ReplanStale \/ FailoverProvider \/ NewPass \/ RotateProvider
  BY <1>1, <1>8 DEF EnterLoop, SkipProvider, ReplanStale, FailoverProvider, NewPass,
     RotateProvider, EnterProvider
<1>9. CASE \/ BeginLoop \/ ObserveStop \/ NothingUsable \/ ProxyDown \/ RetryAccount
           \/ Connect \/ Refused \/ SessionEnds \/ TakeCircuitRetry \/ PassOver
           \/ RetryLater \/ FullRestart
  <2>1. UNCHANGED <<config, planVars, account_cooldown>> /\ pc # "punis"
    BY <1>9 DEF BeginLoop, ObserveStop, NothingUsable, ProxyDown, RetryAccount, AtHead, Move,
       Connect, Refused, SessionEnds, TakeCircuitRetry, PassOver, RetryLater,
       AtNetworkFailure, FullRestart, Ended, otherVars
  <2> QED
    BY <1>2, <2>1
<1>10. CASE CircuitCheckEnds \/ WatchdogChecks \/ WatchdogDecides \/ UNCHANGED vars
  <2>1. UNCHANGED <<config, planVars, account_cooldown, pc>>
    BY <1>10 DEF CircuitCheckEnds, WatchdogChecks, WatchdogDecides, vars, otherVars
  <2> QED
    BY <1>2, <2>1
<1> QED
  BY <1>3, <1>4, <1>5, <1>6, <1>7, <1>8, <1>9, <1>10 DEF Next, LoopStep

\* Both invariants hold throughout every execution.
LEMMA PlanAlways == Spec => [](TypeInv /\ PlanSound)
<1>1. Init => PlanSound
  BY DEF Init, PlanSound, OrderNoRepeat, OrderOfProvider, AccountFollowsOrder,
     DroppedIsFree
<1> QED
  BY <1>1, TypeInit, TypeStep, PlanStep, PTL DEF Spec

\* The account in use is at its position in an order of the current provider
\* that names no account twice, whatever refusals, failures, full restarts and
\* clock ticks came before; an account left out of the order is available.
THEOREM PlanCorrect == Spec => []PlanSound
  BY PlanAlways, PTL

\* In particular the daemon only ever puts in quarantine accounts its order can
\* come back to.
THEOREM DroppedCorrect == Spec => []DroppedIsFree
<1>1. PlanSound => DroppedIsFree
  BY DEF PlanSound
<1> QED
  BY <1>1, PlanCorrect, PTL

-----------------------------------------------------------------------------
(* Passes, when no quarantine ends inside a plan                           *)

\* The loop holds a plan.
Planned == pc \in Running \ {"punis"}

\* The accounts the first half of a plan left out are still in quarantine.
PunisHeld ==
    pc = "punis" =>
        \A a \in Accounts(config, provider_idx) \ libres :
            account_cooldown[<<provider_idx, a>>] > 0

\* A plan starts a pass; none is made inside _try_failover.
PlanStartsPass == pc # "advance" /\ after # "advance" /\ (pc = "punis" => tried = {})

\* The session and what follows concern an account of the provider.
InSession == pc \in {"session", "decide", "failover"}
SessionOfAccount == InSession => account_idx \in Accounts(config, provider_idx)

\* The accounts before the position were refused in this pass, and so was the
\* current one once its refusal is known.
PassSoFar ==
    /\ tried \subseteq Accounts(config, provider_idx)
    /\ Planned => \A i \in DOMAIN account_order : i < account_pos => account_order[i] \in tried
    /\ InSession /\ (auth_failed \/ pc = "failover") => account_idx \in tried

PassInv == OrderIsPermutation /\ PunisHeld /\ PlanStartsPass /\ SessionOfAccount /\ PassSoFar

\* A duplicate-free order as long as the list names every account of it.
LEMMA FullOrder ==
    ASSUME TypeInv, PlanSound, pc # "punis",
           Len(account_order) = config.accounts[provider_idx]
    PROVE  \A a \in Accounts(config, provider_idx) : \E i \in DOMAIN account_order : account_order[i] = a
<1> DEFINE all == Accounts(config, provider_idx)
           D   == DOMAIN account_order
<1>1. config.accounts[provider_idx] \in Nat /\ IsFiniteSet(all) /\ Cardinality(all) = config.accounts[provider_idx]
  BY ConfigFacts DEF TypeInv, TypeOK, LastProvider
<1>2. D = 1 .. config.accounts[provider_idx] /\ account_order \in [D -> all]
  <2>1. D = 1 .. Len(account_order) /\ account_order \in [D -> Nat \ {0}]
    BY DEF TypeInv, TypeOK
  <2>2. \A i \in D : account_order[i] \in all
    BY DEF PlanSound, OrderOfProvider
  <2> QED
    BY <2>1, <2>2
<1>3. IsFiniteSet(D) /\ Cardinality(D) = Cardinality(all)
  <2>1. ASSUME NEW n \in Nat
        PROVE  IsFiniteSet(1 .. n) /\ Cardinality(1 .. n) = n
    BY FS_Interval, SMTT(30)
  <2> QED
    BY <1>1, <1>2, <2>1
<1>4. account_order \in Injection(D, all)
  BY <1>2 DEF PlanSound, OrderNoRepeat, Injection, IsInjective
<1>5. account_order \in Surjection(D, all)
  BY <1>1, <1>3, <1>4, FS_Injection
<1> QED
  BY <1>5 DEF Surjection

\* Starting a plan that starts a pass.
LEMMA PassCallPlan ==
    ASSUME TypeInv, NEW p \in 1 .. LastProvider, NEW return \in Returns \ {"advance"},
           CallPlan(p, return), tried' = {}
    PROVE  PassInv'
<1>1. /\ provider_idx' = p /\ pc' = "punis" /\ after' = return
      /\ libres' = Accounts(config, p) \ Punis(config, p, account_cooldown)
      /\ UNCHANGED <<config, account_cooldown>>
  BY DEF CallPlan, otherVars
<1>2. PunisHeld'
  BY <1>1 DEF PunisHeld, Punis, Accounts
<1> QED
  BY <1>1, <1>2 DEF PassInv, OrderIsPermutation, PlanStartsPass, SessionOfAccount, InSession,
     PassSoFar, Planned

\* Steps that keep the plan, the history and the place in the session.
LEMMA PassKept ==
    ASSUME PassInv, pc # "punis", pc' # "punis", pc' # "advance",
           UNCHANGED <<config, planVars, tried>>,
           pc' \in Running => pc \in Running,
           InSession' => /\ account_idx \in Accounts(config, provider_idx)
                         /\ auth_failed' \/ pc' = "failover" => account_idx \in tried
    PROVE  PassInv'
<1>1. Accounts(config, provider_idx)' = Accounts(config, provider_idx)
  BY DEF planVars, Accounts
<1>2. OrderIsPermutation' /\ PunisHeld' /\ PlanStartsPass'
  BY DEF PassInv, OrderIsPermutation, PunisHeld, PlanStartsPass, planVars
<1>3. SessionOfAccount' /\ PassSoFar'
  BY <1>1 DEF PassInv, SessionOfAccount, PassSoFar, Planned, planVars
<1> QED
  BY <1>2, <1>3 DEF PassInv

\* Every step keeps the pass invariant, when no quarantine ends inside a plan.
LEMMA PassStep ==
    ASSUME ~TickInPlan, TypeInv, PlanSound, PassInv, [Next]_vars
    PROVE  PassInv'
<1> DEFINE all == Accounts(config, provider_idx)
<1>a. /\ config \in Configs /\ provider_idx \in 1 .. LastProvider /\ LastProvider \in Nat
      /\ 1 \in 1 .. LastProvider
  BY ConfigFacts DEF TypeInv, TypeOK, LastProvider
<1>b. /\ all \subseteq Nat \ {0} /\ IsFiniteSet(all) /\ Cardinality(all) = config.accounts[provider_idx]
      /\ config.accounts[provider_idx] \in Nat
  BY ConfigFacts DEF TypeInv, TypeOK, LastProvider
<1>1. CASE EnterLoop \/ SkipProvider \/ FailoverProvider \/ NewPass \/ RotateProvider
  <2>1. PICK p \in 1 .. LastProvider, return \in Returns \ {"advance"} :
           CallPlan(p, return) /\ tried' = {}
    BY <1>1, <1>a DEF EnterLoop, SkipProvider, FailoverProvider, NewPass, RotateProvider,
       EnterProvider, Returns
  <2> QED
    BY <2>1, PassCallPlan
<1>2. CASE ReplanStale
  BY <1>2 DEF ReplanStale, PassInv, OrderIsPermutation, Running
<1>3. CASE PlanAccounts
  <2> DEFINE held == Punis(config, provider_idx, account_cooldown)
  <2>1. PICK o \in OrdersOf(libres, held, config.random_account) : account_order' = o
    BY <1>3 DEF PlanAccounts
  <2>2. Len(o) = Cardinality(libres) + Cardinality(held)
    BY <1>3, <2>1, PlannedOrder DEF PlanAccounts
  <2>3. libres = all \ held /\ held \subseteq all
    BY <1>3 DEF PlanAccounts, PassInv, PunisHeld, Punis, TypeInv, TypeOK, LibresFree
  <2>4. Cardinality(libres) + Cardinality(held) = Cardinality(all)
    <3>1. Cardinality(libres) = Cardinality(all) - Cardinality(all \cap held)
      BY <2>3, <1>b, FS_Difference
    <3>2. all \cap held = held
      BY <2>3
    <3>3. Cardinality(held) \in Nat /\ Cardinality(all) \in Nat
      BY <2>3, <1>b, FS_Subset, FS_CardinalityType
    <3>4. ASSUME NEW m \in Nat, NEW n \in Nat, NEW k, k = m - n
          PROVE  k + n = m
      BY <3>4
    <3> HIDE DEF held, all
    <3> QED
      BY <3>1, <3>2, <3>3, <3>4
  <2>5. /\ UNCHANGED <<config, provider_idx, tried>> /\ tried = {} /\ account_pos' = 1
        /\ pc' \in Returns \ {"advance"} /\ after' = "head"
    BY <1>3 DEF PlanAccounts, otherVars, historyVars, PassInv, PlanStartsPass, TypeInv, TypeOK
  <2>6. OrderIsPermutation'
    BY <2>1, <2>2, <2>4, <2>5, <1>b DEF OrderIsPermutation
  <2>7. \A i \in DOMAIN o : ~(i < 1)
    BY <1>3, <2>1, PlannedOrder DEF PlanAccounts
  <2>8. PassSoFar' /\ SessionOfAccount' /\ PunisHeld' /\ PlanStartsPass'
    BY <2>1, <2>5, <2>7 DEF PassSoFar, SessionOfAccount, PunisHeld, PlanStartsPass, InSession, Returns
  <2> QED
    BY <2>6, <2>8 DEF PassInv
<1>4. CASE \/ BeginLoop \/ ObserveStop \/ NothingUsable \/ ProxyDown \/ RetryAccount
           \/ TakeCircuitRetry \/ PassOver \/ RetryLater \/ FullRestart
  <2>1. /\ UNCHANGED <<config, planVars, tried>> /\ pc # "punis"
        /\ pc' \in {"head", "idle", "wait", "wait_pass"} \cup Ended
        /\ pc \in Running \/ pc' = "idle"
    BY <1>4 DEF BeginLoop, ObserveStop, NothingUsable, ProxyDown, RetryAccount, AtHead, Move,
       TakeCircuitRetry, PassOver, RetryLater, AtNetworkFailure, FullRestart,
       historyVars, otherVars, Running, Returns, Ended
  <2> QED
    BY <2>1, PassKept DEF InSession, Ended, Running, Returns
<1>5. CASE Connect
  <2>1. /\ UNCHANGED <<config, planVars, tried>> /\ pc = "head" /\ auth_failed' = FALSE
        /\ pc' \in {"session", "no_openvpn"} /\ account_idx \in all
    BY <1>5 DEF Connect, AtHead, Usable, otherVars, historyVars
  <2> QED
    BY <2>1, PassKept DEF InSession, Running, Returns
<1>6. CASE SessionEnds
  <2>1. /\ UNCHANGED <<config, planVars, tried, auth_failed>> /\ pc = "session"
        /\ pc' \in {"idle", "decide", "no_reconnect", "no_openvpn"}
    BY <1>6 DEF SessionEnds, otherVars, historyVars
  <2> QED
    BY <2>1, PassKept DEF PassInv, SessionOfAccount, PassSoFar, InSession, Running, Returns
<1>7. CASE QuarantineRefused
  <2>1. /\ UNCHANGED <<config, planVars, tried>> /\ pc = "decide" /\ auth_failed
        /\ pc' = "failover"
    BY <1>7 DEF QuarantineRefused, otherVars
  <2> QED
    BY <2>1, PassKept DEF PassInv, SessionOfAccount, PassSoFar, InSession, Running, Returns
<1>8. CASE Refused
  <2>1. /\ UNCHANGED <<config, planVars, pc>> /\ pc = "session" /\ tried' = tried \cup {account_idx}
    BY <1>8 DEF Refused, otherVars
  <2> QED
    BY <2>1 DEF PassInv, OrderIsPermutation, PunisHeld, PlanStartsPass, SessionOfAccount,
       PassSoFar, InSession, Planned, Accounts, planVars
<1>9. CASE Established
  <2>1. /\ UNCHANGED <<config, planVars, pc, auth_failed>> /\ pc = "session"
        /\ tried' = IF auth_failed THEN tried ELSE tried \ {account_idx}
    BY <1>9 DEF Established, otherVars
  <2>2. \A i \in DOMAIN account_order : i < account_pos => account_order[i] # account_idx
    BY DEF PlanSound, OrderNoRepeat, AccountFollowsOrder, TypeInv, TypeOK
  <2>3. \A i \in DOMAIN account_order : i < account_pos => account_order[i] \in tried'
    BY <2>1, <2>2 DEF PassInv, PassSoFar, Planned, Running, Returns
  <2> QED
    BY <2>1, <2>3 DEF PassInv, OrderIsPermutation, PunisHeld, PlanStartsPass, SessionOfAccount,
       PassSoFar, InSession, Planned, Accounts, planVars
<1>10. CASE FailoverAccount
  <2>1. /\ UNCHANGED <<config, provider_idx, account_order, libres, after, tried>>
        /\ account_pos' = account_pos + 1 /\ pc' = "head" /\ pc = "failover"
    BY <1>10 DEF FailoverAccount, AtFailover, otherVars, historyVars, PassInv, PlanStartsPass
  <2>2. account_order # <<>> /\ account_pos \in DOMAIN account_order
    BY <1>10, EmptySeq DEF FailoverAccount, MoreAccounts, PlanSound, AccountFollowsOrder,
       TypeInv, TypeOK
  <2>3. \A i \in DOMAIN account_order : i < account_pos' => account_order[i] \in tried
    <3>1. account_order[account_pos] \in tried
      BY <2>1, <2>2 DEF PassInv, PassSoFar, InSession, PlanSound, AccountFollowsOrder
    <3>2. \A i \in DOMAIN account_order : i < account_pos => account_order[i] \in tried
      BY <2>1 DEF PassInv, PassSoFar, Planned, Running
    <3>3. \A i \in DOMAIN account_order : i < account_pos + 1 => i < account_pos \/ i = account_pos
      BY DEF TypeInv, TypeOK
    <3> QED
      BY <2>1, <3>1, <3>2, <3>3
  <2> QED
    BY <2>1, <2>3 DEF PassInv, OrderIsPermutation, PunisHeld, PlanStartsPass, SessionOfAccount,
       PassSoFar, InSession, Planned, Accounts, Running, Returns
<1>11. CASE Tick
  <2>1. pc # "punis" /\ UNCHANGED <<config, planVars, pc, tried, auth_failed>>
    BY <1>11 DEF Tick, otherVars, historyVars, sessionVars
  <2> QED
    BY <2>1 DEF PassInv, OrderIsPermutation, PunisHeld, PlanStartsPass, SessionOfAccount,
       PassSoFar, InSession, Planned, Accounts, planVars
<1>12. CASE CircuitCheckEnds \/ WatchdogChecks \/ WatchdogDecides \/ UNCHANGED vars
  <2>1. UNCHANGED <<config, planVars, pc, tried, auth_failed, account_cooldown>>
    BY <1>12 DEF CircuitCheckEnds, WatchdogChecks, WatchdogDecides, vars, otherVars, historyVars, sessionVars
  <2> QED
    BY <2>1 DEF PassInv, OrderIsPermutation, PunisHeld, PlanStartsPass, SessionOfAccount,
       PassSoFar, InSession, Planned, Accounts, planVars
<1> QED
  BY <1>1, <1>2, <1>3, <1>4, <1>5, <1>6, <1>7, <1>8, <1>9, <1>10, <1>11, <1>12 DEF Next, LoopStep

\* The pass invariant holds throughout, when no quarantine ends inside a plan.
LEMMA PassAlways ==
    ASSUME ~TickInPlan
    PROVE  Spec => [](TypeInv /\ PlanSound /\ PassInv)
<1>1. Init => PassInv
  BY DEF Init, PassInv, OrderIsPermutation, PunisHeld, PlanStartsPass, SessionOfAccount,
     PassSoFar, InSession, Planned, Running, Returns
<1>2. TypeInv /\ PlanSound /\ PassInv /\ [Next]_vars => PassInv'
  BY PassStep
<1> QED
  BY <1>1, <1>2, PlanAlways, PTL DEF Spec

\* The order in use covers the list of the current provider whenever the loop
\* holds a plan: the comment of openvpn.py:112, under its tacit assumption that
\* no quarantine ends between the two comprehensions.
THEOREM PermutationCorrect ==
    ASSUME ~TickInPlan
    PROVE  Spec => []OrderIsPermutation
<1>1. PassInv => OrderIsPermutation
  BY DEF PassInv
<1> QED
  BY <1>1, PassAlways, PTL

\* At the end of the order every account of the provider was refused.
LEMMA CoveredAtEnd ==
    ASSUME TypeInv, PlanSound, PassInv, FailoverProvider
    PROVE  tried = Accounts(config, provider_idx)
<1> DEFINE all == Accounts(config, provider_idx)
<1>1. /\ pc = "failover" /\ ~MoreAccounts
      /\ Len(account_order) = config.accounts[provider_idx]
  BY DEF FailoverProvider, AtFailover, PassInv, PlanStartsPass
<1>2. account_order \in Seq(Nat \ {0}) /\ account_pos \in Nat \ {0}
  BY DEF TypeInv, TypeOK
<1>3. \A a \in all : \E i \in DOMAIN account_order : account_order[i] = a
  BY <1>1, FullOrder
<1>4. \A i \in DOMAIN account_order : i < account_pos \/ i = account_pos
  BY <1>1, <1>2 DEF MoreAccounts
<1>5. account_order # <<>> => account_order[account_pos] \in tried
  BY <1>1 DEF PlanSound, AccountFollowsOrder, PassInv, PassSoFar, InSession
<1>6. \A i \in DOMAIN account_order : i < account_pos => account_order[i] \in tried
  BY <1>1 DEF PassInv, PassSoFar, Planned, Running
<1>7. \A i \in DOMAIN account_order : account_order[i] \in tried
  BY <1>2, <1>4, <1>5, <1>6, EmptySeq
<1>8. tried \subseteq all
  BY DEF PassInv, PassSoFar
<1> QED
  BY <1>3, <1>7, <1>8

\* Refusals make the daemon leave a provider only when each of its accounts was
\* refused since it was entered (_try_failover), under the same assumption.
THEOREM PassCovers ==
    ASSUME ~TickInPlan
    PROVE  Spec => PassCoversProvider
<1>1. ASSUME TypeInv, PlanSound, PassInv, [Next]_vars, AtFailover, pc' = "punis"
      PROVE  tried = Accounts(config, provider_idx)
  <2>1. pc = "failover" /\ Len(account_order) = config.accounts[provider_idx]
    BY <1>1 DEF AtFailover, PassInv, PlanStartsPass
  <2>2. FailoverProvider
    BY <1>1, <2>1 DEF Next, LoopStep, EnterLoop, PlanAccounts, BeginLoop, ObserveStop,
       SkipProvider, NothingUsable, ProxyDown, Connect, SessionEnds, TakeCircuitRetry,
       QuarantineRefused, ReplanStale, FailoverAccount, PassOver, NewPass, RetryLater,
       RotateProvider, RetryAccount, Established, Refused, CircuitCheckEnds,
       WatchdogChecks, WatchdogDecides, FullRestart, Tick, AtHead, AtNetworkFailure,
       Move, Ended, vars
  <2> QED
    BY <1>1, <2>2, CoveredAtEnd
<1>2. TypeInv /\ PlanSound /\ PassInv /\ [Next]_vars =>
        [AtFailover /\ pc' = "punis" => tried = Accounts(config, provider_idx)]_vars
  BY <1>1
<1> QED
  BY <1>2, PassAlways, PTL DEF Spec, PassCoversProvider

\* A plan puts the accounts that are still in quarantine last (openvpn.py:107),
\* even when a quarantine ends while it is made.
THEOREM QuarantinedLastCorrect == Spec => QuarantinedLast
<1>1. ASSUME TypeInv, PlanAccounts, NEW i \in DOMAIN account_order', NEW j \in DOMAIN account_order',
             i < j, account_cooldown[<<provider_idx, account_order'[i]>>] > 0
      PROVE  account_cooldown[<<provider_idx, account_order'[j]>>] > 0
  <2> DEFINE held == Punis(config, provider_idx, account_cooldown)
  <2>1. PICK o \in OrdersOf(libres, held, config.random_account) : account_order' = o
    BY <1>1 DEF PlanAccounts
  <2>2. \A k, l \in DOMAIN o : k < l /\ o[k] \in held => o[l] \in held
    BY <1>1, <2>1, PlannedOrder DEF PlanAccounts
  <2>3. \A k \in DOMAIN o : o[k] \in Accounts(config, provider_idx)
    BY <1>1, <2>1, PlannedOrder DEF PlanAccounts
  <2>4. \A a \in Accounts(config, provider_idx) :
           a \in held <=> account_cooldown[<<provider_idx, a>>] > 0
    BY DEF Punis
  <2> HIDE DEF held
  <2> QED
    BY <1>1, <2>1, <2>2, <2>3, <2>4
<1>2. TypeInv /\ [Next]_vars =>
        [PlanAccounts =>
         \A i, j \in DOMAIN account_order' :
            /\ i < j
            /\ account_cooldown[<<provider_idx, account_order'[i]>>] > 0
            => account_cooldown[<<provider_idx, account_order'[j]>>] > 0]_vars
  BY <1>1
<1> QED
  BY <1>2, PlanAlways, PTL DEF Spec, QuarantinedLast
-----------------------------------------------------------------------------
(* A refused account is left alone, when there is no circuit check either  *)

\* The account of the attempt to come, or of the running one until its refusal,
\* was not refused in this pass, and neither was any account after it.
AccountIsFresh ==
    \/ pc \in {"enter", "head", "wait"}
    \/ pc \in {"session", "decide"} /\ ~auth_failed
    => account_idx \notin tried
AheadIsFresh ==
    Planned => \A i \in DOMAIN account_order : i > account_pos => account_order[i] \notin tried

RetryInv == ~circuit_retry /\ ~checking /\ AccountIsFresh /\ AheadIsFresh

\* Steps that keep the plan and the history, and attempt nothing new.
LEMMA RetryKept ==
    ASSUME RetryInv, pc # "punis", UNCHANGED <<planVars, tried>>,
           ~circuit_retry', ~checking',
           pc' \in Running => pc \in Running,
           \/ pc' \in {"enter", "head", "wait"} /\ pc \in {"enter", "head", "wait"}
           \/ pc' \in {"session", "wait", "decide"} /\ account_idx \notin tried
           \/ pc' \in {"session", "decide"} /\ auth_failed'
           \/ pc' \notin {"enter", "head", "wait", "session", "decide"}
    PROVE  RetryInv'
  BY DEF RetryInv, AccountIsFresh, AheadIsFresh, Planned, planVars

\* Every step keeps it: the only way back to a refused account is a new plan,
\* which starts a new pass.
LEMMA RetryStep ==
    ASSUME ~TickInPlan, ~CircuitCheck, TypeInv, PlanSound, PassInv, RetryInv, [Next]_vars
    PROVE  RetryInv'
<1>1. CASE EnterLoop \/ SkipProvider \/ FailoverProvider \/ NewPass \/ RotateProvider
  BY <1>1 DEF EnterLoop, SkipProvider, FailoverProvider, NewPass, RotateProvider, EnterProvider,
     CallPlan, checkVars, RetryInv, AccountIsFresh, AheadIsFresh, Planned
<1>2. CASE ReplanStale
  BY <1>2 DEF ReplanStale, PassInv, OrderIsPermutation, Running
<1>3. CASE PlanAccounts
  <2>1. tried' = {} /\ UNCHANGED <<circuit_retry, checking>>
    BY <1>3 DEF PlanAccounts, PassInv, PlanStartsPass, historyVars, checkVars
  <2> QED
    BY <2>1 DEF RetryInv, AccountIsFresh, AheadIsFresh
<1>4. CASE \/ BeginLoop \/ ObserveStop \/ NothingUsable \/ ProxyDown \/ RetryAccount
           \/ PassOver \/ FullRestart
  <2>1. /\ UNCHANGED <<planVars, tried>> /\ pc # "punis" /\ ~circuit_retry' /\ ~checking'
        /\ \/ pc' = "head" /\ pc \in {"enter", "wait"}
           \/ pc' \in {"idle", "wait_pass"} \cup Ended
        /\ pc \in Running \/ pc' = "idle"
    BY <1>4 DEF BeginLoop, ObserveStop, NothingUsable, ProxyDown, RetryAccount, AtHead, Move,
       PassOver, FullRestart, historyVars, checkVars, Running, Returns, Ended, RetryInv
  <2> QED
    BY <2>1, RetryKept DEF Ended, Running, Returns
<1>5. CASE Connect
  <2>1. /\ UNCHANGED <<planVars, tried>> /\ pc = "head" /\ ~circuit_retry' /\ ~checking'
        /\ pc' \in {"session", "no_openvpn"}
    BY <1>5 DEF Connect, AtHead, historyVars, checkVars, RetryInv
  <2>2. account_idx \notin tried
    BY <2>1 DEF RetryInv, AccountIsFresh
  <2> QED
    BY <2>1, <2>2, RetryKept DEF Running, Returns
<1>6. CASE SessionEnds
  <2>1. /\ UNCHANGED <<planVars, tried, auth_failed>> /\ pc = "session"
        /\ ~circuit_retry' /\ ~checking'
        /\ pc' \in {"idle", "decide", "no_reconnect", "no_openvpn"}
    BY <1>6 DEF SessionEnds, historyVars, checkVars, RetryInv
  <2>2. auth_failed' \/ account_idx \notin tried
    BY <2>1 DEF RetryInv, AccountIsFresh
  <2> QED
    BY <2>1, <2>2, RetryKept DEF Running, Returns
<1>7. CASE TakeCircuitRetry
  BY <1>7 DEF TakeCircuitRetry, RetryInv
<1>8. CASE QuarantineRefused
  BY <1>8, RetryKept DEF QuarantineRefused, checkVars, RetryInv, Running
<1>9. CASE RetryLater
  <2>1. /\ UNCHANGED <<planVars, tried>> /\ pc = "decide" /\ ~auth_failed
        /\ ~circuit_retry' /\ ~checking' /\ pc' \in {"wait", "unreachable"}
    BY <1>9 DEF RetryLater, AtNetworkFailure, checkVars, RetryInv
  <2>2. account_idx \notin tried
    BY <2>1 DEF RetryInv, AccountIsFresh
  <2> QED
    BY <2>1, <2>2, RetryKept DEF Running
<1>10. CASE Refused
  <2>1. /\ UNCHANGED <<planVars, pc, circuit_retry, checking>> /\ pc = "session" /\ auth_failed'
        /\ tried' = tried \cup {account_idx}
    BY <1>10 DEF Refused, checkVars
  <2>2. \A i \in DOMAIN account_order : i > account_pos => account_order[i] # account_idx
    BY DEF PlanSound, OrderNoRepeat, AccountFollowsOrder, TypeInv, TypeOK
  <2> QED
    BY <2>1, <2>2 DEF RetryInv, AccountIsFresh, AheadIsFresh, Planned, planVars
<1>11. CASE Established
  <2>1. /\ UNCHANGED <<planVars, pc, auth_failed, circuit_retry>> /\ pc = "session" /\ ~checking'
        /\ tried' = IF auth_failed THEN tried ELSE tried \ {account_idx}
    BY <1>11 DEF Established
  <2> QED
    BY <2>1 DEF RetryInv, AccountIsFresh, AheadIsFresh, Planned, planVars
<1>12. CASE FailoverAccount
  <2>1. /\ UNCHANGED <<account_order, tried, circuit_retry, checking>> /\ pc = "failover"
        /\ pc' = "head" /\ account_pos' = account_pos + 1
        /\ account_idx' = account_order[account_pos + 1]
    BY <1>12 DEF FailoverAccount, AtFailover, NextAccount, PassInv, PlanStartsPass,
       historyVars, checkVars
  <2>2. account_pos \in Nat \ {0} /\ account_order \in Seq(Nat \ {0})
    BY DEF TypeInv, TypeOK
  <2>3. \A i \in DOMAIN account_order : i > account_pos => account_order[i] \notin tried
    BY <2>1 DEF RetryInv, AheadIsFresh, Planned, Running
  <2>4. account_pos + 1 \in DOMAIN account_order
    BY <1>12, <2>2 DEF FailoverAccount, MoreAccounts
  <2>5. account_idx' \notin tried'
    BY <2>1, <2>2, <2>3, <2>4
  <2>6. \A i \in DOMAIN account_order' : i > account_pos' => account_order'[i] \notin tried'
    BY <2>1, <2>2, <2>3
  <2> QED
    BY <2>1, <2>5, <2>6 DEF RetryInv, AccountIsFresh, AheadIsFresh
<1>13. CASE \/ WatchdogChecks \/ WatchdogDecides \/ Tick \/ CircuitCheckEnds \/ UNCHANGED vars
  <2>1. UNCHANGED <<planVars, pc, tried, auth_failed, circuit_retry, checking>>
    BY <1>13 DEF WatchdogChecks, WatchdogDecides, Tick, CircuitCheckEnds, vars, historyVars,
       sessionVars, checkVars, RetryInv
  <2> QED
    BY <2>1 DEF RetryInv, AccountIsFresh, AheadIsFresh, Planned, planVars
<1> QED
  BY <1>1, <1>2, <1>3, <1>4, <1>5, <1>6, <1>7, <1>8, <1>9, <1>10, <1>11, <1>12, <1>13
     DEF Next, LoopStep

\* After a refusal the daemon goes on to other accounts before it comes back to
\* one (_try_failover), without the circuit check, whose new draw keeps the
\* account, and under the assumption of the theorems above.
THEOREM RefusedNotRetriedCorrect ==
    ASSUME ~TickInPlan, ~CircuitCheck
    PROVE  Spec => []RefusedNotRetried
<1>1. Init => RetryInv
  BY DEF Init, RetryInv, AccountIsFresh, AheadIsFresh, Planned, Running, Returns
<1>2. TypeInv /\ PlanSound /\ PassInv /\ RetryInv /\ [Next]_vars => RetryInv'
  BY RetryStep
<1>3. RetryInv => RefusedNotRetried
  BY DEF RetryInv, AccountIsFresh, RefusedNotRetried
<1> QED
  BY <1>1, <1>2, <1>3, PassAlways, PTL DEF Spec

\* Together: a pass goes through each account of the provider, and through none
\* twice.
THEOREM EachAccountOnceCorrect ==
    ASSUME ~TickInPlan, ~CircuitCheck
    PROVE  Spec => []EachAccountOnce
  BY PermutationCorrect, RefusedNotRetriedCorrect, PTL DEF EachAccountOnce

-----------------------------------------------------------------------------
(* The budget of the loop                                                  *)

\* A tuple of four numbers goes down when one does and those before it stay.
LEMMA BelowFour ==
    ASSUME NEW a, NEW b, DOMAIN a = 1 .. 4,
           \/ a[1] < b[1]
           \/ a[1] = b[1] /\ a[2] < b[2]
           \/ a[1] = b[1] /\ a[2] = b[2] /\ a[3] < b[3]
           \/ a[1] = b[1] /\ a[2] = b[2] /\ a[3] = b[3] /\ a[4] < b[4]
    PROVE  Below(a, b)
<1>1. PICK i \in 1 .. 4 : a[i] < b[i] /\ \A j \in 1 .. 4 : j < i => a[j] = b[j]
  OBVIOUS
<1>2. \A j \in 1 .. i - 1 : j \in 1 .. 4 /\ j < i
  OBVIOUS
<1> QED
  BY <1>1, <1>2 DEF Below

\* A budget of naturals is not spent for ever: the order of Lexicographic has
\* no endless descent.
LEMMA BudgetRunsOut ==
    ASSUME NEW n \in Nat, NEW f \in [Nat -> [1 .. n -> Nat]]
    PROVE  \E i \in Nat : ~Below(f[i + 1], f[i])
<1> DEFINE L == OpToRel(<, Nat)
           R == LexProductOrdering(L, Nat, n)
<1>1. IsWellFoundedOn(R, [1 .. n -> Nat])
  <2>1. IsWellFoundedOn(L, Nat)
    BY NatLessThanWellFounded
  <2> QED
    BY <2>1, WFLexProductOrdering
<1>2. PICK i \in Nat : <<f[i + 1], f[i]>> \notin R
  BY <1>1 DEF IsWellFoundedOn
<1>3. f[i] \in [1 .. n -> Nat] /\ f[i + 1] \in [1 .. n -> Nat]
  OBVIOUS
<1>4. ASSUME Below(f[i + 1], f[i])
      PROVE  FALSE
  <2>1. PICK k \in 1 .. n : /\ f[i + 1][k] < f[i][k]
                            /\ \A j \in 1 .. k - 1 : f[i + 1][j] = f[i][j]
    BY <1>3, <1>4 DEF Below
  <2>2. f[i + 1][k] \in Nat /\ f[i][k] \in Nat
    BY <1>3
  <2>3. <<f[i + 1][k], f[i][k]>> \in L
    BY <2>1, <2>2 DEF OpToRel
  <2> QED
    BY <1>2, <1>3, <2>1, <2>3 DEF LexProductOrdering
<1> QED
  BY <1>4

\* The third place of Budget.
AttemptsLeft == AccountsLeft + RetriesLeft + CircuitsLeft

\* The budget is one of naturals wherever the loop runs.
LEMMA BudgetType ==
    ASSUME TypeInv, pc \in Running
    PROVE  /\ PassesLeft \in Nat /\ ProvidersLeft \in Nat /\ AttemptEnd \in Nat
           /\ AccountsLeft \in Nat /\ RetriesLeft \in Nat
           /\ CircuitsLeft \in Nat /\ AttemptsLeft \in Nat
<1>1. /\ LastProvider \in Nat /\ provider_idx \in 1 .. LastProvider
      /\ config.accounts[provider_idx] \in Nat
  BY ConfigFacts DEF TypeInv, TypeOK, LastProvider
<1>2. reconnect_count \in 0 .. RECONNECT_MAX /\ RECONNECT_MAX \in Nat
  BY Bounds DEF TypeInv, TypeOK, CountBound, Running, Returns
<1>3. PassesLeft \in Nat
  BY BoundsAssumption DEF PassesLeft, TypeInv, TypeOK
<1>4. ProvidersLeft \in Nat
  BY <1>1 DEF ProvidersLeft
<1>5. AttemptEnd \in Nat
  BY DEF AttemptEnd
<1>6. AccountsLeft \in Nat
  BY <1>1 DEF AccountsLeft, MoreAccounts, TypeInv, TypeOK
<1>7. RetriesLeft \in Nat
  BY <1>2 DEF RetriesLeft
<1>8. CircuitsLeft \in Nat
  BY DEF CircuitsLeft, TypeInv, TypeOK
<1> QED
  BY <1>2, <1>3, <1>4, <1>5, <1>6, <1>7, <1>8 DEF AttemptsLeft

\* A sum of three goes down with any of its terms, when none of them goes up.
LEMMA SumDown ==
    ASSUME NEW a \in Nat, NEW b \in Nat, NEW c \in Nat,
           NEW x \in Nat, NEW y \in Nat, NEW z \in Nat,
           x <= a, y <= b, z <= c
    PROVE  /\ x + y + z < a + b + c \/ x + y + z = a + b + c
           /\ x < a \/ y < b \/ z < c => x + y + z < a + b + c
<1>1. x + y + z <= a + b + c
  OBVIOUS
<1>2. x < a \/ y < b \/ z < c => x + y + z < a + b + c
  OBVIOUS
<1>3. x + y + z \in Nat /\ a + b + c \in Nat
  OBVIOUS
<1> QED
  BY <1>1, <1>2, <1>3

\* What is left of the attempts follows what is left of each of their kinds.
LEMMA AttemptsSum ==
    ASSUME AccountsLeft \in Nat, RetriesLeft \in Nat, CircuitsLeft \in Nat,
           AccountsLeft' \in Nat, RetriesLeft' \in Nat, CircuitsLeft' \in Nat,
           AccountsLeft' <= AccountsLeft, RetriesLeft' <= RetriesLeft,
           CircuitsLeft' <= CircuitsLeft
    PROVE  /\ AttemptsLeft' < AttemptsLeft \/ AttemptsLeft' = AttemptsLeft
           /\ \/ AccountsLeft' < AccountsLeft
              \/ RetriesLeft' < RetriesLeft
              \/ CircuitsLeft' < CircuitsLeft
              => AttemptsLeft' < AttemptsLeft
<1>1. AttemptsLeft = AccountsLeft + RetriesLeft + CircuitsLeft
  BY DEF AttemptsLeft
<1>2. AttemptsLeft' = AccountsLeft' + RetriesLeft' + CircuitsLeft'
  BY DEF AttemptsLeft
<1> QED
  BY <1>1, <1>2, SumDown

\* The ways a step of the loop spends: one place goes down, the dearer ones stay.
LEMMA Spent ==
    ASSUME \/ PassesLeft' < PassesLeft
           \/ PassesLeft' = PassesLeft /\ ProvidersLeft' < ProvidersLeft
           \/ /\ PassesLeft' = PassesLeft /\ ProvidersLeft' = ProvidersLeft
              /\ AttemptsLeft' < AttemptsLeft
           \/ /\ PassesLeft' = PassesLeft /\ ProvidersLeft' = ProvidersLeft
              /\ AttemptsLeft' = AttemptsLeft /\ AttemptEnd' < AttemptEnd
    PROVE  Below(Budget', Budget)
<1>1. /\ DOMAIN Budget' = 1 .. 4
      /\ Budget'[1] = PassesLeft' /\ Budget'[2] = ProvidersLeft'
      /\ Budget'[3] = AttemptsLeft' /\ Budget'[4] = AttemptEnd'
      /\ Budget[1] = PassesLeft /\ Budget[2] = ProvidersLeft
      /\ Budget[3] = AttemptsLeft /\ Budget[4] = AttemptEnd
  BY DEF Budget, AttemptsLeft
<1> QED
  BY <1>1, BelowFour

\* Every step between two points of the loop, without a new tunnel, spends.
LEMMA BudgetStep ==
    ASSUME ~TickInPlan, TypeInv, PlanSound, PassInv, [Next]_vars,
           {pc, pc'} \subseteq Running, tunnel_up' => tunnel_up
    PROVE  Below(Budget', Budget) \/ (pc' = pc /\ Budget' = Budget)
<1>a. /\ pc \in Running /\ pc' \in Running
      /\ LastProvider \in Nat /\ provider_idx \in 1 .. LastProvider
      /\ config.accounts[provider_idx] \in Nat
      /\ account_order \in Seq(Nat \ {0}) /\ account_pos \in Nat \ {0}
      /\ Len(account_order) \in Nat
      /\ auth_passes \in Nat /\ AUTH_PASS_MAX \in Nat /\ RECONNECT_MAX \in Nat
      /\ circuit_retry \in BOOLEAN /\ checking \in BOOLEAN
  BY ConfigFacts, BoundsAssumption DEF TypeInv, TypeOK, LastProvider
<1>b. reconnect_count \in 0 .. RECONNECT_MAX
  BY <1>a DEF TypeInv, TypeOK, CountBound, Running, Returns
<1>c. pc # "advance" /\ after # "advance"
  BY DEF PassInv, PlanStartsPass
<1>d. AccountsLeft \in Nat /\ RetriesLeft \in Nat /\ CircuitsLeft \in Nat
  BY BudgetType
<1> USE <1>a, <1>b, <1>c
\* Steps to another provider.
<1>1. ASSUME NEW p \in 1 .. LastProvider, CallPlan(p, "head"), auth_passes' = auth_passes,
             \/ pc = "wait_pass"
             \/ pc \in {"head", "failover", "decide"} /\ p = provider_idx + 1
      PROVE  Below(Budget', Budget)
  <2>1. PassesLeft' = PassesLeft
    BY <1>1 DEF PassesLeft
  <2>2. ProvidersLeft' = LastProvider - p + 1
    BY <1>1 DEF CallPlan, ProvidersLeft, PlanFor, otherVars, LastProvider
  <2>3. ProvidersLeft' < ProvidersLeft
    BY <1>1, <2>2 DEF ProvidersLeft, PlanFor
  <2> QED
    BY <2>1, <2>3, Spent
<1>2. CASE SkipProvider
  BY <1>1, <1>2 DEF SkipProvider, AtHead, EnterProvider, countVars
<1>3. CASE NewPass
  BY <1>1, <1>3 DEF NewPass, EnterProvider, countVars
<1>4. CASE RotateProvider
  BY <1>1, <1>4 DEF RotateProvider, AtNetworkFailure
<1>5. CASE FailoverProvider
  <2>1. CASE provider_idx < LastProvider
    BY <1>1, <1>5, <2>1 DEF FailoverProvider, AtFailover, EnterProvider, countVars
  <2>2. CASE ~(provider_idx < LastProvider)
    <3>1. pc = "failover" /\ CallPlan(1, "exhausted") /\ auth_passes' = auth_passes
      BY <1>5, <2>2 DEF FailoverProvider, AtFailover, EnterProvider, countVars
    <3>2. PassesLeft' = PassesLeft /\ ProvidersLeft' = 0 /\ ProvidersLeft > 0
      BY <3>1 DEF PassesLeft, CallPlan, ProvidersLeft, PlanFor
    <3> QED
      BY <3>2, Spent
  <2> QED
    BY <2>1, <2>2
\* The end of a pass.
<1>6. CASE PassOver
  <2>1. auth_passes' = auth_passes + 1 /\ auth_passes + 1 < AUTH_PASS_MAX
    BY <1>6 DEF PassOver, Passes, Running, Returns
  <2> QED
    BY <2>1, Spent DEF PassesLeft
\* The order of a plan is no longer than the list.
<1>7. CASE PlanAccounts
  <2>1. /\ pc = "punis" /\ pc' = after /\ pc' \in {"enter", "head", "exhausted"}
        /\ after' = "head" /\ account_pos' = 1
        /\ UNCHANGED <<config, provider_idx, countVars, checkVars>>
    BY <1>7 DEF PlanAccounts, otherVars, TypeInv, TypeOK, Returns
  <2>2. Len(account_order') = config.accounts[provider_idx]
    BY <2>1, PassStep DEF PassInv, OrderIsPermutation
  <2>3. PassesLeft' = PassesLeft /\ ProvidersLeft' = ProvidersLeft
    BY <2>1 DEF PassesLeft, ProvidersLeft, PlanFor, LastProvider, countVars
  <2>4. RetriesLeft' = RetriesLeft /\ CircuitsLeft' = CircuitsLeft
    BY <2>1 DEF RetriesLeft, CircuitsLeft, PlanFor, countVars, checkVars
  <2>5. AccountsLeft \in Nat /\ AccountsLeft' \in Nat /\ AccountsLeft' < AccountsLeft
    BY <2>1, <2>2 DEF AccountsLeft, MoreAccounts
  <2>6. AttemptsLeft' < AttemptsLeft
    BY <1>d, <2>4, <2>5, AttemptsSum
  <2> QED
    BY <2>3, <2>6, Spent
\* Steps that keep the plan: what is left of the attempt, or of the attempts.
<1>8. ASSUME pc \notin {"punis", "wait_pass", "exhausted"},
             pc' \notin {"punis", "wait_pass", "exhausted"},
             UNCHANGED <<config, provider_idx, account_order, auth_passes>>,
             \/ AttemptsLeft' < AttemptsLeft
             \/ AttemptsLeft' = AttemptsLeft /\ AttemptEnd' < AttemptEnd
      PROVE  Below(Budget', Budget)
  <2>1. PassesLeft' = PassesLeft /\ ProvidersLeft' = ProvidersLeft
    BY <1>8 DEF PassesLeft, ProvidersLeft, PlanFor, LastProvider
  <2> QED
    BY <1>8, <2>1, Spent
<1>9. CASE BeginLoop
  <2>1. /\ pc = "enter" /\ pc' = "head" /\ reconnect_count' = 0 /\ circuit_retry' = FALSE
        /\ UNCHANGED <<config, provider_idx, account_order, account_pos, auth_passes, checking>>
    BY <1>9 DEF BeginLoop, planVars, otherVars
  <2>2. AccountsLeft' = AccountsLeft /\ RetriesLeft' = RetriesLeft
    BY <2>1 DEF AccountsLeft, RetriesLeft, MoreAccounts, PlanFor
  <2>3. CircuitsLeft' \in Nat /\ CircuitsLeft' <= CircuitsLeft
    BY <2>1 DEF CircuitsLeft
  <2>4. AttemptsLeft' < AttemptsLeft \/ AttemptsLeft' = AttemptsLeft
    BY <1>d, <2>2, <2>3, AttemptsSum
  <2>5. AttemptEnd' < AttemptEnd
    BY <2>1 DEF AttemptEnd
  <2> QED
    BY <1>8, <2>1, <2>4, <2>5
<1>10. CASE Connect \/ SessionEnds \/ QuarantineRefused \/ RetryAccount
  <2>1. /\ <<pc, pc'>> \in {<<"head", "session">>, <<"session", "decide">>,
                            <<"decide", "failover">>, <<"wait", "head">>}
        /\ UNCHANGED <<config, planVars, countVars, checkVars>>
    BY <1>10 DEF Connect, AtHead, SessionEnds, QuarantineRefused, RetryAccount, Move, otherVars,
       Running, Returns
  <2>2. AttemptsLeft' = AttemptsLeft
    BY <2>1 DEF AttemptsLeft, AccountsLeft, RetriesLeft, CircuitsLeft, MoreAccounts, PlanFor,
       planVars, countVars, checkVars
  <2>3. AttemptEnd' < AttemptEnd
    BY <2>1 DEF AttemptEnd
  <2> QED
    BY <1>8, <2>1, <2>2, <2>3 DEF planVars, countVars
<1>11. CASE TakeCircuitRetry
  <2>1. /\ pc = "decide" /\ pc' = "head" /\ circuit_retry = TRUE /\ circuit_retry' = FALSE
        /\ UNCHANGED <<config, planVars, countVars, checking>>
    BY <1>11 DEF TakeCircuitRetry, otherVars
  <2>2. AccountsLeft' = AccountsLeft /\ RetriesLeft' = RetriesLeft
    BY <2>1 DEF AccountsLeft, RetriesLeft, MoreAccounts, PlanFor, planVars, countVars
  <2>3. CircuitsLeft' \in Nat /\ CircuitsLeft' < CircuitsLeft
    BY <2>1 DEF CircuitsLeft
  <2>4. AttemptsLeft' < AttemptsLeft
    BY <1>d, <2>2, <2>3, AttemptsSum
  <2> QED
    BY <1>8, <2>1, <2>4 DEF planVars, countVars
<1>12. CASE FailoverAccount
  <2>1. /\ pc = "failover" /\ pc' = "head" /\ MoreAccounts /\ account_pos' = account_pos + 1
        /\ UNCHANGED <<config, provider_idx, account_order, countVars, checkVars>>
    BY <1>12 DEF FailoverAccount, AtFailover, otherVars
  <2>2. CircuitsLeft' = CircuitsLeft /\ RetriesLeft' = RetriesLeft
    BY <2>1 DEF CircuitsLeft, RetriesLeft, PlanFor, countVars, checkVars
  <2>3. AccountsLeft' \in Nat /\ AccountsLeft' < AccountsLeft
    BY <2>1 DEF AccountsLeft, MoreAccounts
  <2>4. AttemptsLeft' < AttemptsLeft
    BY <1>d, <2>2, <2>3, AttemptsSum
  <2> QED
    BY <1>8, <2>1, <2>4 DEF countVars
<1>13. CASE RetryLater
  <2>1. /\ pc = "decide" /\ pc' = "wait"
        /\ reconnect_count' = reconnect_count + 1 /\ reconnect_count + 1 <= RECONNECT_MAX
        /\ UNCHANGED <<config, planVars, auth_passes, checkVars>>
    BY <1>13 DEF RetryLater, AtNetworkFailure, NetworkFailures, otherVars, Running, Returns
  <2>2. AccountsLeft' = AccountsLeft /\ CircuitsLeft' = CircuitsLeft
    BY <2>1 DEF AccountsLeft, CircuitsLeft, MoreAccounts, planVars, checkVars
  <2>3. RetriesLeft' \in Nat /\ RetriesLeft' < RetriesLeft
    BY <2>1 DEF RetriesLeft, PlanFor
  <2>4. AttemptsLeft' < AttemptsLeft
    BY <1>d, <2>2, <2>3, AttemptsSum
  <2> QED
    BY <1>8, <2>1, <2>4 DEF planVars
\* Steps of the other threads.
<1>14. CASE CircuitCheckEnds
  <2>1. /\ checking = TRUE /\ checking' = FALSE /\ circuit_retry' \in BOOLEAN
        /\ UNCHANGED <<config, planVars, countVars, pc>>
    BY <1>14 DEF CircuitCheckEnds, otherVars
  <2>2. /\ PassesLeft' = PassesLeft /\ ProvidersLeft' = ProvidersLeft
        /\ AccountsLeft' = AccountsLeft /\ RetriesLeft' = RetriesLeft
    BY <2>1 DEF PassesLeft, ProvidersLeft, AccountsLeft, RetriesLeft, MoreAccounts, PlanFor,
       LastProvider, planVars, countVars
  <2>3. CircuitsLeft' \in Nat /\ CircuitsLeft' < CircuitsLeft
    BY <2>1 DEF CircuitsLeft
  <2>4. AttemptsLeft' < AttemptsLeft
    BY <1>d, <2>2, <2>3, AttemptsSum
  <2> QED
    BY <2>2, <2>4, Spent
<1>15. CASE Refused \/ WatchdogChecks \/ WatchdogDecides \/ Tick \/ UNCHANGED vars
  <2>1. UNCHANGED <<config, planVars, countVars, checkVars, pc>>
    BY <1>15 DEF Refused, WatchdogChecks, WatchdogDecides, Tick, vars, otherVars
  <2>2. Budget' = Budget
    BY <2>1 DEF Budget, PassesLeft, ProvidersLeft, AccountsLeft, RetriesLeft, CircuitsLeft,
       AttemptEnd, MoreAccounts, PlanFor, LastProvider, planVars, countVars, checkVars
  <2> QED
    BY <2>1, <2>2
\* Steps into or out of the loop, a tunnel, and a plan inside _try_failover.
<1>16. CASE \/ EnterLoop \/ ObserveStop \/ NothingUsable \/ ProxyDown \/ FullRestart
            \/ Established \/ ReplanStale
  BY <1>16 DEF EnterLoop, ObserveStop, NothingUsable, ProxyDown, FullRestart, Move, Established,
     ReplanStale, PassInv, OrderIsPermutation, Running, Returns, Ended
<1> QED
  BY <1>2, <1>3, <1>4, <1>5, <1>6, <1>7, <1>9, <1>10, <1>11, <1>12, <1>13, <1>14, <1>15, <1>16
     DEF Next, LoopStep

\* Without a tunnel the loop spends a finite budget (the while loop of
\* _openvpn_loop_body with _try_failover, _auth_passes and
\* _reconnect_vpn_count), when no quarantine ends inside a plan: with
\* BudgetRunsOut, it takes finitely many steps before a tunnel or its end.
THEOREM LoopSpendsCorrect ==
    ASSUME ~TickInPlan
    PROVE  Spec => LoopSpends
<1>1. ASSUME TypeInv, PlanSound, PassInv, [Next]_vars, {pc, pc'} \subseteq Running,
             tunnel_up' => tunnel_up
      PROVE  AllNat(Budget) /\ (Below(Budget', Budget) \/ (pc' = pc /\ Budget' = Budget))
  <2>1. /\ DOMAIN Budget = 1 .. 4
        /\ Budget[1] = PassesLeft /\ Budget[2] = ProvidersLeft
        /\ Budget[3] = AttemptsLeft /\ Budget[4] = AttemptEnd
    BY DEF Budget, AttemptsLeft
  <2>2. \A i \in DOMAIN Budget : Budget[i] \in Nat
    BY <1>1, <2>1, BudgetType
  <2> QED
    BY <1>1, <2>2, BudgetStep DEF AllNat
<1>2. TypeInv /\ PlanSound /\ PassInv /\ [Next]_vars =>
        [{pc, pc'} \subseteq Running /\ (tunnel_up' => tunnel_up) =>
            /\ AllNat(Budget)
            /\ Below(Budget', Budget) \/ (pc' = pc /\ Budget' = Budget)]_vars
  BY <1>1
<1> QED
  BY <1>2, PassAlways, PTL DEF Spec, LoopSpends
=============================================================================
