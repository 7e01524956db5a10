------------------------- MODULE CircuitCheckProofs -------------------------
(* Proofs about the quality check of the circuit. *)
EXTENDS CircuitCheck, FiniteSetTheorems, TLAPS

\* The place of a check, and the process it holds, have their types.
LEMMA CheckTyped ==
    ASSUME NEW at \in CheckStates, NEW p \in 0 .. MaxTunnels
    PROVE  [at |-> at, proc |-> p] \in CheckType
  BY DEF CheckType

\* A check that moves keeps its type.
LEMMA MoveTyped ==
    ASSUME TypeOK, NEW t \in Tunnels, NEW at \in CheckStates, At(t, at)
    PROVE  check' \in [Tunnels -> CheckType]
  BY DEF TypeOK, At, CheckType

\* A step of the loop keeps the types.
LEMMA LoopType == TypeOK /\ LoopStep => TypeOK'
<1> SUFFICES ASSUME TypeOK, LoopStep PROVE TypeOK'
  OBVIOUS
<1> USE CircuitCheckAssumption DEF TypeOK, LoopStates, circuitVars
<1>1. CASE Connect
  <2>1. proc + 1 \in Tunnels /\ proc' = proc + 1
    BY <1>1 DEF Connect, Tunnels
  <2>2. proc' \in 0 .. MaxTunnels /\ alive' \subseteq Tunnels
    BY <1>1, <2>1 DEF Connect, Tunnels
  <2> QED
    BY <1>1, <2>2 DEF Connect
<1>2. CASE Established
  <2>1. 0 \in 0 .. MaxTunnels
    OBVIOUS
  <2> QED
    BY <1>2, <2>1 DEF Established
<1>3. CASE StartCheck
  <2>1. [at |-> "wait", proc |-> 0] \in CheckType
    BY CheckTyped DEF CheckStates
  <2>2. check' \in [Tunnels -> CheckType]
    BY <1>3, <2>1 DEF StartCheck
  <2> QED
    BY <1>3, <2>2 DEF StartCheck
<1>4. CASE SessionEnds \/ Decide \/ ObserveStop
  BY <1>4 DEF SessionEnds, Decide, ObserveStop
<1> QED
  BY <1>1, <1>2, <1>3, <1>4 DEF LoopStep

\* A step of a check keeps the types: the attempts are compared with MaxTry in the
\* step that counts one more.
LEMMA CheckStepType ==
    ASSUME TypeOK, NEW t \in Tunnels, CheckStep(t)
    PROVE  TypeOK'
<1>1. check' \in [Tunnels -> CheckType]
  <2>1. CASE Wake(t)
    <3>1. /\ [at |-> "measure", proc |-> proc] \in CheckType
          /\ [at |-> "over", proc |-> 0] \in CheckType
      BY CircuitCheckAssumption, CheckTyped DEF TypeOK, CheckStates
    <3> QED
      BY <2>1, <3>1 DEF Wake, TypeOK
  <2>2. CASE ~Wake(t)
    <3>1. PICK at \in CheckStates : At(t, at)
      BY <2>2 DEF CheckStep, Abandon, GoodCircuit, KeepSlow, DrawAgain, NewTorCircuit,
                  RaiseRetry, Terminate, CheckStates
    <3> QED
      BY <3>1, MoveTyped
  <2> QED
    BY <2>1, <2>2
<1>2. kbs' \in 0 .. MaxTunnels
  <2>1. check[t].proc \in 0 .. MaxTunnels
    BY DEF TypeOK, CheckType
  <2> QED
    BY <2>1 DEF TypeOK, CheckStep, Wake, Abandon, GoodCircuit, KeepSlow, DrawAgain,
                NewTorCircuit, RaiseRetry, Terminate, Measured, circuitVars
<1>3. attempts' \in 0 .. MaxTry
  <2>1. CASE DrawAgain(t)
    BY <2>1, CircuitCheckAssumption DEF DrawAgain, TriesLeft, OneMoreAttempt, TypeOK
  <2>2. CASE GoodCircuit(t)
    BY <2>2, CircuitCheckAssumption DEF GoodCircuit
  <2>3. CASE attempts' = attempts
    BY <2>3 DEF TypeOK
  <2> QED
    BY <2>1, <2>2, <2>3 DEF CheckStep, Wake, Abandon, KeepSlow, NewTorCircuit, RaiseRetry,
                            Terminate, circuitVars
<1>4. /\ UNCHANGED <<loop, proc, up, stop, cuts>>
      /\ alive' \subseteq alive /\ retry' \in {retry, TRUE}
  BY DEF CheckStep, Wake, Abandon, GoodCircuit, KeepSlow, DrawAgain, NewTorCircuit,
         RaiseRetry, Terminate, loopVars, circuitVars
<1> QED
  BY <1>1, <1>2, <1>3, <1>4 DEF TypeOK

\* Every step keeps the types.
LEMMA TypeStep == TypeOK /\ [Next]_vars => TypeOK'
<1> SUFFICES ASSUME TypeOK, [Next]_vars PROVE TypeOK'
  OBVIOUS
<1> USE CircuitCheckAssumption DEF TypeOK, LoopStates, loopVars, circuitVars
<1>1. CASE Cut \/ StopVpn
  <2>1. cuts' \in 0 .. MaxCuts
    BY <1>1 DEF Cut, StopVpn
  <2> QED
    BY <1>1, <2>1 DEF Cut, StopVpn
<1>2. CASE StopOpenvpn
  BY <1>2 DEF StopOpenvpn
<1>3. CASE Restart
  <2>1. 0 \in 0 .. MaxTry
    OBVIOUS
  <2> QED
    BY <1>3, <2>1 DEF Restart
<1>4. CASE UNCHANGED vars
  BY <1>4 DEF vars
<1> QED
  BY <1>1, <1>2, <1>3, <1>4, LoopType, CheckStepType DEF Next, MainStep

\* The attempts never exceed circuit_max_retries and every variable keeps its type.
THEOREM CircuitTypeCorrect == Spec => []TypeOK
<1>1. Init => TypeOK
  <2>1. [at |-> "none", proc |-> 0] \in CheckType
    BY CircuitCheckAssumption, CheckTyped DEF CheckStates
  <2>2. 0 \in 0 .. MaxTunnels /\ 0 \in 0 .. MaxTry /\ 0 \in 0 .. MaxCuts
    BY CircuitCheckAssumption
  <2> QED
    BY <2>1, <2>2 DEF Init, TypeOK, LoopStates
<1> QED
  BY <1>1, TypeStep, PTL DEF Spec

\* A measurement is published only for the process that is there; the flag goes up
\* for a process without one.
THEOREM KbsIsCurrentCorrect == Spec => []KbsIsCurrent
<1>1. Init => KbsIsCurrent
  BY DEF Init, KbsIsCurrent
<1>2. KbsIsCurrent /\ [Next]_vars => KbsIsCurrent'
  <2> SUFFICES ASSUME KbsIsCurrent, [Next]_vars PROVE KbsIsCurrent'
    OBVIOUS
  <2> USE DEF KbsIsCurrent, loopVars, circuitVars
  <2>1. CASE LoopStep
    BY <2>1 DEF LoopStep, Connect, Established, StartCheck, SessionEnds, Decide, ObserveStop
  <2>2. ASSUME NEW t \in Tunnels, CheckStep(t) PROVE KbsIsCurrent'
    <3>1. CASE GoodCircuit(t) \/ KeepSlow(t) \/ DrawAgain(t)
      BY <3>1 DEF GoodCircuit, KeepSlow, DrawAgain, Measured, TunnelIntact
    <3>2. CASE Wake(t) \/ Abandon(t) \/ NewTorCircuit(t) \/ RaiseRetry(t) \/ Terminate(t)
      BY <3>2 DEF Wake, Abandon, NewTorCircuit, RaiseRetry, Terminate
    <3> QED
      BY <2>2, <3>1, <3>2 DEF CheckStep
  <2>3. CASE Cut \/ MainStep
    BY <2>3 DEF Cut, MainStep, StopVpn, StopOpenvpn, Restart
  <2>4. CASE UNCHANGED vars
    BY <2>4 DEF vars
  <2> QED
    BY <2>1, <2>2, <2>3, <2>4 DEF Next
<1> QED
  BY <1>1, <1>2, PTL DEF Spec

\* A step that changes the place of a check is a step of that check, or starts it.
LEMMA CheckMoves ==
    ASSUME TypeOK, [Next]_vars, NEW t \in Tunnels,
           check[t].at = "kill", check'[t].at = "over"
    PROVE  Terminate(t)
<1> USE DEF TypeOK, CheckType
<1>1. ASSUME NEW u \in Tunnels, CheckStep(u) PROVE Terminate(t)
  <2>1. u = t
    <3>1. u # t => check'[t] = check[t]
      BY <1>1 DEF CheckStep, Wake, Abandon, GoodCircuit, KeepSlow, DrawAgain,
                  NewTorCircuit, RaiseRetry, Terminate, At
    <3> QED
      BY <3>1
  <2> QED
    BY <1>1, <2>1 DEF CheckStep, Wake, Abandon, GoodCircuit, KeepSlow, DrawAgain,
                      NewTorCircuit, RaiseRetry, Measured
<1>2. CASE StartCheck
  <2>1. check'[t] = check[t] \/ check'[t].at = "wait"
    BY <1>2 DEF StartCheck
  <2> QED
    BY <2>1
<1>3. CASE UNCHANGED check
  BY <1>3
<1> QED
  BY <1>1, <1>2, <1>3 DEF Next, LoopStep, Connect, Established, SessionEnds, Decide,
                          ObserveStop, Cut, MainStep, StopVpn, StopOpenvpn, Restart, vars

\* A process that runs is the one whose output the loop reads; a check measured a
\* process there was; and as long as that process is the current one and runs, the
\* loop has decided nothing since the check raised the flag.
AnnouncedInv ==
    /\ loop \in {"head", "decide", "over"} => proc \notin alive
    /\ \A t \in Tunnels : check[t].proc <= proc
    /\ \A t \in Tunnels :
           check[t].at = "kill" /\ check[t].proc = proc /\ proc \in alive => retry

\* A step of a check keeps it: the flag goes up before the check may kill.
LEMMA AnnouncedCheck ==
    ASSUME TypeOK, AnnouncedInv, NEW t \in Tunnels, CheckStep(t)
    PROVE  AnnouncedInv'
<1> USE DEF TypeOK, CheckType, loopVars, circuitVars
<1>1. /\ UNCHANGED <<loop, proc>> /\ alive' \subseteq alive
      /\ retry => retry'
      /\ \A u \in Tunnels : u # t => check'[u] = check[u]
  BY DEF CheckStep, Wake, Abandon, GoodCircuit, KeepSlow, DrawAgain, NewTorCircuit, RaiseRetry,
         Terminate, At
<1>2. check'[t].proc \in {check[t].proc, proc, 0} /\ 0 <= proc
  BY DEF CheckStep, Wake, Abandon, GoodCircuit, KeepSlow, DrawAgain, NewTorCircuit, RaiseRetry,
         Terminate, At
<1>3. check'[t].at = "kill" => retry'
  BY DEF CheckStep, Wake, Abandon, GoodCircuit, KeepSlow, DrawAgain, NewTorCircuit, RaiseRetry,
         Terminate, At
<1> QED
  BY <1>1, <1>2, <1>3 DEF AnnouncedInv

\* So does every other step: a new process has a number that no check holds, and the
\* flag is lowered when the process that the check measured is gone.
LEMMA AnnouncedStep == TypeOK /\ AnnouncedInv /\ [Next]_vars => AnnouncedInv'
<1> SUFFICES ASSUME TypeOK, AnnouncedInv, [Next]_vars PROVE AnnouncedInv'
  OBVIOUS
<1> USE DEF TypeOK, CheckType, loopVars, circuitVars
<1>1. ASSUME NEW t \in Tunnels, CheckStep(t) PROVE AnnouncedInv'
  BY <1>1, AnnouncedCheck
<1>2. CASE Connect
  <2>1. \A t \in Tunnels : check[t].proc # proc'
    BY <1>2 DEF Connect, AnnouncedInv
  <2> QED
    BY <1>2, <2>1 DEF Connect, AnnouncedInv
<1>3. CASE StartCheck
  <2>1. \A t \in Tunnels : check'[t] = check[t] \/ check'[t] = [at |-> "wait", proc |-> 0]
    BY <1>3 DEF StartCheck
  <2> QED
    BY <1>3, <2>1 DEF StartCheck, AnnouncedInv
<1>4. CASE Established \/ SessionEnds \/ Decide \/ ObserveStop
  BY <1>4 DEF Established, SessionEnds, Decide, ObserveStop, AnnouncedInv
<1>5. CASE Cut \/ StopVpn \/ StopOpenvpn \/ Restart
  BY <1>5 DEF Cut, StopVpn, StopOpenvpn, Restart, AnnouncedInv
<1>6. CASE UNCHANGED vars
  BY <1>6 DEF vars, AnnouncedInv
<1> QED
  BY <1>1, <1>2, <1>3, <1>4, <1>5, <1>6 DEF Next, LoopStep, MainStep

\* A check takes down the current tunnel only with the flag of a re-draw up, for any
\* number of checks, cuts and full restarts.
THEOREM KillIsRedrawCorrect == Spec => KillIsRedraw
<1>1. Init => AnnouncedInv
  BY DEF Init, AnnouncedInv
<1>2. TypeOK /\ AnnouncedInv /\ [Next]_vars =>
          [\A t \in Tunnels :
              check[t].at = "kill" /\ check'[t].at = "over" /\ proc \in alive \ alive'
                  => retry]_vars
  <2> SUFFICES ASSUME TypeOK, AnnouncedInv, [Next]_vars, NEW t \in Tunnels,
                      check[t].at = "kill", check'[t].at = "over", proc \in alive \ alive'
               PROVE  retry
    OBVIOUS
  <2>1. Terminate(t)
    BY CheckMoves
  <2>2. check[t].proc = proc
    BY <2>1 DEF Terminate, Target
  <2> QED
    BY <2>2 DEF AnnouncedInv
<1> QED
  BY <1>1, <1>2, AnnouncedStep, CircuitTypeCorrect, PTL DEF Spec, KillIsRedraw

-----------------------------------------------------------------------------
(* The budget of the re-draws                                              *)

Active == {"wait", "measure", "newnym", "retry", "kill"}
Drawing == {"newnym", "retry", "kill"}

\* How the number of checks in some places changes when one check moves.
LEMMA InMoves ==
    ASSUME NEW t \in Tunnels, \A u \in Tunnels : u # t => check'[u] = check[u], NEW S
    PROVE  /\ In(S) \in Nat /\ In(S)' \in Nat
           /\ (check[t].at \in S <=> check'[t].at \in S) => In(S)' = In(S)
           /\ check[t].at \notin S /\ check'[t].at \in S => In(S)' = In(S) + 1
           /\ check[t].at \in S /\ check'[t].at \notin S => In(S)' = In(S) - 1
<1> DEFINE T == {u \in Tunnels : check[u].at \in S}
           U == {u \in Tunnels : check'[u].at \in S}
<1>1. In(S) = Cardinality(T) /\ In(S)' = Cardinality(U)
  BY DEF In
<1>2. IsFiniteSet(T) /\ IsFiniteSet(U)
  <2>1. IsFiniteSet(Tunnels)
    BY CircuitCheckAssumption, FS_Interval DEF Tunnels
  <2> QED
    BY <2>1, FS_Subset
<1>0. Cardinality(T) \in Nat /\ Cardinality(U) \in Nat
  BY <1>2, FS_CardinalityType
<1>3. CASE check[t].at \in S <=> check'[t].at \in S
  <2>1. U = T
    BY <1>3
  <2> QED
    BY <1>0, <1>1, <1>3, <2>1
<1>4. CASE check[t].at \notin S /\ check'[t].at \in S
  <2>1. U = T \cup {t} /\ t \notin T
    BY <1>4
  <2> QED
    <3>1. Cardinality(U) = Cardinality(T) + 1
      <4> HIDE DEF T, U
      <4> QED
        BY <1>2, <2>1, FS_AddElement
    <3> QED
      BY <1>0, <1>1, <1>4, <3>1
<1>5. CASE check[t].at \in S /\ check'[t].at \notin S
  <2>1. U = T \ {t} /\ t \in T
    BY <1>5
  <2> QED
    <3>1. Cardinality(U) = Cardinality(T) - 1
      <4> HIDE DEF T, U
      <4> QED
        BY <1>2, <2>1, FS_RemoveElement
    <3> QED
      BY <1>0, <1>1, <1>5, <3>1
<1> QED
  BY <1>3, <1>4, <1>5

\* The number of checks in some places is a number.
LEMMA InType == \A S : In(S) \in Nat
<1> TAKE S
<1>1. IsFiniteSet(Tunnels)
  BY CircuitCheckAssumption, FS_Interval DEF Tunnels
<1>2. IsFiniteSet({t \in Tunnels : check[t].at \in S})
  BY <1>1, FS_Subset
<1> QED
  BY <1>2, FS_CardinalityType DEF In

\* The budget is one of naturals.
BudgetNat ==
    /\ CutsLeft \in Nat /\ ChecksLeft \in Nat /\ DrawsLeft \in Nat
    /\ LoopLeft \in 0 .. 7 /\ StepsLeft \in Nat

LEMMA BudgetType == TypeOK => BudgetNat
<1> SUFFICES ASSUME TypeOK PROVE BudgetNat
  OBVIOUS
<1>1. \A b : One(b) \in Nat
  BY DEF One
<1>2. MaxCuts - cuts \in Nat /\ MaxTry - attempts \in Nat
  BY CircuitCheckAssumption DEF TypeOK
<1>3. CutsLeft \in Nat
  BY <1>1, <1>2 DEF CutsLeft
<1>4. ChecksLeft \in Nat
  BY <1>1, InType DEF ChecksLeft
<1>5. DrawsLeft \in Nat
  BY <1>2, InType DEF DrawsLeft
<1>6. LoopLeft \in 0 .. 7
  BY DEF LoopLeft, TypeOK, LoopStates
<1>7. StepsLeft \in Nat
  BY InType DEF StepsLeft
<1> QED
  BY <1>3, <1>4, <1>5, <1>6, <1>7 DEF BudgetNat

\* The ways a step spends: a place goes down, the dearer ones do not go up.
LEMMA Spent ==
    ASSUME BudgetNat, BudgetNat',
           \/ CutsLeft' < CutsLeft
           \/ CutsLeft' <= CutsLeft /\ ChecksLeft' < ChecksLeft
           \/ CutsLeft' <= CutsLeft /\ ChecksLeft' <= ChecksLeft /\ DrawsLeft' < DrawsLeft
           \/ /\ CutsLeft' <= CutsLeft /\ ChecksLeft' <= ChecksLeft
              /\ DrawsLeft' <= DrawsLeft /\ LoopLeft' < LoopLeft
           \/ /\ CutsLeft' <= CutsLeft /\ ChecksLeft' <= ChecksLeft
              /\ DrawsLeft' <= DrawsLeft /\ LoopLeft' <= LoopLeft /\ StepsLeft' < StepsLeft
    PROVE  Below(Budget', Budget)
<1> DEFINE a == Budget'
           b == Budget
<1>1. /\ DOMAIN a = 1 .. 5
      /\ a[1] = CutsLeft' /\ a[2] = ChecksLeft' /\ a[3] = DrawsLeft' /\ a[4] = LoopLeft'
      /\ a[5] = StepsLeft'
      /\ b[1] = CutsLeft /\ b[2] = ChecksLeft /\ b[3] = DrawsLeft /\ b[4] = LoopLeft
      /\ b[5] = StepsLeft
  BY DEF Budget
<1> HIDE DEF a, b
<1>2. \A i \in 1 .. 5 : a[i] \in Nat /\ b[i] \in Nat
  BY <1>1 DEF BudgetNat
<1>3. \E i \in 1 .. 5 : a[i] < b[i] /\ \A j \in 1 .. 5 : j < i => a[j] <= b[j]
  BY <1>1
<1>4. PICK i \in 1 .. 5 : a[i] < b[i] /\ \A j \in 1 .. 5 : j < i => a[j] = b[j]
  BY <1>2, <1>3
<1>5. \A j \in 1 .. i - 1 : j \in 1 .. 5 /\ j < i
  OBVIOUS
<1>6. Below(a, b)
  BY <1>1, <1>4, <1>5 DEF Below
<1> QED
  BY <1>6 DEF a, b

\* A step that keeps the types keeps the budget one of naturals.
LEMMA BudgetTypeNext == TypeOK /\ [Next]_vars => BudgetNat /\ BudgetNat'
<1>1. TypeOK' => BudgetNat'
  BY BudgetType, PTL
<1> QED
  BY <1>1, BudgetType, TypeStep

\* What a move of a check does to the places that count checks.
LEMMA MoveSpends ==
    ASSUME TypeOK, NEW t \in Tunnels, \A u \in Tunnels : u # t => check'[u] = check[u],
           check'[t].at \in CheckStates
    PROVE  LET a == check[t].at
               b == check'[t].at
           IN  /\ a = "wait" /\ b = "measure" =>
                     /\ In(Active)' = In(Active) /\ In(Drawing)' = In(Drawing)
                     /\ StepsLeft' < StepsLeft
               /\ a = "measure" /\ b = "newnym" =>
                     /\ In(Active)' = In(Active) /\ In(Drawing)' = In(Drawing) + 1
                     /\ StepsLeft' < StepsLeft
               /\ a = "newnym" /\ b = "retry" =>
                     /\ In(Active)' = In(Active) /\ In(Drawing)' = In(Drawing)
                     /\ StepsLeft' < StepsLeft
               /\ a = "retry" /\ b = "kill" =>
                     /\ In(Active)' = In(Active) /\ In(Drawing)' = In(Drawing)
                     /\ StepsLeft' < StepsLeft
               /\ a \in {"wait", "measure"} /\ b = "over" =>
                     /\ In(Active)' < In(Active) /\ In(Drawing)' = In(Drawing)
               /\ a = "kill" /\ b = "over" =>
                     /\ In(Active)' = In(Active) - 1 /\ In(Drawing)' = In(Drawing) - 1
               /\ b = "wait" => In(Active)' <= In(Active) + 1 /\ In(Drawing)' <= In(Drawing)
<1> DEFINE a == check[t].at
           b == check'[t].at
           W == {"wait"}
           M == {"wait", "measure"}
           N == {"wait", "measure", "newnym"}
           R == {"wait", "measure", "newnym", "retry"}
           Moves(S) == /\ In(S) \in Nat /\ In(S)' \in Nat
                       /\ (a \in S <=> b \in S) => In(S)' = In(S)
                       /\ a \notin S /\ b \in S => In(S)' = In(S) + 1
                       /\ a \in S /\ b \notin S => In(S)' = In(S) - 1
<1>1. Moves(W) /\ Moves(M) /\ Moves(N) /\ Moves(R) /\ Moves(Active) /\ Moves(Drawing)
  BY InMoves
<1>2. /\ StepsLeft = In(W) + In(M) + In(N) + In(R)
      /\ StepsLeft' = In(W)' + In(M)' + In(N)' + In(R)'
  BY DEF StepsLeft
<1> QED
  BY <1>1, <1>2 DEF Active, Drawing

\* A check that goes on, or ends, leaves the loop where it was, and the tunnel too
\* unless the check terminates it.
LEMMA CheckStepSpends ==
    ASSUME TypeOK, BudgetNat, BudgetNat', NEW t \in Tunnels, CheckStep(t)
    PROVE  Below(Budget', Budget)
<1> USE DEF loopVars, circuitVars
<1>1. /\ \A u \in Tunnels : u # t => check'[u] = check[u]
      /\ check'[t].at \in CheckStates
  <2>1. check' \in [Tunnels -> CheckType]
    BY CheckStepType DEF TypeOK
  <2>2. \A u \in Tunnels : u # t => check'[u] = check[u]
    BY DEF TypeOK, CheckStep, Wake, Abandon, GoodCircuit, KeepSlow, DrawAgain, NewTorCircuit,
           RaiseRetry, Terminate, At
  <2> QED
    BY <2>1, <2>2 DEF CheckType
<1>2. UNCHANGED <<loop, proc, up, stop, cuts>> /\ alive' \subseteq alive
  BY DEF CheckStep, Wake, Abandon, GoodCircuit, KeepSlow, DrawAgain, NewTorCircuit,
         RaiseRetry, Terminate
<1>3. /\ In(Active) \in Nat /\ In(Active)' \in Nat
      /\ In(Drawing) \in Nat /\ In(Drawing)' \in Nat
  BY <1>1, InMoves
<1>4. CutsLeft' <= CutsLeft
  <2>1. One(stop /\ proc \in alive)' <= One(stop /\ proc \in alive)
    BY <1>2 DEF One
  <2>2. One(stop)' = One(stop) /\ One(stop) \in Nat /\ cuts' = cuts
    BY <1>2 DEF One
  <2>3. One(stop /\ proc \in alive)' \in Nat /\ One(stop /\ proc \in alive) \in Nat
    BY DEF One
  <2> QED
    BY <2>1, <2>2, <2>3, CircuitCheckAssumption DEF CutsLeft, TypeOK
<1>5. CASE ~Terminate(t)
  <2>1. UNCHANGED alive
    BY <1>5 DEF CheckStep, Wake, Abandon, GoodCircuit, KeepSlow, DrawAgain, NewTorCircuit,
                RaiseRetry
  <2>2. Lost' = Lost
    BY <1>2, <2>1 DEF Lost
  <2>3. LoopLeft' = LoopLeft
    BY <1>2, <2>2 DEF LoopLeft
  <2>4. ChecksLeft' - In(Active)' = ChecksLeft - In(Active)
    <3> DEFINE here == One(loop \in {"session", "setup"})
               again == One(stop \/ Lost \/ loop \in {"head", "decide"})
    <3>1. here' = here /\ again' = again /\ here \in Nat /\ again \in Nat
      BY <1>2, <2>2 DEF One
    <3>2. ChecksLeft = In(Active) + here + again /\ ChecksLeft' = In(Active)' + here' + again'
      BY DEF ChecksLeft, Active
    <3> HIDE DEF here, again
    <3> QED
      BY <1>3, <3>1, <3>2
  <2>5. DrawsLeft = MaxTry - attempts + In(Drawing)
        /\ DrawsLeft' = MaxTry - attempts' + In(Drawing)'
    BY DEF DrawsLeft, Drawing
  <2>6. CASE Wake(t)
    <3>1. check[t].at = "wait" /\ check'[t].at \in {"measure", "over"} /\ attempts' = attempts
      BY <2>6 DEF Wake, TypeOK
    <3>2. CASE check'[t].at = "measure"
      <4>1. In(Active)' = In(Active) /\ In(Drawing)' = In(Drawing) /\ StepsLeft' < StepsLeft
        BY <1>1, <3>1, <3>2, MoveSpends
      <4>2. ChecksLeft' = ChecksLeft /\ DrawsLeft' = DrawsLeft
        BY <1>3, <2>4, <2>5, <3>1, <4>1 DEF BudgetNat
      <4> QED
        BY <1>4, <2>3, <4>1, <4>2, Spent DEF BudgetNat
    <3>3. CASE check'[t].at = "over"
      <4>1. In(Active)' < In(Active)
        BY <1>1, <3>1, <3>3, MoveSpends
      <4>2. ChecksLeft' < ChecksLeft
        BY <1>3, <2>4, <4>1 DEF BudgetNat
      <4> QED
        BY <1>4, <4>2, Spent
    <3> QED
      BY <3>1, <3>2, <3>3
  <2>7. CASE Abandon(t) \/ GoodCircuit(t) \/ KeepSlow(t)
    <3>1. check[t].at = "measure" /\ check'[t].at = "over"
      BY <2>7 DEF Abandon, GoodCircuit, KeepSlow, Measured, At, TypeOK, CheckType
    <3>2. In(Active)' < In(Active)
      BY <1>1, <3>1, MoveSpends
    <3>3. ChecksLeft' < ChecksLeft
      BY <1>3, <2>4, <3>2 DEF BudgetNat
    <3> QED
      BY <1>4, <3>3, Spent
  <2>8. CASE DrawAgain(t)
    <3>1. check[t].at = "measure" /\ check'[t].at = "newnym" /\ attempts' = attempts + 1
      BY <2>8 DEF DrawAgain, OneMoreAttempt, Measured, At, TypeOK, CheckType
    <3>2. /\ In(Active)' = In(Active) /\ In(Drawing)' = In(Drawing) + 1
          /\ StepsLeft' < StepsLeft
      BY <1>1, <3>1, MoveSpends
    <3>3. ChecksLeft' = ChecksLeft
      BY <1>3, <2>4, <3>2 DEF BudgetNat
    <3>4. DrawsLeft' = DrawsLeft
      BY <1>3, <2>5, <3>1, <3>2, CircuitCheckAssumption DEF TypeOK
    <3> QED
      BY <1>4, <2>3, <3>2, <3>3, <3>4, Spent DEF BudgetNat
  <2>9. CASE NewTorCircuit(t) \/ RaiseRetry(t)
    <3>1. /\ \/ check[t].at = "newnym" /\ check'[t].at = "retry"
             \/ check[t].at = "retry" /\ check'[t].at = "kill"
          /\ attempts' = attempts
      BY <2>9 DEF NewTorCircuit, RaiseRetry, At, TypeOK, CheckType
    <3>2. In(Active)' = In(Active) /\ In(Drawing)' = In(Drawing) /\ StepsLeft' < StepsLeft
      <4>1. CASE check[t].at = "newnym" /\ check'[t].at = "retry"
        BY <1>1, <4>1, MoveSpends
      <4>2. CASE check[t].at = "retry" /\ check'[t].at = "kill"
        BY <1>1, <4>2, MoveSpends
      <4> QED
        BY <3>1, <4>1, <4>2
    <3>3. ChecksLeft' = ChecksLeft /\ DrawsLeft' = DrawsLeft
      BY <1>3, <2>4, <2>5, <3>1, <3>2 DEF BudgetNat
    <3> QED
      BY <1>4, <2>3, <3>2, <3>3, Spent DEF BudgetNat
  <2> QED
    BY <1>5, <2>6, <2>7, <2>8, <2>9 DEF CheckStep
\* The tunnel may be lost now, and a check start again: the one that is over made
\* room for it, and one circuit less is being drawn.
<1>6. CASE Terminate(t)
  <2>1. check[t].at = "kill" /\ check'[t].at = "over" /\ attempts' = attempts
    BY <1>6 DEF Terminate, At, TypeOK, CheckType
  <2>2. In(Active)' = In(Active) - 1 /\ In(Drawing)' = In(Drawing) - 1
    BY <1>1, <2>1, MoveSpends
  <2>3. DrawsLeft' < DrawsLeft
    <3>1. DrawsLeft = MaxTry - attempts + In(Drawing)
          /\ DrawsLeft' = MaxTry - attempts + In(Drawing)'
      BY <2>1 DEF DrawsLeft, Drawing
    <3> QED
      BY <1>3, <2>2, <3>1, CircuitCheckAssumption DEF TypeOK
  <2>4. ChecksLeft' <= ChecksLeft
    <3> DEFINE here == One(loop \in {"session", "setup"})
               again == One(stop \/ Lost \/ loop \in {"head", "decide"})
    <3>1. here' = here /\ here \in Nat /\ again \in Nat /\ again' \in Nat /\ again' <= again + 1
      BY <1>2 DEF One
    <3>2. ChecksLeft = In(Active) + here + again /\ ChecksLeft' = In(Active)' + here' + again'
      BY DEF ChecksLeft, Active
    <3> HIDE DEF here, again
    <3> QED
      BY <1>3, <2>2, <3>1, <3>2
  <2> QED
    BY <1>4, <2>3, <2>4, Spent
<1> QED
  BY <1>5, <1>6

\* The checks on their way to a new circuit are a number, before and after a step.
LEMMA DrawingType == In(Drawing) \in Nat /\ In(Drawing)' \in Nat
<1>1. IsFiniteSet(Tunnels)
  BY CircuitCheckAssumption, FS_Interval DEF Tunnels
<1>2. IsFiniteSet({t \in Tunnels : check'[t].at \in Drawing})
  BY <1>1, FS_Subset
<1>3. In(Drawing)' = Cardinality({t \in Tunnels : check'[t].at \in Drawing})
  BY DEF In, Drawing
<1> QED
  BY <1>2, <1>3, FS_CardinalityType, InType

\* The loop goes on towards a tunnel; a lost one costs it the check it had, or is to
\* have.
LEMMA LoopSpends ==
    ASSUME TypeOK, BudgetNat, BudgetNat', LoopStep
    PROVE  Below(Budget', Budget)
<1> USE DEF loopVars, circuitVars
<1>1. In(Active) \in Nat /\ In(Active)' \in Nat
  <2>1. CASE StartCheck /\ proc \in Tunnels
    BY <2>1, InMoves DEF StartCheck, TypeOK
  <2>2. CASE check' = check
    <3>1. In(Active)' = In(Active)
      BY <2>2 DEF In
    <3> QED
      BY <3>1, InType
  <2>3. CASE StartCheck /\ proc \notin Tunnels
    BY <2>2, <2>3 DEF StartCheck, TypeOK
  <2> QED
    BY <2>1, <2>2, <2>3 DEF LoopStep, Connect, Established, SessionEnds, Decide, ObserveStop
<1>2. UNCHANGED check => UNCHANGED <<In(Active), In(Drawing), StepsLeft>>
  BY DEF In, StepsLeft
<1>3. /\ ChecksLeft = In(Active) + One(loop \in {"session", "setup"})
                      + One(stop \/ Lost \/ loop \in {"head", "decide"})
      /\ ChecksLeft' = In(Active)' + One(loop' \in {"session", "setup"})
                       + One(stop' \/ Lost' \/ loop' \in {"head", "decide"})
  BY DEF ChecksLeft, Active, One
<1>4. UNCHANGED <<stop, proc, alive, cuts>> => CutsLeft' = CutsLeft
  BY DEF CutsLeft
<1>5. UNCHANGED <<attempts, check>> => DrawsLeft' = DrawsLeft
  BY DEF DrawsLeft, In
<1>6. CASE Connect
  <2>1. /\ ~stop /\ ~stop' /\ proc' \in alive' /\ loop = "head" /\ loop' = "session"
        /\ UNCHANGED <<cuts, check, attempts>>
    BY <1>6 DEF Connect
  <2>2. CutsLeft' = CutsLeft
    BY <2>1 DEF CutsLeft, One
  <2>3. ~Lost'
    BY <2>1 DEF Lost
  <2>4. ChecksLeft' = ChecksLeft
    BY <1>1, <1>2, <1>3, <2>1, <2>3 DEF One
  <2>5. LoopLeft' < LoopLeft
    BY <2>1, <2>3 DEF LoopLeft
  <2> QED
    BY <1>5, <2>1, <2>2, <2>4, <2>5, Spent DEF BudgetNat
<1>7. CASE Established
  <2>1. /\ loop = "session" /\ loop' = "setup"
        /\ UNCHANGED <<stop, proc, alive, cuts, check, attempts>>
    BY <1>7 DEF Established
  <2>2. Lost' = Lost
    BY <2>1 DEF Lost
  <2>3. ChecksLeft' = ChecksLeft
    BY <1>1, <1>2, <1>3, <2>1, <2>2 DEF One
  <2>4. LoopLeft' < LoopLeft
    BY <2>1, <2>2 DEF LoopLeft
  <2> QED
    BY <1>4, <1>5, <2>1, <2>3, <2>4, Spent DEF BudgetNat
<1>8. CASE StartCheck
  <2>1. /\ loop = "setup" /\ loop' = "established"
        /\ UNCHANGED <<stop, proc, alive, cuts, attempts>>
    BY <1>8 DEF StartCheck
  <2>2. Lost' = Lost
    BY <2>1 DEF Lost
  <2>3. In(Active)' <= In(Active) + 1 /\ In(Drawing)' <= In(Drawing)
    <3>1. CASE proc \in Tunnels
      <4>1. /\ \A u \in Tunnels : u # proc => check'[u] = check[u]
            /\ check'[proc].at = "wait"
        BY <1>8, <3>1 DEF StartCheck, TypeOK
      <4>2. check'[proc].at \in CheckStates
        BY <4>1 DEF CheckStates
      <4> QED
        BY <3>1, <4>1, <4>2, MoveSpends
    <3>2. CASE proc \notin Tunnels
      <4>1. UNCHANGED check
        BY <1>8, <3>2 DEF StartCheck, TypeOK
      <4> QED
        BY <1>1, <1>2, <4>1, InType
    <3> QED
      BY <3>1, <3>2
  <2>4. ChecksLeft' <= ChecksLeft
    BY <1>1, <1>3, <2>1, <2>2, <2>3 DEF One
  <2>5. DrawsLeft' <= DrawsLeft
    <3>1. In(Drawing) \in Nat /\ In(Drawing)' \in Nat
      BY DrawingType
    <3>2. DrawsLeft = MaxTry - attempts + In(Drawing)
          /\ DrawsLeft' = MaxTry - attempts + In(Drawing)'
      BY <2>1 DEF DrawsLeft, Drawing
    <3> QED
      BY <2>3, <3>1, <3>2, CircuitCheckAssumption DEF TypeOK
  <2>6. LoopLeft' < LoopLeft
    BY <2>1, <2>2 DEF LoopLeft
  <2> QED
    BY <1>4, <2>1, <2>4, <2>5, <2>6, Spent DEF BudgetNat
<1>9. CASE SessionEnds
  <2>1. /\ loop \in {"session", "established"} /\ proc \notin alive /\ loop' = "decide"
        /\ UNCHANGED <<stop, proc, alive, cuts, check, attempts>>
    BY <1>9 DEF SessionEnds
  <2>2. Lost /\ ~Lost'
    BY <2>1 DEF Lost
  <2>3. CASE loop = "session"
    <3>1. ChecksLeft' < ChecksLeft
      BY <1>1, <1>2, <1>3, <2>1, <2>2, <2>3 DEF One
    <3> QED
      BY <1>4, <2>1, <3>1, Spent DEF BudgetNat
  <2>4. CASE loop = "established"
    <3>1. ChecksLeft' = ChecksLeft
      BY <1>1, <1>2, <1>3, <2>1, <2>2, <2>4 DEF One
    <3>2. LoopLeft' < LoopLeft
      BY <2>1, <2>2, <2>4 DEF LoopLeft
    <3> QED
      BY <1>4, <1>5, <2>1, <3>1, <3>2, Spent DEF BudgetNat
  <2> QED
    BY <2>1, <2>3, <2>4
<1>10. CASE Decide
  <2>1. /\ loop = "decide" /\ loop' \in {"head", "over"}
        /\ UNCHANGED <<stop, proc, alive, cuts, check, attempts>>
    BY <1>10 DEF Decide
  <2>2. ~Lost /\ ~Lost'
    BY <2>1 DEF Lost
  <2>3. CASE loop' = "head" \/ stop
    <3>1. ChecksLeft' = ChecksLeft
      BY <1>1, <1>2, <1>3, <2>1, <2>2, <2>3 DEF One
    <3>2. LoopLeft' < LoopLeft
      BY <2>1, <2>2 DEF LoopLeft
    <3> QED
      BY <1>4, <1>5, <2>1, <3>1, <3>2, Spent DEF BudgetNat
  <2>4. CASE loop' = "over" /\ ~stop
    <3>1. ChecksLeft' < ChecksLeft
      BY <1>1, <1>2, <1>3, <2>1, <2>2, <2>4 DEF One
    <3> QED
      BY <1>4, <2>1, <3>1, Spent DEF BudgetNat
  <2> QED
    BY <2>1, <2>3, <2>4
<1>11. CASE ObserveStop
  <2>1. /\ loop = "head" /\ stop /\ loop' = "over"
        /\ UNCHANGED <<stop, proc, alive, cuts, check, attempts>>
    BY <1>11 DEF ObserveStop
  <2>2. ~Lost /\ ~Lost'
    BY <2>1 DEF Lost
  <2>3. ChecksLeft' = ChecksLeft
    BY <1>1, <1>2, <1>3, <2>1, <2>2 DEF One
  <2>4. LoopLeft' < LoopLeft
    BY <2>1, <2>2 DEF LoopLeft
  <2> QED
    BY <1>4, <1>5, <2>1, <2>3, <2>4, Spent DEF BudgetNat
<1> QED
  BY <1>6, <1>7, <1>8, <1>9, <1>10, <1>11 DEF LoopStep

\* A cut is dearer than what it may start.
LEMMA CutPays ==
    ASSUME NEW m \in Nat, NEW c \in Nat, NEW a \in {0, 1}, NEW b \in {0, 1},
           NEW u \in {0, 1}, NEW v \in {0, 1}
    PROVE  3 * (m - (c + 1)) + u + v < 3 * (m - c) + a + b
  OBVIOUS

\* A cut, the stop of the tunnel and the new loop are paid for by what is left of the
\* cuts.
LEMMA CutSpends ==
    ASSUME TypeOK, BudgetNat, BudgetNat', Cut \/ MainStep
    PROVE  Below(Budget', Budget)
<1> USE DEF loopVars, circuitVars
<1> DEFINE a == One(stop)
           b == One(stop /\ proc \in alive)
<1>1. a \in {0, 1} /\ b \in {0, 1} /\ a' \in {0, 1} /\ b' \in {0, 1}
  BY DEF One
<1>2. CutsLeft = 3 * (MaxCuts - cuts) + a + b /\ CutsLeft' = 3 * (MaxCuts - cuts') + a' + b'
  BY DEF CutsLeft
<1>3. ASSUME cuts' = cuts + 1 PROVE CutsLeft' < CutsLeft
  <2> HIDE DEF a, b
  <2>1. MaxCuts \in Nat /\ cuts \in Nat
    BY CircuitCheckAssumption DEF TypeOK
  <2>2. 3 * (MaxCuts - (cuts + 1)) + a' + b' < 3 * (MaxCuts - cuts) + a + b
    BY <1>1, <2>1, CutPays
  <2> QED
    BY <1>2, <1>3, <2>2
<1>4. CutsLeft' < CutsLeft
  <2>1. CASE Cut
    BY <1>3, <2>1 DEF Cut
  <2>2. CASE StopVpn
    BY <1>3, <2>2 DEF StopVpn
  <2>3. CASE StopOpenvpn
    <3>1. cuts' = cuts /\ a' = a /\ b = 1 /\ b' = 0
      BY <2>3 DEF StopOpenvpn, One
    <3> HIDE DEF a, b
    <3> QED
      BY <1>1, <1>2, <3>1, CircuitCheckAssumption DEF TypeOK
  <2>4. CASE Restart
    <3>1. cuts' = cuts /\ a = 1 /\ a' = 0 /\ b' = 0
      BY <2>4 DEF Restart, One
    <3> HIDE DEF a, b
    <3> QED
      BY <1>1, <1>2, <3>1, CircuitCheckAssumption DEF TypeOK
  <2> QED
    BY <2>1, <2>2, <2>3, <2>4 DEF MainStep
<1> QED
  BY <1>4, Spent

\* Each step spends of the budget of the re-draws: with BudgetRunsOut there is no
\* endless run of them, and the fairness of Settles is needed only for the threads to
\* go on, not for them to come to an end.
THEOREM RedrawsEndCorrect == Spec => RedrawsEnd
<1>1. TypeOK /\ [Next]_vars => [AllNat(Budget) /\ Below(Budget', Budget)]_vars
  <2> SUFFICES ASSUME TypeOK, [Next]_vars, vars' # vars
               PROVE  AllNat(Budget) /\ Below(Budget', Budget)
    OBVIOUS
  <2>1. BudgetNat /\ BudgetNat'
    BY BudgetTypeNext
  <2>2. AllNat(Budget)
    BY <2>1 DEF AllNat, Budget, BudgetNat
  <2>3. Below(Budget', Budget)
    BY <2>1, CheckStepSpends, LoopSpends, CutSpends DEF Next
  <2> QED
    BY <2>2, <2>3
<1> QED
  BY <1>1, CircuitTypeCorrect, PTL DEF Spec, RedrawsEnd
=============================================================================
