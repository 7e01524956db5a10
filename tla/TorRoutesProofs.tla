-------------------------- MODULE TorRoutesProofs --------------------------
(* Proofs about the routes of Tor's relays. *)
EXTENDS TorRoutes, TLAPS

(***************************************************************************)
(* Types                                                                   *)
(***************************************************************************)

\* An idle call is a call.
LEMMA IdleType == Idle \in CallType
  BY DEF Idle, CallType

\* A step of a call makes a call of the right type of it.
LEMMA CallTypeStep ==
    ASSUME TypeOK, NEW c \in Callers, CallStep(c)
    PROVE  call' \in [Callers -> CallType]
<1> USE IdleType DEF TypeOK, CallType, Idle
<1>1. CASE Protect(c)
  BY <1>1 DEF Protect, Called
<1>2. CASE SkipIp(c)
  <2>1. PICK ip : call' = [call EXCEPT ![c].todo = @ \ {ip}]
    BY <1>2 DEF SkipIp
  <2>2. call[c].todo \ {ip} \in SUBSET Ips
    OBVIOUS
  <2> QED
    BY <2>1, <2>2
<1>3. CASE RouteIp(c)
  BY <1>3 DEF RouteIp
<1>4. CASE RaiseTypeError(c)
  BY <1>4 DEF RaiseTypeError, ProcessEnds
<1>5. CASE RecordIp(c)
  BY <1>5 DEF RecordIp
<1>6. CASE EndAdding(c)
  BY <1>6 DEF EndAdding
<1>7. CASE Save(c)
  BY <1>7 DEF Save
<1> QED
  BY <1>1, <1>2, <1>3, <1>4, <1>5, <1>6, <1>7 DEF CallStep

\* Every step keeps the types.
LEMMA TypeStep == TypeOK /\ [Next]_vars => TypeOK'
<1> SUFFICES ASSUME TypeOK, [Next]_vars PROVE TypeOK'
  OBVIOUS
<1>1. ASSUME NEW c \in Callers, CallStep(c) PROVE TypeOK'
  <2>1. call' \in [Callers -> CallType]
    BY <1>1, CallTypeStep
  <2>2. CASE RecordIp(c)
    <3>1. call[c].ip \in Ips
      BY <2>2 DEF RecordIp, TypeOK, CallType
    <3> QED
      BY <2>1, <2>2, <3>1 DEF RecordIp, Recorded, TypeOK, cleanVars
  <2>3. CASE Save(c)
    <3>1. call[c].todo \in SUBSET Ips
      BY DEF TypeOK, CallType
    <3> QED
      BY <2>1, <2>3, <3>1 DEF Save, TypeOK, memoryVars, cleanVars
  <2>4. CASE RouteIp(c)
    <3>1. kernel' \in [Ips -> Gateways \cup {None}] /\ failed' \in SUBSET Ips
      BY <2>4 DEF RouteIp, TypeOK, CallType
    <3> QED
      BY <2>1, <2>4, <3>1 DEF RouteIp, TypeOK, memoryVars, cleanVars
  <2>5. CASE RaiseTypeError(c)
    BY <2>1, <2>5 DEF RaiseTypeError, ProcessEnds, TypeOK, memoryVars, cleanVars, Lives
  <2>6. CASE Protect(c) \/ SkipIp(c) \/ EndAdding(c)
    BY <2>1, <2>6 DEF Protect, SkipIp, EndAdding, TypeOK, memoryVars, cleanVars
  <2> QED
    BY <1>1, <2>2, <2>3, <2>4, <2>5, <2>6 DEF CallStep
<1> USE IdleType DEF TypeOK, memoryVars, cleanVars, Lives
<1>2. CASE BeginCleanup
  BY <1>2 DEF BeginCleanup, Known
<1>3. CASE DeleteRoute
  BY <1>3 DEF DeleteRoute
<1>4. CASE ClearRoutes
  BY <1>4 DEF ClearRoutes, Cleared
<1>5. CASE UnlinkFile
  BY <1>5 DEF UnlinkFile, ProcessEnds
<1>6. CASE ReadGateway \/ FullRestart \/ Start
  BY <1>6 DEF ReadGateway, FullRestart, Start
<1>7. CASE HandleSignal
  BY <1>7 DEF HandleSignal
<1>8. CASE Crash
  BY <1>8 DEF Crash, ProcessEnds
<1>9. CASE UNCHANGED vars
  BY <1>9 DEF vars
<1> QED
  BY <1>1, <1>2, <1>3, <1>4, <1>5, <1>6, <1>7, <1>8, <1>9 DEF Next, CleanupStep

\* The initial state is well typed.
LEMMA TypeInit == Init => TypeOK
  BY IdleType DEF Init, TypeOK, Lives

\* Every variable keeps its type: no address but one it was asked for ever gets
\* into the set, the file or a call.
THEOREM RoutesTypeCorrect == Spec => []TypeOK
  BY TypeInit, TypeStep, PTL DEF Spec

(***************************************************************************)
(* What a step of a call leaves alone                                      *)
(***************************************************************************)

\* A step of one caller, none being asked to route without a gateway, leaves the
\* other calls, the gateway, the cleanup and the life of the process alone; after
\* it some call is under way only if there is a gateway.
LEMMA CallFrame ==
    ASSUME TypeOK, NEW c \in Callers, CallStep(c), AllIdle \/ gateway # None
    PROVE  /\ ~RaiseTypeError(c)
           /\ UNCHANGED <<gateway, life, cleanVars>>
           /\ \A d \in Callers \ {c} : call'[d] = call[d]
           /\ gateway # None
<1> USE DEF TypeOK, memoryVars
<1>1. call[c].at \in {"add", "save"} \/ call[c].ip # None => call[c] # Idle
  BY DEF Idle
<1>2. ~RaiseTypeError(c)
  BY <1>1 DEF RaiseTypeError, NeedsGateway, Adding, AllIdle
<1>3. CASE Protect(c)
  BY <1>2, <1>3 DEF Protect
<1>4. CASE SkipIp(c)
  BY <1>1, <1>2, <1>4 DEF SkipIp, Adding, AllIdle
<1>5. CASE RouteIp(c)
  BY <1>1, <1>2, <1>5 DEF RouteIp, Adding, AllIdle
<1>6. CASE RecordIp(c)
  BY <1>1, <1>2, <1>6 DEF RecordIp, AllIdle
<1>7. CASE EndAdding(c)
  BY <1>1, <1>2, <1>7 DEF EndAdding, Adding, AllIdle
<1>8. CASE Save(c)
  BY <1>1, <1>2, <1>8 DEF Save, AllIdle
<1> QED
  BY <1>2, <1>3, <1>4, <1>5, <1>6, <1>7, <1>8 DEF CallStep

(***************************************************************************)
(* No route is lost, when calls and cleanups do not overlap, the process   *)
(* is not killed, no ip route fails and a gateway once found is not lost;  *)
(* the file may be anything                                                *)
(***************************************************************************)

\* The set and the calls know every route, without the file; a cleanup that began
\* meets no call and knows them all; when it has deleted them there are none.
KnownInv ==
    /\ Routed \subseteq protected \cup InHand
    /\ clean # "idle" => AllIdle /\ life \in Cleaning
    /\ clean = "delete" => Routed \subseteq routes
    /\ clean = "unlink" => Routed = {}
    /\ AllIdle \/ gateway # None
    /\ life = "stopped" => Routed = {}
    /\ \A c \in Callers : call[c].at # "add" => call[c].ip = None

\* What a call does to the routes: the address it routes is the one it is about to
\* record, and the one it records goes into the set.
LEMMA CallKeepsKnown ==
    ASSUME "command" \notin Faults, TypeOK, KnownInv, NEW c \in Callers, CallStep(c)
    PROVE  Routed' \subseteq protected' \cup InHand'
<1>0. /\ \A d \in Callers \ {c} : call'[d] = call[d]
      /\ ~RaiseTypeError(c)
  BY CallFrame DEF KnownInv
<1>n. None \notin Routed
  BY TorRoutesAssumption DEF Routed
<1>1. CASE RouteIp(c)
  <2>1. PICK ip \in Ips : /\ kernel' = [kernel EXCEPT ![ip] = gateway]
                         /\ call' = [call EXCEPT ![c].ip = ip]
    BY <1>1 DEF RouteIp, TypeOK, CallType
  <2>2. call'[c].ip = ip /\ call[c].ip = None
    BY <1>1, <2>1 DEF RouteIp, Adding, TypeOK, CallType
  <2>3. Routed' \subseteq Routed \cup {ip}
    BY <2>1 DEF Routed, TypeOK
  <2>4. InHand \subseteq InHand' \cup {None} /\ ip \in InHand'
    BY <1>0, <2>2 DEF InHand
  <2>5. protected' = protected
    BY <1>1 DEF RouteIp, memoryVars
  <2> QED
    BY <1>n, <2>3, <2>4, <2>5 DEF KnownInv
<1>2. CASE RecordIp(c)
  <2>1. Routed' = Routed /\ protected' = protected \cup {call[c].ip}
    BY <1>2 DEF RecordIp, Recorded, Routed
  <2>2. InHand \subseteq InHand' \cup {call[c].ip}
    BY <1>0 DEF InHand
  <2> QED
    BY <2>1, <2>2 DEF KnownInv
<1>3. CASE Protect(c) \/ SkipIp(c) \/ EndAdding(c) \/ Save(c)
  <2>1. UNCHANGED <<kernel, protected>>
    BY <1>3 DEF Protect, SkipIp, EndAdding, Save, memoryVars
  <2>2. Routed' = Routed
    BY <2>1 DEF Routed
  <2>3. call'[c].ip = call[c].ip \/ call[c].ip = None
    <3>1. CASE Protect(c)
      BY <3>1 DEF Protect, Idle
    <3>2. CASE SkipIp(c)
      BY <3>2 DEF SkipIp, Adding
    <3>3. CASE EndAdding(c)
      BY <3>3 DEF EndAdding, Adding
    <3>4. CASE Save(c)
      BY <3>4 DEF Save, KnownInv
    <3> QED
      BY <1>3, <3>1, <3>2, <3>3, <3>4
  <2>4. InHand \subseteq InHand' \cup {None}
    BY <1>0, <2>3 DEF InHand
  <2> QED
    BY <1>n, <2>1, <2>2, <2>4 DEF KnownInv
<1> QED
  BY <1>0, <1>1, <1>2, <1>3 DEF CallStep

\* A step of a call keeps the rest of the invariant: a call is under way, so that
\* no cleanup is.
LEMMA CallKeepsRest ==
    ASSUME "overlap" \notin Faults, "command" \notin Faults,
           TypeOK, KnownInv, NEW c \in Callers, CallStep(c)
    PROVE  KnownInv'
<1>1. /\ ~RaiseTypeError(c)
      /\ UNCHANGED <<gateway, life, cleanVars>>
      /\ \A d \in Callers \ {c} : call'[d] = call[d]
      /\ gateway # None
  BY CallFrame DEF KnownInv
<1>2. Routed' \subseteq protected' \cup InHand'
  BY CallKeepsKnown
<1>3. Alive(c)
  BY <1>1 DEF CallStep, Protect, SkipIp, RouteIp, RecordIp, EndAdding, Save, Adding
<1>4. life # "stopped"
  BY <1>3 DEF Alive
<1>5. call'[c].at # "add" => call'[c].ip = None
  <2> USE DEF TypeOK, CallType
  <2>1. CASE Protect(c)
    BY <2>1 DEF Protect, Called
  <2>2. CASE SkipIp(c)
    BY <2>2 DEF SkipIp, Adding
  <2>3. CASE RouteIp(c)
    BY <2>3 DEF RouteIp, Adding
  <2>4. CASE RecordIp(c)
    BY <2>4 DEF RecordIp
  <2>5. CASE EndAdding(c)
    BY <2>5 DEF EndAdding, Adding, Idle
  <2>6. CASE Save(c)
    BY <2>6 DEF Save, Idle
  <2> QED
    BY <1>1, <2>1, <2>2, <2>3, <2>4, <2>5, <2>6 DEF CallStep
<1>6. \A d \in Callers : call'[d].at # "add" => call'[d].ip = None
  BY <1>1, <1>5 DEF KnownInv
<1>7. clean = "idle"
  BY <1>3 DEF KnownInv, Alive, Cleaning
<1> QED
  BY <1>1, <1>2, <1>4, <1>6, <1>7 DEF KnownInv, cleanVars

\* Initially there is no route.
LEMMA KnownInit == Init => KnownInv
  BY DEF Init, KnownInv, Routed, AllIdle, Idle

\* When no call is under way none has an address in hand.
LEMMA IdleHands == AllIdle => InHand \subseteq {None}
  BY DEF AllIdle, InHand, Idle

\* Every step keeps it.
LEMMA KnownStep ==
    ASSUME Faults \subseteq {"file"}, None \notin Gateways, TypeOK, KnownInv, [Next]_vars
    PROVE  KnownInv'
<1>1. ASSUME NEW c \in Callers, CallStep(c) PROVE KnownInv'
  BY <1>1, CallKeepsRest
<1>2. CASE BeginCleanup
  <2>1. UNCHANGED <<kernel, protected, call, gateway, life>> /\ AllIdle /\ life \in Cleaning
        /\ clean' = "delete" /\ protected \subseteq routes'
    BY <1>2 DEF BeginCleanup, Known, memoryVars
  <2>2. Routed \subseteq protected
    BY <2>1, IdleHands, TorRoutesAssumption DEF KnownInv, Routed
  <2> QED
    BY <2>1, <2>2 DEF KnownInv, Routed, InHand, AllIdle
<1>3. CASE DeleteRoute
  <2>1. PICK ip \in routes : /\ kernel' = [kernel EXCEPT ![ip] = None]
                            /\ routes' = routes \ {ip}
    BY <1>3 DEF DeleteRoute
  <2>2. UNCHANGED <<protected, call, gateway, life, clean>> /\ clean = "delete"
    BY <1>3 DEF DeleteRoute, memoryVars
  <2>3. Routed' = Routed \ {ip}
    BY <2>1 DEF Routed, TypeOK
  <2> QED
    BY <2>1, <2>2, <2>3 DEF KnownInv, InHand, AllIdle, Cleaning
<1>4. CASE ClearRoutes
  <2>1. Routed = {} /\ Routed' = Routed /\ AllIdle /\ life \in Cleaning
    BY <1>4 DEF ClearRoutes, KnownInv, Routed
  <2> QED
    BY <1>4, <2>1 DEF ClearRoutes, KnownInv, InHand, AllIdle, Cleaning
<1>5. CASE UnlinkFile
  <2>1. Routed = {} /\ Routed' = Routed /\ AllIdle
    BY <1>5 DEF UnlinkFile, KnownInv, Routed
  <2>2. CASE life = "stopping"
    BY <1>5, <2>1, <2>2 DEF UnlinkFile, ProcessEnds, KnownInv, AllIdle, Idle
  <2>3. CASE life # "stopping"
    BY <1>5, <2>1, <2>3 DEF UnlinkFile, KnownInv, AllIdle, InHand, memoryVars
  <2> QED
    BY <2>2, <2>3
<1>6. CASE ReadGateway
  BY <1>6 DEF ReadGateway, KnownInv, Routed, InHand, AllIdle, cleanVars
<1>7. CASE FullRestart
  BY <1>7 DEF FullRestart, KnownInv, Routed, InHand, AllIdle, cleanVars, memoryVars, Cleaning
<1>8. CASE HandleSignal
  BY <1>8 DEF HandleSignal, KnownInv, Routed, InHand, AllIdle, memoryVars
<1>9. CASE Start
  BY <1>9 DEF Start, KnownInv, Routed, InHand, AllIdle, cleanVars, memoryVars, Cleaning
<1>10. CASE UNCHANGED vars
  BY <1>10 DEF vars, KnownInv, Routed, InHand, AllIdle, cleanVars, memoryVars
<1>11. ~Crash
  BY DEF Crash
<1> QED
  BY <1>1, <1>2, <1>3, <1>4, <1>5, <1>6, <1>7, <1>8, <1>9, <1>10, <1>11
     DEF Next, CleanupStep

\* Without overlaps, kills and failing commands, every route is in the set, in the file, or about to be
\* recorded, whatever the number of threads that add routes, and whatever becomes of
\* the file.
THEOREM NoOrphanCorrect ==
    ASSUME Faults \subseteq {"file"}, None \notin Gateways
    PROVE  Spec => []NoOrphan
<1>1. TypeOK /\ KnownInv /\ [Next]_vars => TypeOK' /\ KnownInv'
  BY TypeStep, KnownStep
<1>2. Init => TypeOK /\ KnownInv
  BY TypeInit, KnownInit
<1>3. KnownInv => NoOrphan
  BY DEF KnownInv, NoOrphan
<1> QED
  BY <1>1, <1>2, <1>3, PTL DEF Spec

\* Under the same assumptions nothing is left in the kernel when the daemon has
\* stopped.
THEOREM StoppedCleanCorrect ==
    ASSUME Faults \subseteq {"file"}, None \notin Gateways
    PROVE  Spec => []StoppedClean
<1>1. TypeOK /\ KnownInv /\ [Next]_vars => TypeOK' /\ KnownInv'
  BY TypeStep, KnownStep
<1>2. Init => TypeOK /\ KnownInv
  BY TypeInit, KnownInit
<1>3. KnownInv => StoppedClean
  BY DEF KnownInv, StoppedClean
<1> QED
  BY <1>1, <1>2, <1>3, PTL DEF Spec

(***************************************************************************)
(* The implementation of the abstract set of routes                        *)
(***************************************************************************)

\* A step of a call adds a relay, or does nothing the set of routes shows.
LEMMA CallAdds ==
    ASSUME "overlap" \notin Faults, "command" \notin Faults,
           TypeOK, KnownInv, NEW c \in Callers, CallStep(c)
    PROVE  Routes!Add \/ UNCHANGED Routes!vars
<1>1. ~RaiseTypeError(c) /\ UNCHANGED <<life, cleanVars>> /\ gateway # None
  BY CallFrame DEF KnownInv
<1>2. Alive(c) /\ Phase' = Phase
  BY <1>1 DEF CallStep, Protect, SkipIp, RouteIp, RecordIp, EndAdding, Save, Adding, Phase,
              cleanVars
<1>3. CASE RouteIp(c)
  <2>1. PICK ip \in Ips : kernel' = [kernel EXCEPT ![ip] = gateway]
    BY <1>3 DEF RouteIp, TypeOK, CallType
  <2>2. Routed' = Routed \cup {ip}
    BY <1>1, <2>1 DEF Routed, TypeOK
  <2>3. Phase \in {"up", "closing"}
    BY <1>2 DEF Alive, Phase, KnownInv, Cleaning
  <2> QED
    BY <1>2, <2>2, <2>3 DEF Routes!Add
<1>4. CASE ~RouteIp(c)
  <2>1. UNCHANGED kernel
    BY <1>1, <1>4 DEF CallStep, Protect, SkipIp, RecordIp, EndAdding, Save
  <2> QED
    BY <1>2, <2>1 DEF Routes!vars, Routed
<1> QED
  BY <1>3, <1>4

\* A step of a cleanup removes a relay, or ends the removal when there is none left.
LEMMA CleanupRemoves ==
    ASSUME "command" \notin Faults, TypeOK, KnownInv, CleanupStep
    PROVE  Routes!Next \/ UNCHANGED Routes!vars
<1>1. CASE BeginCleanup
  <2>1. Phase = "closing" /\ Phase' = "removing" /\ Routed' = Routed
    BY <1>1 DEF BeginCleanup, Phase, Routed, Cleaning
  <2> QED
    BY <2>1 DEF Routes!Next, Routes!BeginRemoval
<1>2. CASE DeleteRoute
  <2>1. PICK ip \in routes : kernel' = [kernel EXCEPT ![ip] = None]
    BY <1>2 DEF DeleteRoute
  <2>2. Routed' = Routed \ {ip}
    BY <2>1 DEF Routed, TypeOK
  <2>3. Phase = "removing" /\ Phase' = Phase
    BY <1>2 DEF DeleteRoute, Phase, KnownInv, Cleaning
  <2>4. CASE ip \in Routed
    BY <2>2, <2>3, <2>4 DEF Routes!Next, Routes!Remove
  <2>5. CASE ip \notin Routed
    BY <2>2, <2>3, <2>5 DEF Routes!vars
  <2> QED
    BY <2>4, <2>5
<1>3. CASE ClearRoutes
  <2>1. Phase' = Phase /\ Routed' = Routed
    BY <1>3 DEF ClearRoutes, Phase, Routed
  <2> QED
    BY <2>1 DEF Routes!vars
<1>4. CASE UnlinkFile
  <2>1. Phase = "removing" /\ Routed = {} /\ Routed' = Routed
    BY <1>4 DEF UnlinkFile, KnownInv, Phase, Routed, Cleaning
  <2>2. Phase' \in {"up", "down"}
    <3>1. life' \in {"stopped", "running"}
      BY <1>4 DEF UnlinkFile, ProcessEnds
    <3> QED
      BY <3>1 DEF Phase, Cleaning
  <2> QED
    BY <2>1, <2>2 DEF Routes!Next, Routes!EndRemoval
<1> QED
  BY <1>1, <1>2, <1>3, <1>4 DEF CleanupStep

\* The routes of the kernel are a set that any number of threads fill, that no step
\* but those of a cleanup takes a relay from, and that is empty whenever the daemon
\* has started, has started again or has stopped; writes and reads of the file may
\* fail.
THEOREM RouteSetImplemented ==
    ASSUME Faults \subseteq {"file"}, None \notin Gateways
    PROVE  Spec => ImplementsRouteSet
<1>1. Init => Routes!Init
  BY DEF Init, Routes!Init, Phase, Routed, Cleaning
<1>2. TypeOK /\ KnownInv /\ [Next]_vars => [Routes!Next]_(Routes!vars)
  <2> SUFFICES ASSUME TypeOK, KnownInv, [Next]_vars
               PROVE  Routes!Next \/ UNCHANGED Routes!vars
    OBVIOUS
  <2>1. ASSUME NEW c \in Callers, CallStep(c) PROVE Routes!Next \/ UNCHANGED Routes!vars
    BY <2>1, CallAdds DEF Routes!Next
  <2>2. CASE CleanupStep
    BY <2>2, CleanupRemoves
  <2>3. CASE ReadGateway \/ UNCHANGED vars
    BY <2>3 DEF ReadGateway, vars, cleanVars, Routes!vars, Phase, Routed
  <2>4. CASE FullRestart
    <3>1. Phase = "up" /\ Phase' = "closing" /\ Routed' = Routed
      BY <2>4 DEF FullRestart, cleanVars, KnownInv, Phase, Routed, Cleaning
    <3> QED
      BY <3>1 DEF Routes!Next, Routes!Close
  <2>5. CASE HandleSignal
    <3>1. Phase \in {"up", "closing", "removing"} /\ Phase' = "closing" /\ Routed' = Routed
      BY <2>5 DEF HandleSignal, Phase, Routed, Cleaning
    <3> QED
      BY <3>1 DEF Routes!Next, Routes!Close, Routes!vars
  <2>6. CASE Start
    <3>1. Phase = "down" /\ Phase' = "closing" /\ Routed' = Routed
      BY <2>6 DEF Start, cleanVars, KnownInv, Phase, Routed, Cleaning
    <3> QED
      BY <3>1 DEF Routes!Next, Routes!Start
  <2>7. ~Crash
    BY DEF Crash
  <2> QED
    BY <2>1, <2>2, <2>3, <2>4, <2>5, <2>6, <2>7 DEF Next
<1>3. TypeOK /\ KnownInv /\ [Next]_vars => TypeOK' /\ KnownInv'
  BY TypeStep, KnownStep
<1>4. Init => TypeOK /\ KnownInv
  BY TypeInit, KnownInit
<1> QED
  BY <1>1, <1>2, <1>3, <1>4, PTL DEF Spec, ImplementsRouteSet, Routes!Spec

(***************************************************************************)
(* What is taken for routed is, but for the commands that failed, even     *)
(* when the process is killed, the file is lost or the gateway is          *)
(***************************************************************************)

\* A cleanup meets no call and empties the set; a process begins with an empty set;
\* from one cleanup to the next the set, and the addresses in hand, have their
\* routes, but for those whose command failed.
RoutedInv ==
    /\ clean # "idle" => AllIdle /\ life \in Cleaning
    /\ clean = "unlink" => protected = {}
    /\ life \in {"boot", "stopped"} => protected = {} /\ AllIdle
    /\ life = "running" \/ (life = "restart" /\ clean = "idle") => protected \ failed \subseteq Routed
    /\ \A c \in Callers : call[c].ip # None => call[c].ip \in Routed \cup failed

\* A step of a call routes before it records.
LEMMA CallKeepsRouted ==
    ASSUME "overlap" \notin Faults,
           TypeOK, RoutedInv, NEW c \in Callers, CallStep(c)
    PROVE  RoutedInv'
<1> USE DEF TypeOK, memoryVars, cleanVars
<1>1. CASE RaiseTypeError(c)
  <2>1. Routed' = Routed
    BY <1>1 DEF RaiseTypeError, Routed
  <2>2. CASE ProcessEnds
    BY <2>2 DEF ProcessEnds, RoutedInv, AllIdle, Idle
  <2>3. CASE call' = [call EXCEPT ![c] = Idle] /\ UNCHANGED <<memoryVars, life, cleanVars, failed>>
    BY <2>1, <2>3 DEF RoutedInv, AllIdle, Idle
  <2> QED
    BY <1>1, <2>2, <2>3 DEF RaiseTypeError
<1>2. CASE ~RaiseTypeError(c)
  <2>1. Alive(c) /\ UNCHANGED <<life, cleanVars>>
    BY <1>2 DEF CallStep, Protect, SkipIp, RouteIp, RecordIp, EndAdding, Save, Adding
  <2>2. clean = "idle" /\ life \in {"running", "restart", "stopping"}
    BY <2>1 DEF RoutedInv, Alive, Cleaning
  <2>3. /\ Routed \cup failed \subseteq Routed' \cup failed'
        /\ protected' \subseteq protected \cup {call[c].ip}
        /\ protected' # protected => call[c].ip # None
    <3>1. CASE RouteIp(c)
      <4>1. PICK ip \in Ips :
               \/ kernel' = [kernel EXCEPT ![ip] = gateway] /\ gateway # None /\ failed' = failed \ {ip}
               \/ kernel' = kernel /\ failed' = failed \cup {ip}
        BY <3>1 DEF RouteIp, CallType
      <4>2. Routed \cup failed \subseteq Routed' \cup failed'
        BY <4>1 DEF Routed
      <4> QED
        BY <3>1, <4>2 DEF RouteIp
    <3>2. CASE Protect(c) \/ SkipIp(c) \/ RecordIp(c) \/ EndAdding(c) \/ Save(c)
      BY <3>2 DEF Protect, SkipIp, RecordIp, Recorded, EndAdding, Save, Routed
    <3> QED
      BY <1>2, <3>1, <3>2 DEF CallStep
  <2>4. call'[c].ip # None => call'[c].ip \in Routed' \cup failed'
    <3>1. CASE RouteIp(c)
      <4>1. PICK ip \in Ips : /\ \/ kernel' = [kernel EXCEPT ![ip] = gateway] /\ gateway # None
                                \/ ip \in failed'
                             /\ call' = [call EXCEPT ![c].ip = ip]
        BY <3>1 DEF RouteIp, CallType
      <4> QED
        BY <4>1 DEF Routed, CallType
    <3>2. CASE RecordIp(c)
      BY <3>2 DEF RecordIp, CallType
    <3>3. CASE Protect(c)
      BY <3>3 DEF Protect, Called
    <3>4. CASE SkipIp(c)
      BY <3>4 DEF SkipIp, Adding, CallType
    <3>5. CASE EndAdding(c)
      BY <3>5 DEF EndAdding, Adding, CallType, Idle
    <3>6. CASE Save(c)
      BY <3>6 DEF Save, Idle
    <3> QED
      BY <1>2, <3>1, <3>2, <3>3, <3>4, <3>5, <3>6 DEF CallStep
  <2>5. \A d \in Callers \ {c} : call'[d] = call[d]
    BY <1>2 DEF CallStep, Protect, SkipIp, RouteIp, RecordIp, EndAdding, Save
  <2>6. \A d \in Callers : call'[d].ip # None => call'[d].ip \in Routed' \cup failed'
    BY <2>3, <2>4, <2>5 DEF RoutedInv
  <2>7. life' = "running" \/ (life' = "restart" /\ clean' = "idle")
          => protected' \ failed' \subseteq Routed'
    BY <2>1, <2>3 DEF RoutedInv
  <2> QED
    BY <2>1, <2>2, <2>6, <2>7 DEF RoutedInv
<1> QED
  BY <1>1, <1>2

\* Every step keeps it.
LEMMA RoutedStep ==
    ASSUME "overlap" \notin Faults, TypeOK, RoutedInv, [Next]_vars
    PROVE  RoutedInv'
<1>1. ASSUME NEW c \in Callers, CallStep(c) PROVE RoutedInv'
  BY <1>1, CallKeepsRouted
<1> USE DEF memoryVars, cleanVars
<1>2. CASE BeginCleanup
  BY <1>2 DEF BeginCleanup, RoutedInv, Routed, AllIdle, Cleaning
<1>3. CASE DeleteRoute
  <2>1. AllIdle /\ life \in Cleaning
    BY <1>3 DEF DeleteRoute, RoutedInv
  <2>2. UNCHANGED <<protected, call, life, clean>> /\ clean = "delete"
    BY <1>3 DEF DeleteRoute
  <2>3. \A c \in Callers : call'[c].ip = None
    BY <2>1, <2>2 DEF AllIdle, Idle
  <2> QED
    BY <2>1, <2>2, <2>3 DEF RoutedInv, AllIdle, Cleaning
<1>4. CASE ClearRoutes
  <2>1. AllIdle /\ life \in Cleaning
    BY <1>4 DEF ClearRoutes, RoutedInv
  <2>2. UNCHANGED <<call, life>> /\ protected' = {} /\ clean' = "unlink"
    BY <1>4 DEF ClearRoutes, Cleared
  <2>3. \A c \in Callers : call'[c].ip = None
    BY <2>1, <2>2 DEF AllIdle, Idle
  <2> QED
    BY <2>1, <2>2, <2>3 DEF RoutedInv, AllIdle, Cleaning
<1>5. CASE UnlinkFile
  <2>1. protected = {} /\ AllIdle
    BY <1>5 DEF UnlinkFile, RoutedInv
  <2>2. CASE life = "stopping"
    BY <1>5, <2>2 DEF UnlinkFile, ProcessEnds, RoutedInv, AllIdle, Idle
  <2>3. CASE life # "stopping"
    BY <1>5, <2>1, <2>3 DEF UnlinkFile, RoutedInv, AllIdle, Idle
  <2> QED
    BY <2>2, <2>3
<1>6. CASE ReadGateway \/ FullRestart \/ Start
  BY <1>6 DEF ReadGateway, FullRestart, Start, RoutedInv, Routed, AllIdle, Cleaning
<1>7. CASE HandleSignal
  BY <1>7 DEF HandleSignal, RoutedInv, Routed, AllIdle
<1>8. CASE Crash
  BY <1>8 DEF Crash, ProcessEnds, RoutedInv, AllIdle, Idle
<1>9. CASE UNCHANGED vars
  BY <1>9 DEF vars, RoutedInv, Routed, AllIdle
<1> QED
  BY <1>1, <1>2, <1>3, <1>4, <1>5, <1>6, <1>7, <1>8, <1>9 DEF Next, CleanupStep

\* While the daemon runs every address it takes for routed has a route, unless the
\* ip route replace of that address failed: whatever else fails, ip route del and
\* the file included, as long as a cleanup meets no call.
THEOREM ProtectedIsRoutedCorrect ==
    ASSUME "overlap" \notin Faults
    PROVE  Spec => []ProtectedIsRouted
<1>1. TypeOK /\ RoutedInv /\ [Next]_vars => TypeOK' /\ RoutedInv'
  BY TypeStep, RoutedStep
<1>2. Init => TypeOK /\ RoutedInv
  BY TypeInit DEF Init, RoutedInv, AllIdle, Idle
<1>3. RoutedInv => ProtectedIsRouted
  BY DEF RoutedInv, ProtectedIsRouted
<1> QED
  BY <1>1, <1>2, <1>3, PTL DEF Spec

(***************************************************************************)
(* The relays of a call are routed when it is over                         *)
(***************************************************************************)

\* What a call was asked for is done, or still to do.
AskedInv ==
    \A c \in Callers :
        call[c].asked \subseteq protected \cup (IF call[c].at = "add" THEN call[c].todo ELSE {})

\* The gateway of the loop's attempt is there as long as its call.
LoopGateway == call[Loop] # Idle => gateway # None

\* A call keeps both: an address leaves its list when it is in the set, and another
\* call that ends in a TypeError leaves the gateway as it was.
LEMMA AskedCall ==
    ASSUME TypeOK, LoopGateway, AskedInv, NEW c \in Callers, CallStep(c)
    PROVE  AskedInv' /\ LoopGateway'
<1> USE DEF TypeOK, CallType, AskedInv, LoopGateway, memoryVars
<1>0. Loop \in Callers
  BY TorRoutesAssumption
<1>1. CASE ProcessEnds
  BY <1>0, <1>1 DEF ProcessEnds, Idle
<1>2. CASE RaiseTypeError(c) /\ ~ProcessEnds
  <2>1. call' = [call EXCEPT ![c] = Idle] /\ UNCHANGED <<gateway, protected>>
    BY <1>2 DEF RaiseTypeError
  <2> QED
    BY <1>0, <2>1 DEF Idle
<1>3. CASE ~RaiseTypeError(c)
  <2>1. \A d \in Callers \ {c} : call'[d] = call[d]
    BY <1>3 DEF CallStep, Protect, SkipIp, RouteIp, RecordIp, EndAdding, Save
  <2>2. protected \subseteq protected' /\ gateway' = gateway
    BY <1>3 DEF CallStep, Protect, SkipIp, RouteIp, RecordIp, Recorded, EndAdding, Save
  <2>3. /\ call'[c].asked
             \subseteq protected' \cup (IF call'[c].at = "add" THEN call'[c].todo ELSE {})
        /\ call'[c] # Idle => call[c] # Idle \/ gateway # None
    <3>1. CASE Protect(c)
      BY <3>1 DEF Protect, Called
    <3>2. CASE SkipIp(c)
      BY <3>2 DEF SkipIp, Adding, Idle
    <3>3. CASE RouteIp(c)
      BY <3>3 DEF RouteIp, Adding
    <3>4. CASE RecordIp(c)
      BY <3>4 DEF RecordIp, Recorded, Idle
    <3>5. CASE EndAdding(c)
      BY <3>5 DEF EndAdding, Adding, Idle
    <3>6. CASE Save(c)
      BY <3>6 DEF Save, Idle
    <3> QED
      BY <1>3, <3>1, <3>2, <3>3, <3>4, <3>5, <3>6 DEF CallStep
  <2>4. AskedInv'
    BY <2>1, <2>2, <2>3
  <2>5. LoopGateway'
    <3>1. CASE c = Loop
      BY <2>2, <2>3, <3>1
    <3>2. CASE c # Loop
      BY <1>0, <2>1, <2>2, <3>2
    <3> QED
      BY <3>1, <3>2
  <2> QED
    BY <2>4, <2>5
<1> QED
  BY <1>1, <1>2, <1>3

\* So does every other step: a cleanup that empties the set meets no call, and the loop
\* looks for a gateway between its calls.
LEMMA AskedStep ==
    ASSUME TypeOK, RoutedInv, AskedInv, LoopGateway, [Next]_vars
    PROVE  AskedInv' /\ LoopGateway'
<1> USE DEF AskedInv, LoopGateway, memoryVars
<1>0. Loop \in Callers
  BY TorRoutesAssumption
<1>1. ASSUME NEW c \in Callers, CallStep(c) PROVE AskedInv' /\ LoopGateway'
  BY <1>1, AskedCall
<1>2. CASE ClearRoutes
  BY <1>0, <1>2 DEF ClearRoutes, RoutedInv, AllIdle, Idle
<1>3. CASE UnlinkFile \/ Crash
  <2>1. CASE ProcessEnds
    BY <1>0, <2>1 DEF ProcessEnds, Idle
  <2>2. CASE ~ProcessEnds
    <3>1. UNCHANGED <<gateway, protected, call>>
      BY <1>3, <2>2 DEF UnlinkFile, Crash
    <3> QED
      BY <3>1
  <2> QED
    BY <2>1, <2>2
<1>4. CASE BeginCleanup \/ DeleteRoute \/ ReadGateway \/ FullRestart \/ HandleSignal \/ Start
           \/ UNCHANGED vars
  BY <1>4 DEF BeginCleanup, DeleteRoute, ReadGateway, FullRestart, HandleSignal, Start, vars
<1> QED
  BY <1>1, <1>2, <1>3, <1>4 DEF Next, CleanupStep

\* When the call the loop makes before the tunnel takes the default route is over,
\* each relay whose command did not fail is routed through the gateway, whatever the
\* other threads route at the same time, whatever kills, failed removals, failures of
\* the file and lost gateways there were: with one gateway there may be, and no call
\* that overlaps a cleanup.
THEOREM RelaysRoutedCorrect ==
    ASSUME "overlap" \notin Faults, NEW g, g # None, Gateways \subseteq {g, None}
    PROVE  Spec => RelaysRouted
<1> DEFINE Inv == TypeOK /\ RoutedInv /\ AskedInv /\ LoopGateway
<1>1. Init => Inv
  BY TypeInit, TorRoutesAssumption DEF Init, RoutedInv, AskedInv, LoopGateway, AllIdle, Idle
<1>2. Inv /\ [Next]_vars => Inv'
  BY TypeStep, RoutedStep, AskedStep
<1>3. Inv /\ [Next]_vars =>
        [LoopCallEnds => \A ip \in call[Loop].asked \ failed : kernel[ip] = gateway]_vars
  <2> SUFFICES ASSUME Inv, Next, life' = "running", call[Loop] # Idle, call'[Loop] = Idle
               PROVE  \A ip \in call[Loop].asked \ failed : kernel[ip] = gateway
    BY DEF LoopCallEnds
  <2>0. Loop \in Callers
    BY TorRoutesAssumption
  <2>1. gateway = g
    BY <2>0 DEF LoopGateway, TypeOK
  <2>2. CallStep(Loop)
    <3>1. ~ProcessEnds
      BY DEF ProcessEnds
    <3>2. UNCHANGED call \/ \E c \in Callers : CallStep(c)
      BY <3>1 DEF Next, CleanupStep, BeginCleanup, DeleteRoute, ClearRoutes, UnlinkFile, Crash,
                  ReadGateway, FullRestart, HandleSignal, Start
    <3>3. PICK c \in Callers : CallStep(c)
      BY <3>2
    <3>4. \A d \in Callers \ {c} : call'[d] = call[d]
      BY <3>1, <3>3 DEF CallStep, Protect, SkipIp, RouteIp, RaiseTypeError, RecordIp, EndAdding,
                        Save, TypeOK
    <3> QED
      BY <2>0, <3>3, <3>4
  <2>3. EndAdding(Loop) \/ Save(Loop)
    <3>1. ~RaiseTypeError(Loop)
      BY <2>0 DEF RaiseTypeError, NeedsGateway, LoopGateway
    <3>2. call'[Loop].at # "add" /\ call'[Loop].at # "save"
      BY DEF Idle
    <3>3. ~Protect(Loop)
      BY DEF Protect
    <3>4. ~SkipIp(Loop) /\ ~RouteIp(Loop)
      BY <2>0, <3>2 DEF SkipIp, RouteIp, Adding, TypeOK, CallType
    <3>5. ~RecordIp(Loop)
      <4>1. RecordIp(Loop) => call'[Loop].added
        BY <2>0 DEF RecordIp, TypeOK, CallType
      <4> QED
        BY <4>1 DEF Idle
    <3> QED
      BY <2>2, <3>1, <3>3, <3>4, <3>5 DEF CallStep
  <2>4. call[Loop].asked \subseteq protected
    BY <2>0, <2>3 DEF EndAdding, Save, Adding, AskedInv
  <2>5. protected \ failed \subseteq Routed
    <3>1. life = "running"
      BY <2>3 DEF EndAdding, Save, Adding, cleanVars
    <3> QED
      BY <3>1 DEF RoutedInv
  <2> QED
    BY <2>1, <2>4, <2>5 DEF Routed, TypeOK
<1> QED
  BY <1>1, <1>2, <1>3, PTL DEF Spec, RelaysRouted
=============================================================================
