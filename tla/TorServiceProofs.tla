-------------------------- MODULE TorServiceProofs --------------------------
(***************************************************************************)
(* Proofs about TorService, for any number of threads and of retries:      *)
(* types, the single Tor and Tor thread, the freshness of the event, and   *)
(* the budget of the attempts.                                             *)
(***************************************************************************)
EXTENDS TorService, TLAPS

\* Only the last thread started is there.
LastThreadOnly == \A t \in Threads : thread[t] # "none" => t = tor_thread

\* A thread that is there has retries left.
RetriesLeft == (\E t \in Threads : thread[t] # "none") => reconnects <= RECONNECT_MAX

\* Without an exception, whoever has a Tor reads it.
TorIsRead == ~raised => \A t \in Threads : Alive(t) => thread[t] = "read"

TorInv == TypeOK /\ LastThreadOnly /\ RetriesLeft /\ TorIsRead

\* The numbers a start sets.
LEMMA Small ==
    /\ 0 \in 0 .. RECONNECT_MAX + 1 /\ 0 <= RECONNECT_MAX
    /\ 0 \in 0 .. StraysMax /\ {0, 1} \subseteq 0 .. StraysMax
  BY TorServiceAssumption

\* A new process has no thread and no Tor.
LEMMA TorInit == Init => TorInv
<1> SUFFICES ASSUME Init PROVE TorInv
  OBVIOUS
<1>1. TypeOK
  BY Small, TorServiceAssumption
     DEF Init, TypeOK, MainStates, Starting, Stopping, ThreadStates
<1>2. LastThreadOnly /\ RetriesLeft /\ TorIsRead
  BY Small DEF Init, LastThreadOnly, RetriesLeft, TorIsRead, Alive
<1> QED
  BY <1>1, <1>2 DEF TorInv

\* A move of a thread that is there.
LEMMA AtKeeps ==
    ASSUME TorInv, NEW t \in Threads, NEW from \in ThreadStates \ {"none"}, NEW to \in ThreadStates,
           At(t, from, to), UNCHANGED tor_thread
    PROVE  thread' \in [Threads -> ThreadStates] /\ LastThreadOnly' /\ RetriesLeft
  BY DEF At, TorInv, TypeOK, LastThreadOnly, RetriesLeft

\* The steps of a Tor thread keep the invariant.
LEMMA ThreadKeeps ==
    ASSUME TorInv, NEW t \in Threads, ThreadStep(t) \/ NotFound(t) \/ Raise(t)
    PROVE  TorInv'
<1> USE TorServiceAssumption DEF torVars, eventVars, threadVars
<1>1. CASE Launch(t)
  <2>1. thread' \in [Threads -> ThreadStates] /\ LastThreadOnly' /\ reconnects <= RECONNECT_MAX
    BY <1>1, AtKeeps DEF Launch, ThreadStates, At, RetriesLeft
  <2>2. strays' \in 0 .. StraysMax
    BY <1>1 DEF Launch, TorInv, TypeOK
  <2>3. TypeOK'
    BY <1>1, <2>1, <2>2 DEF Launch, TorInv, TypeOK
  <2>4. TorIsRead'
    BY <1>1 DEF Launch, At, TorInv, TypeOK, TorIsRead, Alive
  <2> QED
    BY <1>1, <2>1, <2>3, <2>4 DEF Launch, TorInv, RetriesLeft
<1>2. CASE ReadReady(t)
  <2>1. TypeOK' /\ RetriesLeft'
    BY <1>2, Small DEF ReadReady, TorInv, TypeOK, RetriesLeft
  <2> QED
    BY <1>2, <2>1 DEF ReadReady, TorInv, LastThreadOnly, TorIsRead, Alive
<1>3. CASE Ended(t)
  <2>1. thread' \in [Threads -> ThreadStates] /\ LastThreadOnly' /\ reconnects <= RECONNECT_MAX
    BY <1>3, AtKeeps DEF Ended, ThreadStates, At, RetriesLeft
  <2>2. TypeOK'
    BY <1>3, <2>1 DEF Ended, TorInv, TypeOK, Cleared
  <2>3. TorIsRead'
    BY <1>3 DEF Ended, At, TorInv, TypeOK, TorIsRead, Alive
  <2> QED
    BY <1>3, <2>1, <2>2, <2>3 DEF Ended, TorInv, RetriesLeft
<1>4. CASE Decide(t)
  <2>1. PICK to \in ThreadStates : At(t, "decide", to)
    BY <1>4 DEF Decide, ThreadStates
  <2>2. thread' \in [Threads -> ThreadStates] /\ LastThreadOnly' /\ reconnects <= RECONNECT_MAX
    BY <1>4, <2>1, AtKeeps DEF Decide, ThreadStates, At, RetriesLeft
  <2>3. reconnects' \in 0 .. RECONNECT_MAX + 1
    BY <1>4, <2>2 DEF Decide, Counted, TorInv, TypeOK
  <2>4. RetriesLeft'
    <3>1. CASE reconnects' <= RECONNECT_MAX
      BY <3>1 DEF RetriesLeft
    <3>2. CASE ~(reconnects' <= RECONNECT_MAX)
      <4>1. thread'[t] = "none"
        BY <1>4, <2>2, <2>3, <3>2 DEF Decide, Counted, TooMany, At, TorInv, TypeOK
      <4>2. \A s \in Threads : thread[s] # "none" => s = t
        BY <2>1 DEF At, TorInv, LastThreadOnly
      <4> QED
        BY <2>1, <4>1, <4>2 DEF At, RetriesLeft, TorInv, TypeOK
    <3> QED
      BY <3>1, <3>2
  <2>5. TypeOK'
    BY <1>4, <2>2, <2>3 DEF Decide, TorInv, TypeOK
  <2>6. TorIsRead'
    BY <1>4, <2>1 DEF Decide, At, TorInv, TypeOK, TorIsRead, Alive
  <2> QED
    BY <2>2, <2>4, <2>5, <2>6 DEF TorInv
<1>5. CASE Resume(t) \/ NotFound(t) \/ Raise(t)
  <2>1. PICK from \in ThreadStates \ {"none"}, to \in ThreadStates : At(t, from, to)
    BY <1>5 DEF Resume, NotFound, Raise, ThreadStates
  <2>2. UNCHANGED <<auto_reconnect, main, tor_thread, torVars, stop_tor_flag, eventVars,
                    reconnects, doomed>>
    BY <1>5 DEF Resume, NotFound, Raise
  <2>3. thread' \in [Threads -> ThreadStates] /\ LastThreadOnly' /\ reconnects <= RECONNECT_MAX
    BY <2>1, <2>2, AtKeeps DEF At, RetriesLeft
  <2>4. raised' \in BOOLEAN
    BY <1>5 DEF Resume, NotFound, Raise, TorInv, TypeOK
  <2>5. TorIsRead'
    BY <1>5 DEF Resume, NotFound, Raise, At, TorInv, TypeOK, TorIsRead, Alive
  <2> QED
    BY <2>2, <2>3, <2>4, <2>5 DEF TorInv, TypeOK, RetriesLeft
<1> QED
  BY <1>1, <1>2, <1>3, <1>4, <1>5 DEF ThreadStep

\* So do the start and the wait.
LEMMA StartKeeps ==
    ASSUME TorInv, StartTor \/ FreePort \/ NewThread \/ StartCancelled \/ WaitStep
    PROVE  TorInv'
<1> USE TorServiceAssumption DEF torVars, eventVars, threadVars, MainMove, MainStates, Starting, Stopping
<1>1. CASE StartTor \/ StartCancelled \/ WaitStep
  BY <1>1 DEF StartTor, StartCancelled, WaitStep, SeeReady, AskControlPort, SetReady,
              WaitTimesOut, TorInv, TypeOK, LastThreadOnly, RetriesLeft, TorIsRead, Alive
<1>2. CASE FreePort
  <2>1. strays' \in 0 .. StraysMax /\ proc' \in [Threads -> {"none", "alive", "dead"}]
    BY <1>2, Small DEF FreePort, KillAll, TorInv, TypeOK, Alive
  <2>2. \A t \in Threads : Alive(t)' => Alive(t)
    BY <1>2 DEF FreePort, KillAll, Alive, TorInv, TypeOK
  <2> QED
    BY <1>2, <2>1, <2>2 DEF FreePort, TorInv, TypeOK, LastThreadOnly, RetriesLeft, TorIsRead
<1>3. CASE NewThread
  <2>1. PICK t \in Threads : At(t, "none", "launch") /\ ~Alive(t) /\ tor_thread' = t
    BY <1>3 DEF NewThread
  <2>2. \A s \in Threads : thread[s] = "none"
    BY <1>3 DEF NewThread, OldThreadGone, TorInv, LastThreadOnly
  <2>3. thread' \in [Threads -> ThreadStates] /\ LastThreadOnly'
    BY <2>1, <2>2 DEF At, TorInv, TypeOK, LastThreadOnly, ThreadStates
  <2>4. TypeOK' /\ RetriesLeft'
    BY <1>3, <2>1, <2>3, Small DEF NewThread, Cleared, TorInv, TypeOK, RetriesLeft
  <2>5. TorIsRead'
    BY <1>3, <2>1, <2>2 DEF NewThread, At, TorInv, TypeOK, TorIsRead, Alive
  <2> QED
    BY <2>3, <2>4, <2>5 DEF TorInv
<1> QED
  BY <1>1, <1>2, <1>3

\* And a restart, of the services or of the daemon.
LEMMA RestartKeeps ==
    ASSUME TorInv, RaiseFlag \/ StopTor \/ ClearReady \/ LowerFlag \/ ForgetReady \/ SystemdRestart
    PROVE  TorInv'
<1> USE TorServiceAssumption DEF torVars, eventVars, threadVars, MainMove, MainStates, Starting, Stopping
<1>1. CASE RaiseFlag \/ ClearReady \/ ForgetReady
  BY <1>1 DEF RaiseFlag, ClearReady, ForgetReady, Cleared, TorInv, TypeOK, LastThreadOnly,
              RetriesLeft, TorIsRead, Alive
<1>2. CASE LowerFlag
  BY <1>2, Small DEF LowerFlag, TorInv, TypeOK, LastThreadOnly, RetriesLeft, TorIsRead, Alive
<1>3. CASE StopTor
  <2>1. strays' \in 0 .. StraysMax /\ proc' \in [Threads -> {"none", "alive", "dead"}]
    BY <1>3, Small DEF StopTor, KillAll, TorInv, TypeOK, Alive
  <2>2. \A t \in Threads : Alive(t)' => Alive(t)
    BY <1>3 DEF StopTor, KillAll, Alive, TorInv, TypeOK
  <2>3. main' \in MainStates /\ doomed' \subseteq Threads
    BY <1>3 DEF StopTor, TorInv, TypeOK
  <2> QED
    BY <1>3, <2>1, <2>2, <2>3 DEF StopTor, TorInv, TypeOK, LastThreadOnly, RetriesLeft, TorIsRead
<1>4. CASE SystemdRestart
  <2>1. TypeOK'
    BY <1>4, Small DEF SystemdRestart, TorInv, TypeOK, ThreadStates
  <2> QED
    BY <1>4, <2>1, Small DEF SystemdRestart, TorInv, LastThreadOnly, RetriesLeft, TorIsRead, Alive
<1> QED
  BY <1>1, <1>2, <1>3, <1>4

\* And what a Tor does of itself.
LEMMA TorKeeps ==
    ASSUME TorInv, (\E t \in Threads : Bootstraps(t)) \/ TorExits
    PROVE  TorInv'
<1> USE TorServiceAssumption DEF torVars, eventVars, threadVars
<1>1. CASE \E t \in Threads : Bootstraps(t)
  BY <1>1 DEF Bootstraps, TorInv, TypeOK, LastThreadOnly, RetriesLeft, TorIsRead, Alive
<1>2. CASE TorExits
  <2>1. strays' \in 0 .. StraysMax /\ proc' \in [Threads -> {"none", "alive", "dead"}]
    BY <1>2 DEF TorExits, TorInv, TypeOK, Alive
  <2>2. \A t \in Threads : Alive(t)' => Alive(t)
    BY <1>2 DEF TorExits, Alive, TorInv, TypeOK
  <2> QED
    BY <1>2, <2>1, <2>2 DEF TorExits, TorInv, TypeOK, LastThreadOnly, RetriesLeft, TorIsRead
<1> QED
  BY <1>1, <1>2

\* The strengthened invariant holds throughout.
LEMMA TorInductive == Spec => []TorInv
<1>1. TorInv /\ [Next]_vars => TorInv'
  <2> SUFFICES ASSUME TorInv, [Next]_vars PROVE TorInv'
    OBVIOUS
  <2>1. CASE Next
    BY <2>1, ThreadKeeps, StartKeeps, RestartKeeps, TorKeeps DEF Next, MainStep
  <2>2. CASE UNCHANGED vars
    BY <2>2 DEF vars, torVars, eventVars, threadVars, TorInv, TypeOK, LastThreadOnly,
                RetriesLeft, TorIsRead, Alive
  <2> QED
    BY <2>1, <2>2
<1> QED
  BY <1>1, TorInit, PTL DEF Spec

\* Every reachable state is well typed, the retries within their bound.
THEOREM TorTypeCorrect == Spec => []TypeOK
<1>1. TorInv => TypeOK
  BY DEF TorInv
<1> QED
  BY <1>1, TorInductive, PTL

\* One Tor thread at most, and one Tor unless an exception left one behind, for
\* any number of restarts: what the wait for the old thread is for (tor.py:39).
THEOREM OneTorCorrect == Spec => []OneTor
<1>1. TorInv => OneTor
  <2> SUFFICES ASSUME TorInv PROVE OneTor
    OBVIOUS
  <2>1. \A s, t \in Threads : thread[s] # "none" /\ thread[t] # "none" => s = t
    BY DEF TorInv, LastThreadOnly
  <2>2. ~raised => \A s, t \in Threads : Alive(s) /\ Alive(t) => s = t
    BY DEF TorInv, LastThreadOnly, TorIsRead
  <2> QED
    BY <2>1, <2>2 DEF OneTor
<1> QED
  BY <1>1, TorInductive, PTL

-----------------------------------------------------------------------------
(* The readiness of a Tor that was stopped is never acted on               *)

\* Outside of the steps between its end and the six seconds, nobody reads what a
\* Tor that was stopped has written.
DoomedIsRead == main \notin {"clear", "settle"} => Drained

\* The event that such a Tor raised is forgotten before the next start.
StaleIsForgotten == tor_ready /\ stale => main \in {"clear", "settle", "lower"}

FreshInv == TorInv /\ DoomedIsRead /\ StaleIsForgotten

\* The steps of the threads keep it: a thread reads again only a Tor of its own
\* that is new.
LEMMA FreshThread ==
    ASSUME FreshInv, NEW t \in Threads, ThreadStep(t) \/ NotFound(t) \/ Raise(t)
    PROVE  DoomedIsRead' /\ StaleIsForgotten'
<1> USE DEF FreshInv, TorInv, TypeOK, DoomedIsRead, StaleIsForgotten, Drained, At
<1>1. CASE Launch(t)
  BY <1>1 DEF Launch, eventVars
<1>2. CASE ReadReady(t)
  BY <1>2 DEF ReadReady, threadVars
<1>3. CASE Ended(t)
  BY <1>3 DEF Ended, Cleared
<1>4. CASE Decide(t)
  BY <1>4 DEF Decide, eventVars
<1>5. CASE Resume(t) \/ NotFound(t) \/ Raise(t)
  BY <1>5 DEF Resume, NotFound, Raise, eventVars
<1> QED
  BY <1>1, <1>2, <1>3, <1>4, <1>5 DEF ThreadStep

\* So do those of the main thread and of the Tors.
LEMMA FreshMain ==
    ASSUME FreshInv, MainStep \/ RaiseFlag \/ SystemdRestart \/ TorExits \/ (\E t \in Threads : Bootstraps(t))
    PROVE  DoomedIsRead' /\ StaleIsForgotten'
<1> USE DEF FreshInv, TorInv, TypeOK, DoomedIsRead, StaleIsForgotten, Drained, MainMove,
            threadVars, eventVars
<1>1. CASE StartTor \/ FreePort \/ StartCancelled \/ WaitStep
  BY <1>1 DEF StartTor, FreePort, StartCancelled, WaitStep, SeeReady, AskControlPort,
              SetReady, WaitTimesOut
<1>2. CASE NewThread
  BY <1>2 DEF NewThread, Cleared, At
<1>3. CASE StopTor \/ ClearReady \/ LowerFlag \/ ForgetReady \/ RaiseFlag
  BY <1>3 DEF StopTor, ClearReady, LowerFlag, ForgetReady, RaiseFlag, Cleared
<1>4. CASE SystemdRestart
  BY <1>4 DEF SystemdRestart
<1>5. CASE TorExits \/ (\E t \in Threads : Bootstraps(t))
  BY <1>5 DEF TorExits, Bootstraps
<1> QED
  BY <1>1, <1>2, <1>3, <1>4, <1>5 DEF MainStep

\* The services are never started on the word of a Tor that a restart stopped, for
\* any number of threads and of restarts (watchdog.py:96).
THEOREM ReadyIsFreshCorrect == Spec => ReadyIsFresh
<1>1. Init => DoomedIsRead /\ StaleIsForgotten
  BY DEF Init, DoomedIsRead, StaleIsForgotten, Drained
<1>2. FreshInv /\ [Next]_vars => DoomedIsRead' /\ StaleIsForgotten'
  <2> SUFFICES ASSUME FreshInv, [Next]_vars PROVE DoomedIsRead' /\ StaleIsForgotten'
    OBVIOUS
  <2>1. CASE Next
    BY <2>1, FreshThread, FreshMain DEF Next
  <2>2. CASE UNCHANGED vars
    BY <2>2 DEF vars, threadVars, eventVars, FreshInv, DoomedIsRead, StaleIsForgotten, Drained
  <2> QED
    BY <2>1, <2>2
<1>3. FreshInv /\ [Next]_vars => [main # "up" /\ main' = "up" => ~stale']_vars
  <2> SUFFICES ASSUME FreshInv, Next, main # "up", main' = "up" PROVE ~stale'
    OBVIOUS
  <2>1. SeeReady \/ SetReady
    BY DEF Next, MainStep, WaitStep, MainMove, ThreadStep, Launch, ReadReady, Ended, Decide,
           Resume, NotFound, Raise, Bootstraps, TorExits, RaiseFlag, SystemdRestart, StartTor,
           FreePort, NewThread, StartCancelled, AskControlPort, WaitTimesOut, StopTor,
           ClearReady, LowerFlag, ForgetReady
  <2> QED
    BY <2>1 DEF SeeReady, SetReady, MainMove, FreshInv, TorInv, TypeOK, StaleIsForgotten, eventVars
<1> QED
  BY <1>1, <1>2, <1>3, TorInductive, PTL DEF Spec, FreshInv, ReadyIsFresh

-----------------------------------------------------------------------------
(* The attempts of a Tor thread come to an end                             *)

\* What is left of a budget is a tuple of naturals.
LEMMA BudgetNat ==
    ASSUME TorInv, NEW t \in Threads, thread[t] # "none"
    PROVE  AllNat(Budget(t))
  BY TorServiceAssumption DEF AllNat, Budget, StepsToEnd, TorInv, TypeOK, RetriesLeft

\* A step of the thread that is there spends.
LEMMA ThreadSpends ==
    ASSUME TorInv, NEW t \in Threads, ThreadStep(t) \/ NotFound(t) \/ Raise(t)
    PROVE  Below(Budget(t)', Budget(t))
<1> USE TorServiceAssumption DEF TorInv, TypeOK, Budget, StepsToEnd, Below, At
<1>1. CASE Launch(t)
  <2>1. /\ unread'[t] = FALSE /\ reconnects' = reconnects
        /\ thread[t] = "launch" /\ thread'[t] = "read"
    BY <1>1 DEF Launch
  <2>2. CASE unread[t]
    BY <2>1, <2>2
  <2>3. CASE ~unread[t]
    BY <2>1, <2>3
  <2> QED
    BY <2>2, <2>3
<1>2. CASE ReadReady(t)
  BY <1>2 DEF ReadReady
<1>3. CASE Decide(t)
  <2>1. /\ unread'[t] = unread[t] /\ thread[t] = "decide"
        /\ \/ reconnects' = reconnects /\ thread'[t] = "none"
           \/ reconnects' = reconnects + 1
    BY <1>3 DEF Decide, Counted, torVars
  <2> QED
    BY <2>1
<1>4. CASE Ended(t) \/ Resume(t) \/ NotFound(t) \/ Raise(t)
  <2>1. /\ unread'[t] = unread[t] /\ reconnects' = reconnects
        /\ \/ thread[t] = "read" /\ thread'[t] = "decide"
           \/ thread[t] = "pause" /\ thread'[t] \in {"none", "launch"}
           \/ thread[t] = "launch" /\ thread'[t] = "none"
    BY <1>4 DEF Ended, Resume, NotFound, Raise, torVars
  <2> QED
    BY <2>1
<1> QED
  BY <1>1, <1>2, <1>3, <1>4 DEF ThreadStep

\* Every other step moves the main thread, bootstraps a Tor or leaves the budgets.
LEMMA OthersKeep ==
    ASSUME TorInv, NEW t \in Threads,
           \/ MainStep \/ RaiseFlag \/ SystemdRestart \/ (\E s \in Threads : Bootstraps(s))
           \/ TorExits,
           main' = main, \A s \in Threads : booted'[s] => booted[s]
    PROVE  Budget(t)' = Budget(t) /\ thread'[t] = thread[t]
<1>1. ~(MainStep \/ RaiseFlag \/ SystemdRestart)
  BY DEF MainStep, WaitStep, MainMove, RaiseFlag, SystemdRestart, StartTor, FreePort, NewThread,
         StartCancelled, SeeReady, AskControlPort, SetReady, WaitTimesOut, StopTor, ClearReady,
         LowerFlag, ForgetReady
<1>2. ~(\E s \in Threads : Bootstraps(s))
  BY DEF Bootstraps, TorInv, TypeOK
<1>3. UNCHANGED <<thread, unread, reconnects>>
  BY <1>1, <1>2 DEF TorExits, threadVars
<1> QED
  BY <1>3 DEF Budget, StepsToEnd

\* A Tor thread makes no endless run of attempts, whatever RECONNECT_MAX is: from one
\* bootstrap, or move of the main thread, to the next it takes at most the steps its
\* budget has (tor.py:105).
THEOREM AttemptsSpendCorrect == Spec => AttemptsSpend
<1>1. TorInv /\ [Next]_vars =>
        [main' = main /\ (\A t \in Threads : booted'[t] => booted[t]) =>
           \A t \in Threads : thread[t] # "none" =>
              /\ AllNat(Budget(t))
              /\ \/ Below(Budget(t)', Budget(t))
                 \/ Budget(t)' = Budget(t) /\ thread'[t] = thread[t]]_vars
  <2> SUFFICES ASSUME TorInv, Next, main' = main, \A t \in Threads : booted'[t] => booted[t],
                      NEW t \in Threads, thread[t] # "none"
               PROVE  /\ AllNat(Budget(t))
                      /\ \/ Below(Budget(t)', Budget(t))
                         \/ Budget(t)' = Budget(t) /\ thread'[t] = thread[t]
    OBVIOUS
  <2>1. AllNat(Budget(t))
    BY BudgetNat
  <2>2. CASE \E s \in Threads : ThreadStep(s) \/ NotFound(s) \/ Raise(s)
    <3>1. PICK s \in Threads : ThreadStep(s) \/ NotFound(s) \/ Raise(s)
      BY <2>2
    <3>2. thread[s] # "none"
      BY <3>1 DEF ThreadStep, Launch, ReadReady, Ended, Decide, Resume, NotFound, Raise, At
    <3>3. s = t
      BY <3>2 DEF TorInv, LastThreadOnly
    <3> QED
      BY <2>1, <3>1, <3>3, ThreadSpends
  <2>3. CASE ~(\E s \in Threads : ThreadStep(s) \/ NotFound(s) \/ Raise(s))
    <3>1. MainStep \/ RaiseFlag \/ SystemdRestart \/ (\E s \in Threads : Bootstraps(s)) \/ TorExits
      BY <2>3 DEF Next
    <3> QED
      BY <2>1, <3>1, OthersKeep
  <2> QED
    BY <2>2, <2>3
<1> QED
  BY <1>1, TorInductive, PTL DEF Spec, AttemptsSpend
=============================================================================
