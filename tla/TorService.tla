----------------------------- MODULE TorService -----------------------------
(***************************************************************************)
(* The Tor process and its thread (daemon/tor.py) under the main thread,   *)
(* which starts them, waits for the bootstrap (core.py) and stops them in  *)
(* a full restart (watchdog.py).  What the rest of the daemon does with a  *)
(* Tor that is ready is the matter of Lifecycle.                           *)
(***************************************************************************)
EXTENDS Integers, Lexicographic

CONSTANTS
    Threads,            \* the threads on _run_tor there may be
    None,               \* no thread
    AutoReconnect,      \* the values config["auto_reconnect"] may have
    RECONNECT_MAX,
    StraysMax           \* bound on the Tor processes no thread reads

ASSUME TorServiceAssumption ==
    /\ None \notin Threads
    /\ AutoReconnect \subseteq BOOLEAN
    /\ RECONNECT_MAX \in Nat
    /\ StraysMax \in Nat \ {0}

VARIABLES
    auto_reconnect,
    main,               \* where the main thread is
    tor_thread,         \* _tor_thread
    thread,             \* where each Tor thread is
    proc,               \* the Tor each thread started last
    booted,             \* whether that Tor has bootstrapped
    unread,             \* "Bootstrapped 100%" is in its output, not read yet
    owner,              \* the thread whose Tor tor_process is
    strays,             \* Tor processes alive that nobody reads
    stop_tor_flag,      \* _stop_tor_flag
    tor_ready,          \* _tor_ready
    reconnects,         \* _reconnect_tor_count
    doomed,             \* history: Tors that were alive in the last _stop_tor
    stale,              \* history: tor_ready was last set by a doomed one
    raised              \* history: an exception left a Tor behind

threadVars == <<thread, tor_thread>>
torVars == <<proc, booted, unread, owner, strays>>
eventVars == <<tor_ready, stale>>
vars == <<auto_reconnect, main, threadVars, torVars, stop_tor_flag, eventVars, reconnects,
          doomed, raised>>

\* The main thread: in the steps of _start_tor, waiting for the bootstrap, asking
\* the ControlPort, at work with a Tor that is ready or without one, in the steps
\* of a full restart.
Starting == {"start", "port", "join"}
Stopping == {"stop", "kill", "clear", "settle", "lower"}
MainStates == {"wait", "asked", "up", "failed"} \cup Starting \cup Stopping

\* A Tor thread: not there, about to start a Tor, reading its output, deciding
\* what to do after its end, pausing.
ThreadStates == {"none", "launch", "read", "decide", "pause"}

Alive(t) == proc[t] = "alive"
AnyTor == strays > 0 \/ \E t \in Threads : Alive(t)
Known == \E t \in Threads : t = owner /\ Alive(t)
Booted == \E t \in Threads : Alive(t) /\ booted[t]

-----------------------------------------------------------------------------
(* The Tor thread, _run_tor                                                *)

At(t, from, to) == thread[t] = from /\ thread' = [thread EXCEPT ![t] = to]

\* Popen.  A Tor this thread left alive is nobody's from here on.
Launch(t) ==
    /\ At(t, "launch", "read")
    /\ proc' = [proc EXCEPT ![t] = "alive"]
    /\ booted' = [booted EXCEPT ![t] = FALSE]
    /\ unread' = [unread EXCEPT ![t] = FALSE]
    /\ strays' = IF Alive(t) THEN strays + 1 ELSE strays
    /\ strays' <= StraysMax
    /\ owner' = t
    /\ doomed' = doomed \ {t}
    /\ UNCHANGED <<auto_reconnect, main, tor_thread, stop_tor_flag, eventVars, reconnects, raised>>

\* The binary has gone.
NotFound(t) ==
    /\ At(t, "launch", "none")
    /\ UNCHANGED <<auto_reconnect, main, tor_thread, torVars, stop_tor_flag, eventVars,
                   reconnects, doomed, raised>>

ReadReady(t) ==
    /\ thread[t] = "read" /\ unread[t]
    /\ unread' = [unread EXCEPT ![t] = FALSE]
    /\ tor_ready' = TRUE
    /\ stale' = (t \in doomed)
    /\ reconnects' = 0
    /\ UNCHANGED <<auto_reconnect, main, threadVars, proc, booted, owner, strays,
                   stop_tor_flag, doomed, raised>>

\* An exception while a line is handled: the Tor is not stopped.
Raise(t) ==
    /\ At(t, "read", "decide")
    /\ raised' = TRUE
    /\ UNCHANGED <<auto_reconnect, main, tor_thread, torVars, stop_tor_flag, eventVars,
                   reconnects, doomed>>

\* Mutant: the event is never cleared.
NeverCleared == tor_ready
\* _tor_ready.clear()
Cleared == FALSE

\* End of the output.
Ended(t) ==
    /\ At(t, "read", "decide")
    /\ proc[t] = "dead" /\ ~unread[t]
    /\ tor_ready' = Cleared
    /\ UNCHANGED <<auto_reconnect, main, tor_thread, torVars, stop_tor_flag, stale, reconnects,
                   doomed, raised>>

\* Mutant: the attempts are not counted.
CountedNot == reconnects
Counted == reconnects + 1

\* Mutant: one attempt too many.
TooManyLate(n) == n > RECONNECT_MAX + 1
TooMany(n) == n > RECONNECT_MAX

Decide(t) ==
    /\ \/ /\ stop_tor_flag \/ ~auto_reconnect
          /\ At(t, "decide", "none")
          /\ UNCHANGED reconnects
       \/ /\ ~stop_tor_flag /\ auto_reconnect
          /\ reconnects' = Counted
          /\ At(t, "decide", IF TooMany(reconnects') THEN "none" ELSE "pause")
    /\ UNCHANGED <<auto_reconnect, main, tor_thread, torVars, stop_tor_flag, eventVars,
                   doomed, raised>>

\* The pause looks at the flag each second; the last second may miss it.
Resume(t) ==
    /\ \/ stop_tor_flag /\ At(t, "pause", "none")
       \/ At(t, "pause", "launch")
    /\ UNCHANGED <<auto_reconnect, main, tor_thread, torVars, stop_tor_flag, eventVars,
                   reconnects, doomed, raised>>

ThreadStep(t) == Launch(t) \/ ReadReady(t) \/ Ended(t) \/ Decide(t) \/ Resume(t)

-----------------------------------------------------------------------------
(* _start_tor, _wait_tor_ready and _start_services                         *)

MainMove(from, to) == main = from /\ main' = to

\* Every Tor there is dies.
KillAll ==
    /\ strays' = 0
    /\ proc' = [t \in Threads |-> IF Alive(t) THEN "dead" ELSE proc[t]]

\* A Tor is there already, or one has to be started.
StartTor ==
    /\ main = "start"
    /\ main' = IF Known THEN "wait" ELSE "port"
    /\ UNCHANGED <<auto_reconnect, threadVars, torVars, stop_tor_flag, eventVars, reconnects,
                   doomed, raised>>

\* Somebody listens on the port of SOCKS: pkill.
FreePort ==
    /\ MainMove("port", "join")
    /\ IF AnyTor THEN KillAll ELSE UNCHANGED <<strays, proc>>
    /\ UNCHANGED <<auto_reconnect, threadVars, booted, unread, owner, stop_tor_flag, eventVars,
                   reconnects, doomed, raised>>

\* Mutant: the old thread is not waited for.
OldThreadGoneAny == TRUE
\* _tor_thread has ended.
OldThreadGone == \A t \in Threads : t = tor_thread => thread[t] = "none"

NewThread ==
    /\ MainMove("join", "wait")
    /\ OldThreadGone
    /\ \E t \in Threads :
          /\ At(t, "none", "launch")
          /\ ~Alive(t)
          /\ tor_thread' = t
    /\ tor_ready' = Cleared
    /\ stop_tor_flag' = FALSE
    /\ reconnects' = 0
    /\ UNCHANGED <<auto_reconnect, torVars, stale, doomed, raised>>

\* "demarrage annule": the old thread is there after ten seconds.
StartCancelled ==
    /\ MainMove("join", "wait")
    /\ \E t \in Threads : t = tor_thread /\ thread[t] # "none"
    /\ UNCHANGED <<auto_reconnect, threadVars, torVars, stop_tor_flag, eventVars, reconnects,
                   doomed, raised>>

\* The event; the OpenVPN loop is started.
SeeReady ==
    /\ MainMove("wait", "up")
    /\ tor_ready
    /\ UNCHANGED <<auto_reconnect, threadVars, torVars, stop_tor_flag, eventVars, reconnects,
                   doomed, raised>>

\* Mutant: only the event counts.
AnswersNever == FALSE
\* The ControlPort says PROGRESS=100.
Answers == Booted \/ strays > 0

AskControlPort ==
    /\ MainMove("wait", "asked")
    /\ Answers
    /\ UNCHANGED <<auto_reconnect, threadVars, torVars, stop_tor_flag, eventVars, reconnects,
                   doomed, raised>>

SetReady ==
    /\ MainMove("asked", "up")
    /\ tor_ready' = TRUE
    /\ stale' = FALSE
    /\ UNCHANGED <<auto_reconnect, threadVars, torVars, stop_tor_flag, reconnects, doomed, raised>>

\* 90 or 240 seconds went by; the ControlPort is asked every two seconds, so not
\* while there is a Tor that has bootstrapped.
WaitTimesOut ==
    /\ MainMove("wait", "failed")
    /\ ~tor_ready /\ ~Booted
    /\ UNCHANGED <<auto_reconnect, threadVars, torVars, stop_tor_flag, eventVars, reconnects,
                   doomed, raised>>

-----------------------------------------------------------------------------
(* _full_restart                                                           *)

RaiseFlag ==
    /\ main \in {"up", "failed"} /\ main' = "kill"
    /\ stop_tor_flag' = TRUE
    /\ UNCHANGED <<auto_reconnect, threadVars, torVars, eventVars, reconnects, doomed, raised>>

\* _stop_tor: the Tor it knows of, or every one that is there.
StopTor ==
    /\ main = "kill"
    /\ doomed' = {t \in Threads : Alive(t) /\ (Known => t = owner)} \cup doomed
    /\ IF Known
       THEN /\ proc' = [proc EXCEPT ![owner] = "dead"]
            /\ main' = "clear"
            /\ UNCHANGED strays
       ELSE KillAll /\ main' = "settle"
    /\ UNCHANGED <<auto_reconnect, threadVars, booted, unread, owner, stop_tor_flag, eventVars,
                   reconnects, raised>>

ClearReady ==
    /\ MainMove("clear", "settle")
    /\ tor_ready' = Cleared
    /\ UNCHANGED <<auto_reconnect, threadVars, torVars, stop_tor_flag, stale, reconnects,
                   doomed, raised>>

\* The end of the OpenVPN loop and six seconds: enough for a thread to read what
\* is left of the output of a Tor that was stopped.
Drained == \A t \in doomed : thread[t] # "read"

LowerFlag ==
    /\ MainMove("settle", "lower")
    /\ Drained
    /\ stop_tor_flag' = FALSE
    /\ reconnects' = 0
    /\ UNCHANGED <<auto_reconnect, threadVars, torVars, eventVars, doomed, raised>>

ForgetReady ==
    /\ MainMove("lower", "start")
    /\ tor_ready' = Cleared
    /\ UNCHANGED <<auto_reconnect, threadVars, torVars, stop_tor_flag, stale, reconnects,
                   doomed, raised>>

\* Exit and restart by systemd, which ends every process of the group.
SystemdRestart ==
    /\ main \in {"up", "failed"} /\ main' = "start"
    /\ tor_thread' = None /\ thread' = [t \in Threads |-> "none"]
    /\ proc' = [t \in Threads |-> "none"] /\ owner' = None /\ strays' \in {0, 1}
    /\ booted' = [t \in Threads |-> FALSE] /\ unread' = [t \in Threads |-> FALSE]
    /\ stop_tor_flag' = FALSE /\ tor_ready' = FALSE /\ reconnects' = 0
    /\ doomed' = {} /\ stale' = FALSE /\ raised' = FALSE
    /\ UNCHANGED auto_reconnect

WaitStep == SeeReady \/ AskControlPort \/ SetReady \/ WaitTimesOut
MainStep ==
    \/ StartTor \/ FreePort \/ NewThread \/ StartCancelled \/ WaitStep
    \/ StopTor \/ ClearReady \/ LowerFlag \/ ForgetReady

-----------------------------------------------------------------------------
(* The Tor processes                                                       *)

\* Only the Tor that has the ports can bootstrap.
Bootstraps(t) ==
    /\ Alive(t) /\ ~booted[t]
    /\ strays = 0 /\ \A s \in Threads : Alive(s) => s = t
    /\ booted' = [booted EXCEPT ![t] = TRUE]
    /\ unread' = [unread EXCEPT ![t] = TRUE]
    /\ UNCHANGED <<auto_reconnect, main, threadVars, proc, owner, strays, stop_tor_flag,
                   eventVars, reconnects, doomed, raised>>

TorExits ==
    /\ \/ \E t \in Threads :
             /\ Alive(t)
             /\ proc' = [proc EXCEPT ![t] = "dead"]
             /\ UNCHANGED strays
       \/ strays > 0 /\ strays' = strays - 1 /\ UNCHANGED proc
    /\ UNCHANGED <<auto_reconnect, main, threadVars, booted, unread, owner, stop_tor_flag,
                   eventVars, reconnects, doomed, raised>>

\* A Tor of the system may be running at first.
Init ==
    /\ auto_reconnect \in AutoReconnect
    /\ main = "start"
    /\ tor_thread = None /\ thread = [t \in Threads |-> "none"]
    /\ proc = [t \in Threads |-> "none"] /\ owner = None /\ strays \in {0, 1}
    /\ booted = [t \in Threads |-> FALSE] /\ unread = [t \in Threads |-> FALSE]
    /\ stop_tor_flag = FALSE /\ tor_ready = FALSE /\ reconnects = 0
    /\ doomed = {} /\ stale = FALSE /\ raised = FALSE

Next ==
    \/ MainStep \/ RaiseFlag \/ SystemdRestart
    \/ \E t \in Threads : ThreadStep(t) \/ NotFound(t) \/ Raise(t) \/ Bootstraps(t)
    \/ TorExits

Spec == Init /\ [][Next]_vars

\* The threads are scheduled.  No Tor has to bootstrap or to end, no restart has
\* to come.
FairSpec ==
    /\ Spec
    /\ WF_vars(MainStep)
    /\ \A t \in Threads : WF_vars(ThreadStep(t))

-----------------------------------------------------------------------------
(* Properties                                                              *)

TypeOK ==
    /\ auto_reconnect \in BOOLEAN
    /\ main \in MainStates
    /\ tor_thread \in Threads \cup {None}
    /\ thread \in [Threads -> ThreadStates]
    /\ proc \in [Threads -> {"none", "alive", "dead"}]
    /\ booted \in [Threads -> BOOLEAN] /\ unread \in [Threads -> BOOLEAN]
    /\ owner \in Threads \cup {None}
    /\ strays \in 0 .. StraysMax
    /\ stop_tor_flag \in BOOLEAN /\ tor_ready \in BOOLEAN
    /\ reconnects \in 0 .. RECONNECT_MAX + 1
    /\ doomed \subseteq Threads
    /\ stale \in BOOLEAN /\ raised \in BOOLEAN

\* One Tor and one thread at most, through stops that miss the Tor about to start
\* and flags lowered under a thread that pauses: the start waits for the old
\* thread, "sinon ... deux processus Tor" (tor.py:39).
OneTor ==
    /\ \A s, t \in Threads : thread[s] # "none" /\ thread[t] # "none" => s = t
    /\ ~raised => \A s, t \in Threads : Alive(s) /\ Alive(t) => s = t

\* The services are never started on the word of a Tor that the restart stopped,
\* though its thread may read its "Bootstrapped 100%" after its end.
ReadyIsFresh == [][main # "up" /\ main' = "up" => ~stale']_vars

\* The wait is not deaf: the event may be lost (a Tor that became ready before
\* watchdog.py:96), the ControlPort makes up for it (core.py:259).
NotDeaf == main = "wait" /\ Booted ~> main = "up" \/ ~Booted

\* What a Tor thread that is there can still do before a Tor bootstraps: read that
\* one did, count an attempt, go on to the end of the one it is at.
StepsToEnd(t) ==
    CASE thread[t] = "pause" -> 4 [] thread[t] = "launch" -> 3 [] thread[t] = "read" -> 2
      [] thread[t] = "decide" -> 1 [] OTHER -> 0
Budget(t) == <<IF unread[t] THEN 1 ELSE 0, RECONNECT_MAX + 1 - reconnects, StepsToEnd(t)>>

\* Why the attempts come to an end: as long as the main thread does not move and no
\* Tor bootstraps, every step of the thread takes from its budget, the return of the
\* counter to 0 included (tor.py:84), and no step of another gives to it.
AttemptsSpend ==
    [][main' = main /\ (\A t \in Threads : booted'[t] => booted[t]) =>
           \A t \in Threads : thread[t] # "none" =>
              /\ AllNat(Budget(t))
              /\ \/ Below(Budget(t)', Budget(t))
                 \/ Budget(t)' = Budget(t) /\ thread'[t] = thread[t]]_vars

\* A thread does not start Tor after Tor for ever: RECONNECT_MAX (tor.py:105).
RetriesEnd ==
    []<>(\E t \in Threads : thread[t] = "pause") => []<>(Booted \/ main \notin {"up", "failed"})
=============================================================================
