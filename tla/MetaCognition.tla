--------------------------- MODULE MetaCognition ---------------------------
(***************************************************************************)
(* The background threads of libgnucash/engine: the improvement cycle of a *)
(* session (gnc-meta-cognitive.cpp) and the combined loop                  *)
(* (gnc-ontogenesis-bridge.cpp), which share the bridge's queues of        *)
(* directives and results with the threads that start and stop them.       *)
(*                                                                         *)
(* A caller is a thread of the program that uses a session of its own.     *)
(* A section under a mutex is one step; the mutexes are modelled where a   *)
(* thread waits while it holds them (it joins another thread).  What a     *)
(* worker finds out by arithmetic on scores (whether to evolve, whether    *)
(* the threshold is reached) and max_iterations are choices.               *)
(***************************************************************************)
EXTENDS Naturals, FiniteSets

CONSTANTS
    None,            \* no caller, no thread: a null pointer
    Callers,         \* threads that call the two interfaces
    Copies,          \* threads of one kind for one session
    RestartCycles,   \* whether a session's cycle is started a second time
    MaxDirectives,   \* bound: directives in the queue when one more is made
    MaxShutdowns     \* bound: shutdowns

ASSUME MetaAssumption ==
    RestartCycles \in BOOLEAN /\ MaxDirectives \in Nat /\ MaxShutdowns \in Nat

\* A thread, by what it runs and the caller whose session it works on.
Threads == [kind : {"loop", "cycle"}, of : Callers, copy : Copies]

ASSUME NoneAssumption == None \notin Callers \cup Threads

VARIABLES
    initialized,   \* meta_cognitive_initialized
    bridge,        \* bridge_initialized: the stub kernel is registered
    directives,    \* length of directive_queue
    results,       \* length of result_queue
    active,        \* combined_loop_active
    loopThread,    \* combined_loop_thread
    loopSession,   \* combined_loop_session, by its caller
    mutex,         \* who holds loop_mutex and global_state_mutex
    session,       \* session[c]: whether c's session is live
    cycleActive,   \* improvement_cycle_active of c's session
    cycleThread,   \* its improvement_thread
    at,            \* at[c]: where in a call c is
    worker,        \* worker[t]: where thread t is
    shutdowns      \* number of shutdowns begun

bridgeVars == <<initialized, bridge, directives, results, shutdowns>>
loopVars == <<active, loopThread, loopSession>>
sessionVars == <<session, cycleActive, cycleThread>>
vars == <<bridgeVars, loopVars, sessionVars, mutex, at, worker>>

Running == {t \in Threads : worker[t] \notin {"unused", "exit"}}
LoopsRunning == {t \in Running : t.kind = "loop"}

Init ==
    /\ initialized = FALSE /\ bridge = FALSE
    /\ directives = 0 /\ results = 0
    /\ active = FALSE /\ loopThread = None /\ loopSession = None
    /\ mutex = [loop |-> None, global |-> None]
    /\ session = [c \in Callers |-> FALSE]
    /\ cycleActive = [c \in Callers |-> FALSE]
    /\ cycleThread = [c \in Callers |-> None]
    /\ at = [c \in Callers |-> "idle"]
    /\ worker = [t \in Threads |-> "unused"]
    /\ shutdowns = 0

Go(c, to) == at' = [at EXCEPT ![c] = to]

\* The mutexes that nobody keeps over a join are free between steps.
IsFree(m) == mutex[m] = None

\* joinable() and join(): None is a null pointer.
MutJoined(t) == TRUE
Joined(t) == t # None => worker[t] = "exit"

\* The threads after t has been joined; a thread that can be started.
Reap(t) == [u \in Threads |-> IF u = t /\ worker[t] = "exit" THEN "unused"
                              ELSE worker[u]]
New(ws, kind, c) ==
    {t \in Threads : t.kind = kind /\ t.of = c /\ ws[t] = "unused"}

-----------------------------------------------------------------------------
(* Initialisation and shutdown.                                            *)

\* gnc_meta_cognitive_init: the bridge after global_state_mutex is released.
StartUp(c) ==
    /\ at[c] = "idle" /\ IsFree("global")
    /\ ~initialized
    /\ initialized' = TRUE
    /\ Go(c, "bridge_init")
    /\ UNCHANGED <<bridge, directives, results, shutdowns,
                   loopVars, sessionVars, mutex, worker>>

\* gnc_ontogenesis_bridge_init.
BridgeInit(c) ==
    /\ at[c] = "bridge_init"
    /\ bridge' = TRUE
    /\ Go(c, "idle")
    /\ UNCHANGED <<initialized, directives, results, shutdowns,
                   loopVars, sessionVars, mutex, worker>>

\* The bridge's part: the queues are drained.
BridgeDown(c) ==
    /\ at[c] = "bridge_down"
    /\ \/ ~bridge /\ UNCHANGED <<bridge, directives, results>>
       \/ /\ bridge
          /\ bridge' = FALSE
          /\ directives' = 0 /\ results' = 0
    /\ Go(c, "global_down")
    /\ UNCHANGED <<initialized, shutdowns, loopVars, sessionVars, mutex,
                   worker>>

GlobalDown(c) ==
    /\ at[c] = "global_down" /\ mutex.global \in {None, c}
    /\ initialized' = FALSE
    /\ mutex' = [mutex EXCEPT !.global = None]
    /\ Go(c, "idle")
    /\ UNCHANGED <<bridge, directives, results, shutdowns,
                   loopVars, sessionVars, worker>>

-----------------------------------------------------------------------------
(* The combined loop.                                                      *)

\* gnc_ontogenesis_bridge_start_combined_loop: the worker of an earlier loop
\* is joined with loop_mutex held.
StartLoop(c) ==
    /\ at[c] = "idle" /\ session[c] /\ bridge
    /\ IsFree("loop") /\ mutex' = [mutex EXCEPT !.loop = c]
    /\ ~active /\ active' = TRUE
    /\ Go(c, "start")
    /\ UNCHANGED <<bridgeVars, loopThread, loopSession, sessionVars, worker>>

StartLoopJoined(c) ==
    /\ at[c] = "start" /\ Joined(loopThread)
    /\ LET left == Reap(loopThread) IN \E t \in New(left, "loop", c) :
       /\ worker' = [left EXCEPT ![t] = "test"]
       /\ loopThread' = t
    /\ loopSession' = c
    /\ mutex' = [mutex EXCEPT !.loop = None]
    /\ Go(c, "idle")
    /\ UNCHANGED <<bridgeVars, active, sessionVars>>

\* gnc_meta_cognitive_shutdown stops the loop before it takes
\* global_state_mutex, which the loop's worker needs.
MutHoldsGlobal == TRUE
HoldsGlobal == FALSE

\* stop_combined_loop, by itself and in a shutdown;
\* stop_combined_loop_for_session when a session is destroyed.
StopLoop(c) == \E call \in {"stop", "shutdown", "destroy"} :
    /\ at[c] = "idle" /\ IsFree("loop")
    /\ call = "destroy" => session[c] /\ loopSession = c
    /\ IF call = "shutdown"
       THEN /\ shutdowns < MaxShutdowns /\ shutdowns' = shutdowns + 1
            /\ HoldsGlobal => IsFree("global")
       ELSE UNCHANGED shutdowns
    /\ mutex' = [loop |-> c, global |-> IF call = "shutdown" /\ HoldsGlobal THEN c
                                        ELSE mutex.global]
    /\ active' = FALSE
    /\ Go(c, call)
    /\ UNCHANGED <<initialized, bridge, directives, results, loopThread,
                   loopSession, sessionVars, worker>>

StopLoopJoined(c) ==
    /\ at[c] \in {"stop", "shutdown", "destroy"} /\ Joined(loopThread)
    /\ worker' = Reap(loopThread)
    /\ loopThread' = None /\ loopSession' = None
    /\ mutex' = [mutex EXCEPT !.loop = None]
    /\ Go(c, CASE at[c] = "stop" -> "idle" [] at[c] = "shutdown" -> "bridge_down"
                [] at[c] = "destroy" -> "end_cycle")
    /\ UNCHANGED <<bridgeVars, active, sessionVars>>

-----------------------------------------------------------------------------
(* Sessions and their improvement cycles.                                  *)

NewSession(c) ==
    /\ at[c] = "idle" /\ initialized
    /\ ~session[c] /\ session' = [session EXCEPT ![c] = TRUE]
    /\ cycleActive' = [cycleActive EXCEPT ![c] = FALSE]
    /\ cycleThread' = [cycleThread EXCEPT ![c] = None]
    /\ UNCHANGED <<bridgeVars, loopVars, mutex, at, worker>>

\* gnc_meta_cognitive_start_improvement_cycle: the pointer to the thread of an
\* earlier cycle is overwritten; nobody joins that thread any more.
StartCycle(c) ==
    /\ at[c] = "idle" /\ session[c] /\ initialized
    /\ ~cycleActive[c]
    /\ cycleThread[c] # None => RestartCycles
    /\ cycleActive' = [cycleActive EXCEPT ![c] = TRUE]
    /\ \E t \in New(worker, "cycle", c) :
       /\ worker' = [worker EXCEPT ![t] = "test"]
       /\ cycleThread' = [cycleThread EXCEPT ![c] = t]
    /\ UNCHANGED <<bridgeVars, loopVars, session, mutex, at>>

\* gnc_meta_cognitive_stop_improvement_cycle does not wait.  A session that is
\* destroyed stops its loop, if there is one, and then its cycle.
StopCycle(c) ==
    /\ session[c]
    /\ \/ at[c] = "idle" /\ cycleActive[c] /\ UNCHANGED at
       \/ at[c] = "idle" /\ IsFree("loop") /\ loopSession # c /\ Go(c, "end_join")
       \/ at[c] = "end_cycle" /\ Go(c, "end_join")
    /\ cycleActive' = [cycleActive EXCEPT ![c] = FALSE]
    /\ UNCHANGED <<bridgeVars, loopVars, session, cycleThread, mutex, worker>>

\* The rest of gnc_meta_cognitive_session_destroy.
DestroyJoined(c) ==
    /\ at[c] = "end_join" /\ Joined(cycleThread[c])
    /\ worker' = Reap(cycleThread[c])
    /\ session' = [session EXCEPT ![c] = FALSE]
    /\ cycleThread' = [cycleThread EXCEPT ![c] = None]
    /\ Go(c, "idle")
    /\ UNCHANGED <<bridgeVars, loopVars, cycleActive, mutex>>

-----------------------------------------------------------------------------
(* The workers: combined_loop_worker with run_combined_step, and           *)
(* improvement_cycle_worker.  Of the directives of one analysis (up to     *)
(* four, submitted one after the other) there is one.                      *)

Step(t, from, to) ==
    /\ worker[t] = from
    /\ worker' = [worker EXCEPT ![t] = to]

\* The loop condition, with max_iterations and the threshold.
Told(t) == IF t.kind = "loop" THEN ~active
           ELSE ~cycleActive[t.of]

\* gnc_ontogenesis_bridge_submit_from_analysis looks at bridge_initialized
\* without a mutex, and goes on to queue the directive.
CanSubmit == bridge /\ directives < MaxDirectives

\* An iteration begins with the analysis of the session; a combined step fails
\* if the bridge is down.
Test(t) ==
    /\ worker[t] = "test"
    /\ \/ Step(t, "test", "finish")
       \/ /\ ~Told(t) /\ t.kind = "loop" /\ bridge
          /\ Step(t, "test", "poll") \/ (CanSubmit /\ Step(t, "test", "push"))
       \/ /\ ~Told(t) /\ t.kind = "cycle"
          /\ UNCHANGED worker \/ Step(t, "test", "ready")
    /\ UNCHANGED <<bridgeVars, loopVars, sessionVars, mutex, at>>

\* A cycle applies an evolved configuration, under global_state_mutex, and
\* asks gnc_ontogenesis_bridge_is_ready.
Ready(t) ==
    /\ IsFree("global")
    /\ Step(t, "ready", IF CanSubmit THEN "push" ELSE "test")
    /\ UNCHANGED <<bridgeVars, loopVars, sessionVars, mutex, at>>

\* gnc_ontogenesis_bridge_submit_directive: the directive is queued under
\* directive_mutex ...
Push(t) ==
    /\ Step(t, "push", "process")
    /\ directives' = directives + 1
    /\ UNCHANGED <<initialized, bridge, results, shutdowns,
                   loopVars, sessionVars, mutex, at>>

\* ... and processed with bridge_mutex held: what is taken off the queue may be
\* another thread's, or nothing.
MutTakenBlind == 1
Taken == IF directives > 0 THEN 1 ELSE 0

Process(t) ==
    /\ Step(t, "process", "poll")
    /\ \/ /\ bridge
          /\ directives' = directives - Taken
          /\ results' = results + 1
       \/ ~bridge /\ UNCHANGED <<directives, results>>
    /\ UNCHANGED <<initialized, bridge, shutdowns, loopVars,
                   sessionVars, mutex, at>>

\* Results are polled until there are none, and integrated, which takes
\* global_state_mutex (gnc_meta_cognitive_apply_improvement).  The other
\* threads sleep between iterations, so the queue does become empty.
Poll(t) ==
    /\ results > 0 /\ initialized => IsFree("global")
    /\ Step(t, "poll", "test")
    /\ results' = 0
    /\ UNCHANGED <<initialized, bridge, directives, shutdowns,
                   loopVars, sessionVars, mutex, at>>

\* The worker clears its flag and returns.
MutActiveAfter(t) == active
ActiveAfter(t) == IF t.kind = "loop" THEN FALSE ELSE active

Finish(t) ==
    /\ Step(t, "finish", "exit")
    /\ active' = ActiveAfter(t)
    /\ cycleActive' = IF t.kind = "cycle"
                      THEN [cycleActive EXCEPT ![t.of] = FALSE]
                      ELSE cycleActive
    /\ UNCHANGED <<bridgeVars, loopThread, loopSession, session, cycleThread,
                   mutex, at>>

-----------------------------------------------------------------------------

\* What a caller decides to do, ...
Decide(c) ==
    \/ StartUp(c) \/ NewSession(c)
    \/ StartLoop(c) \/ StopLoop(c) \/ StartCycle(c) \/ StopCycle(c)

\* ... and what the call it has made goes on to do.
Continue(c) ==
    \/ BridgeInit(c) \/ BridgeDown(c) \/ GlobalDown(c)
    \/ StartLoopJoined(c) \/ StopLoopJoined(c)
    \/ at[c] = "end_cycle" /\ StopCycle(c)
    \/ DestroyJoined(c)

Work(t) ==
    Test(t) \/ Ready(t) \/ Push(t) \/ Process(t) \/ Poll(t) \/ Finish(t)

Next ==
    \/ \E c \in Callers : Decide(c) \/ Continue(c)
    \/ \E t \in Threads : Work(t)

Spec == Init /\ [][Next]_vars

\* Threads are scheduled.  Weak fairness is enough: what a thread waits for,
\* another one to end or global_state_mutex, stays so until the thread goes on.
FairSpec ==
    /\ Spec
    /\ \A c \in Callers : WF_vars(Continue(c))
    /\ \A t \in Threads : WF_vars(Work(t))

-----------------------------------------------------------------------------
(* Properties.                                                             *)

TypeOK ==
    /\ initialized \in BOOLEAN /\ bridge \in BOOLEAN /\ active \in BOOLEAN
    /\ directives \in Nat /\ results \in Nat
    /\ loopThread \in Threads \cup {None}
    /\ loopSession \in Callers \cup {None}
    /\ mutex \in [{"loop", "global"} -> Callers \cup {None}]
    /\ session \in [Callers -> BOOLEAN]
    /\ cycleActive \in [Callers -> BOOLEAN]
    /\ cycleThread \in [Callers -> Threads \cup {None}]
    /\ shutdowns \in Nat

\* A thread that works on a session is gone before the session is destroyed:
\* destroying it stops and joins the threads that were started for it (unless
\* its cycle was started a second time).
SessionOutlivesWorkers ==
    \A t \in Running : session[t.of]

\* There is one combined loop at most, and combined_loop_active is true while
\* it runs and not otherwise, but for the moments in which a caller that has
\* loop_mutex is starting or stopping it.
LoopFlag ==
    /\ Cardinality(LoopsRunning) <= 1
    /\ (active = (LoopsRunning # {})) \/ mutex.loop # None

\* Until a shutdown every directive that waits in the queue is about to be
\* processed by the thread that queued it, though each takes off the queue
\* whatever is first: gnc_ontogenesis_bridge_pending_directives tells the
\* "number of pending (unprocessed) directives" (gnc-ontogenesis-bridge.h).
PendingAreUnprocessed ==
    shutdowns = 0 => directives = Cardinality({t \in Threads : worker[t] = "process"})

\* What the API tells of the workers, by a flag and a counter that are kept
\* apart from them and under other locks, is true.
ReportsAgree == LoopFlag /\ PendingAreUnprocessed

\* Every call returns: nobody waits for a thread that waits for a mutex the
\* first one has.
CallsReturn == \A c \in Callers : at[c] # "idle" ~> at[c] = "idle"
=============================================================================
