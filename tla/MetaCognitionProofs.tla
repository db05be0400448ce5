------------------------ MODULE MetaCognitionProofs ------------------------
(***************************************************************************)
(* The combined loop, the improvement cycles and the threads that start    *)
(* and stop them, for any number of threads and shutdowns.                 *)
(***************************************************************************)
EXTENDS MetaCognition, FiniteSetTheorems, TLAPS

\* Where a caller can be in a call, and a worker in its function.
InLoopCall == {"start", "stop", "shutdown", "destroy"}
Places == InLoopCall \cup {"idle", "bridge_init", "bridge_down", "global_down",
                           "end_cycle", "end_join"}
WorkerPlaces == {"unused", "test", "ready", "push", "process", "poll", "finish",
                 "exit"}

TypeInv ==
    /\ TypeOK
    /\ at \in [Callers -> Places]
    /\ worker \in [Threads -> WorkerPlaces]

\* The pointers to threads.  Only the loop that combined_loop_thread points to
\* has not been joined, and it works on combined_loop_session.
PointersInv ==
    /\ loopThread # None => loopThread.kind = "loop" /\ loopThread.of = loopSession
    /\ loopThread = None => loopSession = None
    /\ \A t \in Threads : t.kind = "loop" /\ worker[t] # "unused" => t = loopThread
    /\ \A c \in Callers : cycleThread[c] # None =>
         cycleThread[c].kind = "cycle" /\ cycleThread[c].of = c /\ session[c]

\* loop_mutex and combined_loop_active, by where its holder is.
LoopInv ==
    /\ \A c \in Callers : at[c] \in InLoopCall <=> mutex.loop = c
    /\ mutex.loop = None => active = (LoopsRunning # {})
    /\ \A c \in Callers : at[c] = "start" => active /\ LoopsRunning = {}
    /\ \A c \in Callers : at[c] \in {"stop", "shutdown", "destroy"} => ~active

\* The session of a call is there, and a destruction that has stopped the loop
\* of its session finds no other.
CallsInv == \A c \in Callers :
    /\ at[c] \in {"start", "destroy", "end_cycle", "end_join"} => session[c]
    /\ at[c] \in {"end_cycle", "end_join"} => loopSession # c

LEMMA InitTypeInv == Init => TypeInv
<1> SUFFICES ASSUME Init PROVE TypeInv
    OBVIOUS
<1>1. mutex \in [{"loop", "global"} -> Callers \cup {None}]
    BY DEF Init
<1>2. directives \in Nat /\ results \in Nat /\ shutdowns \in Nat
    BY DEF Init
<1>3. /\ initialized \in BOOLEAN /\ bridge \in BOOLEAN /\ active \in BOOLEAN
      /\ session \in [Callers -> BOOLEAN]
      /\ cycleActive \in [Callers -> BOOLEAN]
    BY DEF Init
<1>4. at \in [Callers -> Places] /\ worker \in [Threads -> WorkerPlaces]
    BY DEF Init, Places, WorkerPlaces
<1>5. /\ loopThread \in Threads \cup {None} /\ loopSession \in Callers \cup {None}
      /\ cycleThread \in [Callers -> Threads \cup {None}]
    BY DEF Init
<1> QED BY <1>1, <1>2, <1>3, <1>4, <1>5 DEF TypeInv, TypeOK

LEMMA ReapType ==
    ASSUME worker \in [Threads -> WorkerPlaces], NEW t
    PROVE  Reap(t) \in [Threads -> WorkerPlaces]
BY DEF Reap, WorkerPlaces

LEMMA NextTypeInv == TypeInv /\ [Next]_vars => TypeInv'
<1> SUFFICES ASSUME TypeInv, [Next]_vars PROVE TypeInv'
    OBVIOUS
<1> USE DEF TypeInv, TypeOK, Places, InLoopCall, Go, bridgeVars, loopVars, sessionVars
<1>1. ASSUME NEW c \in Callers, StartUp(c) \/ BridgeInit(c) \/ BridgeDown(c) \/ GlobalDown(c)
      PROVE  TypeInv'
    <2>1. CASE StartUp(c) \/ BridgeInit(c)
        BY <2>1 DEF StartUp, BridgeInit
    <2>2. CASE BridgeDown(c)
        <3>1. bridge' \in BOOLEAN /\ directives' \in Nat /\ results' \in Nat
            <4>1. CASE UNCHANGED <<bridge, directives, results>>
                BY <4>1
            <4>2. CASE bridge' = FALSE /\ directives' = 0 /\ results' = 0
                BY <4>2
            <4> QED BY <2>2, <4>1, <4>2 DEF BridgeDown
        <3>2. at' \in [Callers -> Places]
            BY <2>2 DEF BridgeDown
        <3> QED BY <2>2, <3>1, <3>2 DEF BridgeDown
    <2>3. CASE GlobalDown(c)
        BY <2>3 DEF GlobalDown
    <2> QED BY <1>1, <2>1, <2>2, <2>3
<1>2. ASSUME NEW c \in Callers, StartLoop(c) \/ StopLoop(c) PROVE TypeInv'
    <2>1. CASE StartLoop(c)
        BY <2>1 DEF StartLoop
    <2>2. CASE StopLoop(c)
        <3>1. mutex' \in [{"loop", "global"} -> Callers \cup {None}]
            BY <2>2 DEF StopLoop, HoldsGlobal
        <3>2. shutdowns' = shutdowns + 1 \/ shutdowns' = shutdowns
            BY <2>2 DEF StopLoop
        <3>3. PICK call \in {"stop", "shutdown", "destroy"} : Go(c, call)
            BY <2>2 DEF StopLoop
        <3>4. at' \in [Callers -> Places]
            BY <3>3
        <3>5. /\ active' = FALSE
              /\ UNCHANGED <<initialized, bridge, directives, results, loopThread,
                             loopSession, sessionVars, worker>>
            BY <2>2 DEF StopLoop
        <3>6. shutdowns' \in Nat
            BY <3>2
        <3> QED BY <3>1, <3>4, <3>5, <3>6
    <2> QED BY <1>2, <2>1, <2>2
<1>3. ASSUME NEW c \in Callers, StartLoopJoined(c) PROVE TypeInv'
    <2>1. worker' \in [Threads -> WorkerPlaces] /\ loopThread' \in Threads
        BY <1>3, ReapType DEF StartLoopJoined, New, WorkerPlaces
    <2> QED BY <1>3, <2>1 DEF StartLoopJoined
<1>4. ASSUME NEW c \in Callers, StopLoopJoined(c) PROVE TypeInv'
    <2>1. worker' \in [Threads -> WorkerPlaces]
        BY <1>4, ReapType DEF StopLoopJoined
    <2> QED BY <1>4, <2>1 DEF StopLoopJoined
<1>5. ASSUME NEW c \in Callers, NewSession(c) \/ StopCycle(c) PROVE TypeInv'
    BY <1>5 DEF NewSession, StopCycle
<1>6. ASSUME NEW c \in Callers, StartCycle(c) PROVE TypeInv'
    BY <1>6 DEF StartCycle, New, WorkerPlaces
<1>7. ASSUME NEW c \in Callers, DestroyJoined(c) PROVE TypeInv'
    <2>1. worker' \in [Threads -> WorkerPlaces]
        BY <1>7, ReapType DEF DestroyJoined
    <2> QED BY <1>7, <2>1 DEF DestroyJoined
<1>8. ASSUME NEW t \in Threads, Test(t) \/ Ready(t) \/ Push(t) \/ Poll(t) PROVE TypeInv'
    BY <1>8 DEF Test, Ready, Push, Poll, Step, WorkerPlaces
<1>9. ASSUME NEW t \in Threads, Process(t) PROVE TypeInv'
    BY <1>9 DEF Process, Taken, Step, WorkerPlaces
<1>10. ASSUME NEW t \in Threads, Finish(t) PROVE TypeInv'
    BY <1>10 DEF Finish, ActiveAfter, Step, WorkerPlaces, Threads
<1>11. CASE UNCHANGED vars
    BY <1>11 DEF vars
<1> QED BY <1>1, <1>2, <1>3, <1>4, <1>5, <1>6, <1>7, <1>8, <1>9, <1>10, <1>11
        DEF Next, Decide, Continue, Work

\* The state keeps its types.
THEOREM TypeCorrect == Spec => []TypeOK
<1>1. TypeInv => TypeOK
    BY DEF TypeInv
<1> QED BY <1>1, InitTypeInv, NextTypeInv, PTL DEF Spec

-----------------------------------------------------------------------------
(* Pointers, loop and calls.                                               *)

LoopsInv == PointersInv /\ LoopInv /\ CallsInv

\* A thread that is joined ends; any other stays where it is.
Reaped(t, ws) ==
    /\ t # None => ws[t] = "unused"
    /\ \A u \in Threads : u # t => ws[u] = worker[u]

LEMMA ReapFacts ==
    ASSUME TypeInv, NEW t \in Threads \cup {None}, Joined(t)
    PROVE  Reaped(t, Reap(t))
BY DEF Reaped, Joined, Reap, TypeInv

\* The callers that are not in a call on the loop are known by its mutex.
LEMMA OthersOut ==
    ASSUME LoopInv, NEW c \in Callers, mutex.loop \in {None, c}, NEW d \in Callers, d # c
    PROVE  at[d] \notin InLoopCall
BY NoneAssumption DEF LoopInv

LEMMA StartLoopKeeps ==
    ASSUME TypeInv, LoopsInv, NEW c \in Callers, StartLoop(c)
    PROVE  LoopsInv'
<1> USE DEF LoopsInv, TypeInv, TypeOK, bridgeVars, sessionVars
<1>1. /\ mutex.loop = None /\ ~active /\ active' /\ session[c] /\ at[c] = "idle"
      /\ at' = [at EXCEPT ![c] = "start"] /\ mutex' = [mutex EXCEPT !.loop = c]
      /\ UNCHANGED <<loopThread, loopSession, sessionVars, worker>>
    BY DEF StartLoop, IsFree, Go
<1>2. LoopsRunning = {} /\ LoopsRunning' = {}
    BY <1>1 DEF LoopInv, LoopsRunning, Running
<1>3. \A d \in Callers : d # c => at[d] \notin InLoopCall
    BY <1>1, OthersOut
<1>4. mutex'.loop = c
    BY <1>1
<1>5. PointersInv'
    BY <1>1 DEF PointersInv
<1>6. LoopInv'
    BY <1>1, <1>2, <1>3, <1>4, NoneAssumption DEF LoopInv, InLoopCall
<1>7. CallsInv'
    BY <1>1 DEF CallsInv
<1> QED BY <1>5, <1>6, <1>7

LEMMA StartLoopJoinedKeeps ==
    ASSUME TypeInv, LoopsInv, NEW c \in Callers, StartLoopJoined(c)
    PROVE  LoopsInv'
<1> USE DEF LoopsInv, TypeInv, TypeOK, bridgeVars, sessionVars
<1>1. /\ at[c] = "start" /\ Joined(loopThread)
      /\ at' = [at EXCEPT ![c] = "idle"] /\ mutex' = [mutex EXCEPT !.loop = None]
      /\ loopSession' = c
      /\ UNCHANGED <<active, session, cycleThread>>
    BY DEF StartLoopJoined, Go
<1>2. Reaped(loopThread, Reap(loopThread))
    BY <1>1, ReapFacts
<1>3. PICK t \in New(Reap(loopThread), "loop", c) :
        worker' = [Reap(loopThread) EXCEPT ![t] = "test"] /\ loopThread' = t
    BY DEF StartLoopJoined
<1>4. t \in Threads /\ t.kind = "loop" /\ t.of = c
    BY <1>3 DEF New
<1>5. /\ worker'[t] = "test"
      /\ \A u \in Threads : u # t => worker'[u] = Reap(loopThread)[u]
    BY <1>3, <1>4, ReapType
<1>6. \A u \in Threads : u # t /\ u.kind = "loop" => worker'[u] = "unused"
    BY <1>2, <1>5, NoneAssumption DEF Reaped, PointersInv
<1>7. mutex.loop = c /\ session[c] /\ active /\ c # None /\ t # None
    BY <1>1, <1>4, NoneAssumption DEF LoopInv, InLoopCall, CallsInv
<1>8. PointersInv'
    BY <1>1, <1>3, <1>4, <1>6, <1>7 DEF PointersInv
<1>9. \A d \in Callers : d # c => at[d] \notin InLoopCall
    BY <1>7, OthersOut
<1>10. t \in LoopsRunning'
    BY <1>4, <1>5 DEF LoopsRunning, Running
<1>11. mutex'.loop = None
    BY <1>1
<1>12. LoopInv'
    BY <1>1, <1>7, <1>9, <1>10, <1>11, NoneAssumption DEF LoopInv, InLoopCall
<1>13. CallsInv'
    BY <1>1 DEF CallsInv
<1> QED BY <1>8, <1>12, <1>13

LEMMA StopLoopKeeps ==
    ASSUME TypeInv, LoopsInv, NEW c \in Callers, StopLoop(c)
    PROVE  LoopsInv'
<1> USE DEF LoopsInv, TypeInv, TypeOK, sessionVars
<1>1. PICK call \in {"stop", "shutdown", "destroy"} :
        /\ at[c] = "idle" /\ IsFree("loop")
        /\ call = "destroy" => session[c]
        /\ \E m : mutex' = [loop |-> c, global |-> m]
        /\ Go(c, call)
    BY DEF StopLoop
<1> USE DEF IsFree, Go
<1>2. active' = FALSE /\ UNCHANGED <<loopThread, loopSession, sessionVars, worker>>
    BY DEF StopLoop
<1>3. \A d \in Callers : d # c => at[d] \notin InLoopCall
    BY <1>1, OthersOut
<1>4. PointersInv'
    BY <1>2 DEF PointersInv
<1>5. LoopInv'
    BY <1>1, <1>2, <1>3, NoneAssumption DEF LoopInv, InLoopCall
<1>6. CallsInv'
    BY <1>1, <1>2 DEF CallsInv
<1> QED BY <1>4, <1>5, <1>6

LEMMA StopLoopJoinedKeeps ==
    ASSUME TypeInv, LoopsInv, NEW c \in Callers, StopLoopJoined(c)
    PROVE  LoopsInv'
<1> USE DEF LoopsInv, TypeInv, TypeOK, sessionVars
<1>1. /\ at[c] \in {"stop", "shutdown", "destroy"} /\ Joined(loopThread)
      /\ worker' = Reap(loopThread)
      /\ loopThread' = None /\ loopSession' = None
      /\ mutex' = [mutex EXCEPT !.loop = None]
      /\ UNCHANGED <<active, sessionVars>>
    BY DEF StopLoopJoined
<1>2. Reaped(loopThread, worker')
    BY <1>1, ReapFacts
<1>3. \A u \in Threads : u.kind = "loop" => worker'[u] = "unused"
    BY <1>1, <1>2, NoneAssumption DEF Reaped, PointersInv
<1>4. PICK to \in {"idle", "bridge_down", "end_cycle"} :
        at' = [at EXCEPT ![c] = to] /\ (to = "end_cycle" => at[c] = "destroy")
    BY <1>1 DEF StopLoopJoined, Go
<1>5. mutex.loop = c /\ ~active /\ mutex'.loop = None
    BY <1>1 DEF LoopInv, InLoopCall
<1>6. \A d \in Callers : d # c => at[d] \notin InLoopCall
    BY <1>5, OthersOut
<1>7. LoopsRunning' = {}
    BY <1>3 DEF LoopsRunning, Running
<1>8. PointersInv'
    BY <1>1, <1>3 DEF PointersInv
<1>9. LoopInv'
    BY <1>1, <1>4, <1>5, <1>6, <1>7, NoneAssumption DEF LoopInv, InLoopCall
<1>10. CallsInv'
    BY <1>1, <1>4, NoneAssumption DEF CallsInv
<1> QED BY <1>8, <1>9, <1>10

\* A step that is not about the loop.
LEMMA ElsewhereKeeps ==
    ASSUME TypeInv, LoopInv, UNCHANGED <<active, worker>>, mutex'.loop = mutex.loop,
           at' = at \/ \E c \in Callers, to \in Places \ InLoopCall :
                          at[c] \notin InLoopCall /\ Go(c, to)
    PROVE  LoopInv'
<1>1. \A c \in Callers : at'[c] = at[c] \/ {at[c], at'[c]} \cap InLoopCall = {}
    BY DEF Go, TypeInv
<1>2. LoopsRunning' = LoopsRunning
    BY DEF LoopsRunning, Running
<1> QED BY <1>1, <1>2 DEF LoopInv, InLoopCall

LEMMA SessionKeeps ==
    ASSUME TypeInv, LoopsInv, NEW c \in Callers,
           \/ StartUp(c) \/ BridgeInit(c) \/ BridgeDown(c) \/ GlobalDown(c)
           \/ NewSession(c) \/ StopCycle(c)
    PROVE  LoopsInv'
<1> USE DEF LoopsInv, TypeInv, TypeOK, sessionVars, loopVars, bridgeVars, Go
<1>1. ASSUME StartUp(c) \/ BridgeInit(c) \/ BridgeDown(c) \/ GlobalDown(c)
      PROVE  LoopsInv'
    <2>1. /\ UNCHANGED <<active, loopThread, loopSession, sessionVars, worker>>
          /\ mutex'.loop = mutex.loop
          /\ at[c] \notin InLoopCall \cup {"end_cycle", "end_join"}
          /\ \E to \in {"idle", "bridge_init", "global_down"} : Go(c, to)
        BY <1>1 DEF StartUp, BridgeInit, BridgeDown, GlobalDown, InLoopCall
    <2>2. PointersInv' /\ CallsInv'
        BY <2>1 DEF PointersInv, CallsInv
    <2>3. LoopInv'
        BY <2>1, ElsewhereKeeps DEF Places, InLoopCall
    <2> QED BY <2>2, <2>3
<1>2. ASSUME NewSession(c) PROVE LoopsInv'
    <2>1. PointersInv'
        BY <1>2 DEF NewSession, PointersInv
    <2>2. CallsInv'
        BY <1>2 DEF NewSession, CallsInv
    <2>3. LoopInv'
        BY <1>2, ElsewhereKeeps DEF NewSession
    <2> QED BY <2>1, <2>2, <2>3
<1>3. ASSUME StopCycle(c) PROVE LoopsInv'
    <2>1. UNCHANGED <<active, loopThread, loopSession, session, cycleThread, mutex, worker>>
        BY <1>3 DEF StopCycle
    <2>2. \/ at' = at
          \/ /\ at[c] \in {"idle", "end_cycle"} /\ Go(c, "end_join")
             /\ session[c] /\ loopSession # c
        BY <1>3 DEF StopCycle, CallsInv
    <2>3. PointersInv' /\ CallsInv'
        BY <2>1, <2>2 DEF PointersInv, CallsInv
    <2>4. LoopInv'
        BY <2>1, <2>2, ElsewhereKeeps DEF Places, InLoopCall
    <2> QED BY <2>3, <2>4
<1> QED BY <1>1, <1>2, <1>3

LEMMA StartCycleKeeps ==
    ASSUME TypeInv, LoopsInv, NEW c \in Callers, StartCycle(c)
    PROVE  LoopsInv'
<1> USE DEF LoopsInv, TypeInv, TypeOK, loopVars, bridgeVars
<1>1. session[c] /\ UNCHANGED <<active, loopThread, loopSession, session, mutex, at>>
    BY DEF StartCycle
<1>2. PICK t \in New(worker, "cycle", c) :
        /\ worker' = [worker EXCEPT ![t] = "test"]
        /\ cycleThread' = [cycleThread EXCEPT ![c] = t]
    BY DEF StartCycle
<1>3. t \in Threads /\ t.kind = "cycle" /\ t.of = c
    BY <1>2 DEF New
<1>4. \A u \in Threads : u.kind = "loop" => worker'[u] = worker[u]
    BY <1>2, <1>3
<1>5. LoopsRunning' = LoopsRunning
    BY <1>4 DEF LoopsRunning, Running
<1>6. PointersInv'
    BY <1>1, <1>2, <1>3, <1>4 DEF PointersInv
<1>7. LoopInv' /\ CallsInv'
    BY <1>1, <1>5 DEF LoopInv, CallsInv
<1> QED BY <1>6, <1>7

LEMMA DestroyJoinedKeeps ==
    ASSUME TypeInv, LoopsInv, NEW c \in Callers, DestroyJoined(c)
    PROVE  LoopsInv'
<1> USE DEF LoopsInv, TypeInv, TypeOK, loopVars, bridgeVars
<1>1. /\ at[c] = "end_join" /\ Joined(cycleThread[c])
      /\ worker' = Reap(cycleThread[c])
      /\ session' = [session EXCEPT ![c] = FALSE]
      /\ cycleThread' = [cycleThread EXCEPT ![c] = None]
      /\ at' = [at EXCEPT ![c] = "idle"]
      /\ UNCHANGED <<active, loopThread, loopSession, mutex>>
    BY DEF DestroyJoined, Go
<1>2. Reaped(cycleThread[c], worker')
    BY <1>1, ReapFacts
<1>3. \A u \in Threads : u.kind = "loop" => worker'[u] = worker[u]
    BY <1>1, <1>2, NoneAssumption DEF Reaped, PointersInv
<1>4. LoopsRunning' = LoopsRunning
    BY <1>3 DEF LoopsRunning, Running
<1>5. PointersInv'
    BY <1>1, <1>3 DEF PointersInv
<1>6. LoopInv'
    BY <1>1, <1>4 DEF LoopInv, InLoopCall
<1>7. CallsInv'
    BY <1>1 DEF CallsInv
<1> QED BY <1>5, <1>6, <1>7

\* What a worker that goes on, other than to its end, does.
WorksOn(t) ==
    /\ worker[t] \notin {"unused", "exit"}
    /\ \A u \in Threads : u # t => worker'[u] = worker[u]
    /\ worker'[t] \notin {"unused", "exit"}

LEMMA WorkersGoOn ==
    ASSUME TypeInv, NEW t \in Threads,
           Test(t) \/ Ready(t) \/ Push(t) \/ Process(t) \/ Poll(t)
    PROVE  WorksOn(t) /\ UNCHANGED <<loopVars, sessionVars, mutex, at>>
BY DEF Test, Ready, Push, Process, Poll, Step, WorksOn, TypeInv

LEMMA GoingOnKeeps ==
    ASSUME TypeInv, LoopsInv, NEW t \in Threads, WorksOn(t),
           UNCHANGED <<loopVars, sessionVars, mutex, at>>
    PROVE  LoopsInv'
<1> USE DEF LoopsInv, loopVars, sessionVars
<1>1. Running' = Running /\ LoopsRunning' = LoopsRunning
    BY DEF Running, LoopsRunning, WorksOn
<1>2. PointersInv'
    BY DEF PointersInv, WorksOn
<1>3. LoopInv' /\ CallsInv'
    BY <1>1 DEF LoopInv, CallsInv
<1> QED BY <1>2, <1>3

LEMMA FinishKeeps ==
    ASSUME TypeInv, LoopsInv, NEW t \in Threads, Finish(t)
    PROVE  LoopsInv'
<1> USE DEF LoopsInv, TypeInv, TypeOK, bridgeVars
<1>1. /\ worker[t] = "finish" /\ worker' = [worker EXCEPT ![t] = "exit"]
      /\ active' = ActiveAfter(t)
      /\ UNCHANGED <<loopThread, loopSession, session, cycleThread, mutex, at>>
    BY DEF Finish, Step
<1>2. PointersInv' /\ CallsInv'
    BY <1>1 DEF PointersInv, CallsInv
<1>3. CASE t.kind = "loop"
    <2>1. active' = FALSE
        BY <1>1, <1>3 DEF ActiveAfter
    <2>2. t \in LoopsRunning /\ \A u \in LoopsRunning : u = t
        BY <1>1, <1>3 DEF LoopsRunning, Running, PointersInv
    <2>3. LoopsRunning' = {}
        BY <1>1, <2>2 DEF LoopsRunning, Running
    <2> QED BY <1>1, <1>2, <2>1, <2>2, <2>3 DEF LoopInv
<1>4. CASE t.kind # "loop"
    <2>1. active' = active
        BY <1>1, <1>4 DEF ActiveAfter
    <2>2. LoopsRunning' = LoopsRunning
        BY <1>1, <1>4 DEF LoopsRunning, Running
    <2> QED BY <1>1, <1>2, <2>1, <2>2 DEF LoopInv
<1> QED BY <1>3, <1>4

LEMMA InitLoopsInv == Init => LoopsInv
<1> SUFFICES ASSUME Init PROVE LoopsInv
    OBVIOUS
<1>1. LoopsRunning = {}
    BY DEF Init, LoopsRunning, Running
<1>2. mutex.loop = None /\ active = FALSE
    BY DEF Init
<1>3. LoopInv
    BY <1>1, <1>2, NoneAssumption DEF Init, LoopInv, InLoopCall
<1>4. PointersInv /\ CallsInv
    BY DEF Init, PointersInv, CallsInv
<1> QED BY <1>3, <1>4 DEF LoopsInv

LEMMA NextLoopsInv ==
    ASSUME TypeInv, LoopsInv, [Next]_vars PROVE LoopsInv'
<1>1. CASE UNCHANGED vars
    BY <1>1 DEF vars, LoopsInv, PointersInv, LoopInv, CallsInv, LoopsRunning, Running,
       loopVars, sessionVars
<1>2. ASSUME NEW c \in Callers, Decide(c) \/ Continue(c) PROVE LoopsInv'
    BY <1>2, SessionKeeps, StartLoopKeeps, StopLoopKeeps, StartCycleKeeps,
       StartLoopJoinedKeeps, StopLoopJoinedKeeps, DestroyJoinedKeeps
       DEF Decide, Continue
<1>3. ASSUME NEW t \in Threads, Work(t) PROVE LoopsInv'
    BY <1>3, WorkersGoOn, GoingOnKeeps, FinishKeeps DEF Work
<1> QED BY <1>1, <1>2, <1>3 DEF Next

LEMMA LoopsHold == Spec => [](TypeInv /\ LoopsInv)
<1>1. TypeInv /\ LoopsInv /\ [Next]_vars => LoopsInv'
    BY NextLoopsInv
<1> QED BY <1>1, InitTypeInv, NextTypeInv, InitLoopsInv, PTL DEF Spec

-----------------------------------------------------------------------------
(* Sessions outlive the threads that work on them.                         *)

\* If no cycle is started a second time, the thread a session points to is the
\* only one of its cycles that has not been joined.
CyclesInv ==
    \A t \in Threads : t.kind = "cycle" /\ worker[t] # "unused" =>
        cycleThread[t.of] = t

LEMMA NextCyclesInv ==
    ASSUME ~RestartCycles, TypeInv, LoopsInv, CyclesInv, [Next]_vars
    PROVE  CyclesInv'
<1> USE DEF CyclesInv
<1> USE DEF TypeInv, TypeOK, loopVars, bridgeVars, sessionVars
<1>1. ASSUME NEW c \in Callers, Decide(c), ~NewSession(c), ~StartCycle(c)
      PROVE  CyclesInv'
    BY <1>1 DEF Decide, StartUp, StartLoop, StopLoop, StopCycle
<1>2. ASSUME NEW c \in Callers, NewSession(c) PROVE CyclesInv'
    BY <1>2, NoneAssumption DEF NewSession, LoopsInv, PointersInv, Threads
<1>3. ASSUME NEW c \in Callers, StartCycle(c) PROVE CyclesInv'
    <2>1. PICK t \in New(worker, "cycle", c) :
            /\ worker' = [worker EXCEPT ![t] = "test"]
            /\ cycleThread' = [cycleThread EXCEPT ![c] = t]
        BY <1>3 DEF StartCycle
    <2>2. cycleThread[c] = None
        BY <1>3 DEF StartCycle
    <2>3. t \in Threads /\ t.of = c
        BY <2>1 DEF New
    <2> QED BY <2>1, <2>2, <2>3, NoneAssumption
<1>4. ASSUME NEW c \in Callers, Continue(c), ~StartLoopJoined(c), ~StopLoopJoined(c),
             ~DestroyJoined(c)
      PROVE  CyclesInv'
    BY <1>4 DEF Continue, BridgeInit, BridgeDown, GlobalDown, StopCycle
<1>5. ASSUME NEW c \in Callers, StartLoopJoined(c) PROVE CyclesInv'
    <2>1. Reaped(loopThread, Reap(loopThread))
        BY <1>5, ReapFacts DEF StartLoopJoined
    <2>2. PICK t \in New(Reap(loopThread), "loop", c) :
            worker' = [Reap(loopThread) EXCEPT ![t] = "test"]
        BY <1>5 DEF StartLoopJoined
    <2>3. \A u \in Threads : u.kind = "cycle" => worker'[u] = worker[u]
        BY <2>1, <2>2, ReapType, NoneAssumption DEF Reaped, New, LoopsInv, PointersInv
    <2> QED BY <1>5, <2>3 DEF StartLoopJoined
<1>6. ASSUME NEW c \in Callers, StopLoopJoined(c) PROVE CyclesInv'
    <2>1. Reaped(loopThread, worker') /\ UNCHANGED cycleThread
        BY <1>6, ReapFacts DEF StopLoopJoined
    <2>2. \A u \in Threads : u.kind = "cycle" => worker'[u] = worker[u]
        BY <2>1, NoneAssumption DEF Reaped, LoopsInv, PointersInv
    <2> QED BY <2>1, <2>2
<1>7. ASSUME NEW c \in Callers, DestroyJoined(c) PROVE CyclesInv'
    <2>1. /\ Reaped(cycleThread[c], worker')
          /\ cycleThread' = [cycleThread EXCEPT ![c] = None]
        BY <1>7, ReapFacts DEF DestroyJoined
    <2>2. ASSUME NEW t \in Threads, t.kind = "cycle", worker'[t] # "unused"
          PROVE  t # cycleThread[c] /\ worker[t] # "unused" /\ t.of \in Callers
        BY <2>1, <2>2, NoneAssumption DEF Reaped, Threads
    <2> QED BY <2>1, <2>2
<1>8. ASSUME NEW t \in Threads, Work(t) PROVE CyclesInv'
    <2>1. CASE Finish(t)
        BY <2>1 DEF Finish, Step
    <2>2. CASE Test(t) \/ Ready(t) \/ Push(t) \/ Process(t) \/ Poll(t)
        BY <2>2, WorkersGoOn DEF WorksOn
    <2> QED BY <1>8, <2>1, <2>2 DEF Work
<1>9. CASE UNCHANGED vars
    BY <1>9 DEF vars
<1> QED BY <1>1, <1>2, <1>3, <1>4, <1>5, <1>6, <1>7, <1>8, <1>9 DEF Next

\* The session of the combined loop is live.
LoopSessionInv == loopSession # None => session[loopSession]

LEMMA NextLoopSessionInv ==
    ASSUME TypeInv, LoopsInv, LoopSessionInv, [Next]_vars PROVE LoopSessionInv'
<1> USE DEF LoopSessionInv, TypeInv, TypeOK, loopVars, bridgeVars, sessionVars
<1>1. ASSUME NEW c \in Callers, Decide(c) PROVE LoopSessionInv'
    BY <1>1 DEF Decide, StartUp, NewSession, StartLoop, StopLoop, StartCycle, StopCycle
<1>2. ASSUME NEW c \in Callers, Continue(c), ~StartLoopJoined(c), ~DestroyJoined(c)
      PROVE  LoopSessionInv'
    BY <1>2 DEF Continue, BridgeInit, BridgeDown, GlobalDown, StopCycle, StopLoopJoined
<1>3. ASSUME NEW c \in Callers, StartLoopJoined(c) PROVE LoopSessionInv'
    BY <1>3 DEF StartLoopJoined, LoopsInv, CallsInv
<1>4. ASSUME NEW c \in Callers, DestroyJoined(c) PROVE LoopSessionInv'
    BY <1>4 DEF DestroyJoined, LoopsInv, CallsInv
<1>5. ASSUME NEW t \in Threads, Work(t) PROVE LoopSessionInv'
    BY <1>5, WorkersGoOn DEF Work, Finish
<1>6. CASE UNCHANGED vars
    BY <1>6 DEF vars
<1> QED BY <1>1, <1>2, <1>3, <1>4, <1>5, <1>6 DEF Next

\* Unless a session's improvement cycle is started a second time, a thread that
\* works on a session is gone before the session is destroyed.
THEOREM WorkersEndFirst == ~RestartCycles => (Spec => []SessionOutlivesWorkers)
<1> SUFFICES ASSUME ~RestartCycles PROVE Spec => []SessionOutlivesWorkers
    OBVIOUS
<1>1. Init => CyclesInv /\ LoopSessionInv
    BY DEF Init, CyclesInv, LoopSessionInv
<1>2. TypeInv /\ LoopsInv /\ CyclesInv /\ LoopSessionInv /\ [Next]_vars
        => CyclesInv' /\ LoopSessionInv'
    BY NextCyclesInv, NextLoopSessionInv
<1>3. TypeInv /\ LoopsInv /\ CyclesInv /\ LoopSessionInv => SessionOutlivesWorkers
    <2> SUFFICES ASSUME TypeInv, LoopsInv, CyclesInv, LoopSessionInv, NEW t \in Running
                 PROVE  session[t.of]
        BY DEF SessionOutlivesWorkers
    <2>1. t \in Threads /\ t # None /\ worker[t] # "unused" /\ t.of \in Callers
        BY NoneAssumption DEF Running, Threads
    <2>2. CASE t.kind = "loop"
        BY <2>1, <2>2, NoneAssumption DEF LoopsInv, PointersInv, LoopSessionInv
    <2>3. CASE t.kind = "cycle"
        BY <2>1, <2>3 DEF LoopsInv, PointersInv, CyclesInv
    <2> QED BY <2>1, <2>2, <2>3 DEF Threads
<1> QED BY <1>1, <1>2, <1>3, LoopsHold, PTL DEF Spec

-----------------------------------------------------------------------------
(* What the API reports.                                                   *)

LEMMA LoopFlagHolds ==
    ASSUME TypeInv, LoopsInv PROVE LoopFlag
<1>1. LoopsRunning \subseteq {loopThread}
    BY DEF LoopsInv, PointersInv, LoopsRunning, Running
<1>2. IsFiniteSet({loopThread}) /\ Cardinality({loopThread}) = 1
    BY FS_Singleton
<1>3. Cardinality(LoopsRunning) <= 1
    BY <1>1, <1>2, FS_Subset
<1> QED BY <1>3 DEF LoopFlag, LoopsInv, LoopInv

\* The threads that have queued a directive they are about to process.
Queued == {t \in Threads : worker[t] = "process"}

\* Before the first shutdown a directive is queued only while the bridge is up
\* and it stays up, so that every thread takes one off for the one it queued.
PendingInv ==
    /\ IsFiniteSet(Queued)
    /\ shutdowns = 0 =>
         /\ directives = Cardinality(Queued)
         /\ \A t \in Threads : worker[t] \in {"push", "process"} => bridge
         /\ \A c \in Callers : at[c] \notin {"shutdown", "bridge_down"}

\* A step that queues nothing and takes nothing off.
LEMMA SameQueue ==
    ASSUME PendingInv, Queued' = Queued, UNCHANGED directives,
           shutdowns' = 0 => shutdowns = 0,
           shutdowns' = 0 =>
             /\ \A t \in Threads : worker'[t] \in {"push", "process"} => bridge'
             /\ \A c \in Callers : at'[c] \notin {"shutdown", "bridge_down"}
    PROVE  PendingInv'
BY DEF PendingInv

LEMMA ReapQueues ==
    ASSUME TypeInv, NEW t \in Threads \cup {None}, Joined(t)
    PROVE  \A u \in Threads : worker[u] \in {"push", "process"}
                                <=> Reap(t)[u] \in {"push", "process"}
BY DEF Joined, Reap, TypeInv

LEMMA NextPendingInv ==
    ASSUME TypeInv, PendingInv, [Next]_vars PROVE PendingInv'
<1> USE DEF TypeInv, TypeOK, bridgeVars, loopVars, sessionVars
<1>1. ASSUME UNCHANGED <<directives, shutdowns, worker>>, bridge => bridge',
             \A c \in Callers : at'[c] \in {"shutdown", "bridge_down"} =>
                 at[c] \in {"shutdown", "bridge_down"}
      PROVE  PendingInv'
    <2>1. Queued' = Queued
        BY <1>1 DEF Queued
    <2> QED BY <1>1, <2>1, SameQueue DEF PendingInv
<1>2. ASSUME NEW c \in Callers,
             \/ StartUp(c) \/ BridgeInit(c) \/ NewSession(c) \/ StartLoop(c)
             \/ StopCycle(c) \/ GlobalDown(c)
      PROVE  PendingInv'
    BY <1>1, <1>2 DEF StartUp, BridgeInit, NewSession, StartLoop, StopCycle, GlobalDown, Go
<1>3. ASSUME NEW c \in Callers, StopLoop(c) PROVE PendingInv'
    <2>1. PICK call \in {"stop", "shutdown", "destroy"} :
            /\ Go(c, call)
            /\ IF call = "shutdown" THEN shutdowns' = shutdowns + 1 ELSE UNCHANGED shutdowns
        BY <1>3 DEF StopLoop
    <2>2. UNCHANGED <<directives, bridge, worker>> /\ Queued' = Queued
        BY <1>3 DEF StopLoop, Queued
    <2>3. CASE call = "shutdown"
        BY <2>1, <2>2, <2>3, SameQueue
    <2>4. CASE call # "shutdown"
        BY <1>1, <2>1, <2>2, <2>4 DEF Go
    <2> QED BY <2>3, <2>4
<1>4. ASSUME NEW c \in Callers, BridgeDown(c) PROVE PendingInv'
    <2>1. at[c] = "bridge_down" /\ UNCHANGED <<shutdowns, worker>> /\ Queued' = Queued
        BY <1>4 DEF BridgeDown, Queued
    <2> QED BY <2>1 DEF PendingInv
<1>5. ASSUME NEW c \in Callers, Queued' = Queued,
             \A u \in Threads : worker'[u] \in {"push", "process"} <=>
                 worker[u] \in {"push", "process"},
             UNCHANGED <<directives, bridge, shutdowns>>,
             \/ at' = at
             \/ \E to \in Places :
                  /\ Go(c, to)
                  /\ to \in {"shutdown", "bridge_down"} => at[c] = "shutdown"
      PROVE  PendingInv'
    <2>1. \A d \in Callers : at'[d] \in {"shutdown", "bridge_down"} =>
                              at[d] \in {"shutdown", "bridge_down"}
        BY <1>5 DEF Go
    <2> QED BY <1>5, <2>1, SameQueue DEF PendingInv
<1>6. ASSUME NEW c \in Callers, StartCycle(c) PROVE PendingInv'
    <2>1. PICK t \in New(worker, "cycle", c) : worker' = [worker EXCEPT ![t] = "test"]
        BY <1>6 DEF StartCycle
    <2>2. \A u \in Threads : worker'[u] = worker[u]
                             \/ {worker[u], worker'[u]} \subseteq {"unused", "test"}
        BY <2>1 DEF New
    <2>3. Queued' = Queued
        BY <2>2 DEF Queued
    <2> QED BY <1>5, <1>6, <2>2, <2>3 DEF StartCycle
<1>7. ASSUME NEW c \in Callers, StartLoopJoined(c) PROVE PendingInv'
    <2>1. PICK t \in New(Reap(loopThread), "loop", c) :
            worker' = [Reap(loopThread) EXCEPT ![t] = "test"]
        BY <1>7 DEF StartLoopJoined
    <2>2. /\ \A u \in Threads : Reap(loopThread)[u] = worker[u]
                \/ {worker[u], Reap(loopThread)[u]} \subseteq {"exit", "unused"}
          /\ Reap(loopThread) \in [Threads -> WorkerPlaces]
        BY ReapType DEF Reap
    <2>3. \A u \in Threads : worker'[u] = worker[u]
                \/ {worker[u], worker'[u]} \subseteq {"exit", "unused", "test"}
        BY <2>1, <2>2 DEF New
    <2>4. Queued' = Queued
        BY <2>3 DEF Queued
    <2> QED BY <1>5, <1>7, <2>3, <2>4 DEF StartLoopJoined, Places
<1>8. ASSUME NEW c \in Callers, StopLoopJoined(c) \/ DestroyJoined(c) PROVE PendingInv'
    <2>1. PICK t \in Threads \cup {None} : worker' = Reap(t)
        BY <1>8 DEF StopLoopJoined, DestroyJoined
    <2>2. \A u \in Threads : worker'[u] = worker[u]
                \/ {worker[u], worker'[u]} \subseteq {"exit", "unused"}
        BY <2>1 DEF Reap
    <2>3. Queued' = Queued
        BY <2>2 DEF Queued
    <2>4. UNCHANGED <<directives, bridge, shutdowns>>
        BY <1>8 DEF StopLoopJoined, DestroyJoined
    <2>5. \E to \in Places : /\ Go(c, to)
                             /\ to \in {"shutdown", "bridge_down"} => at[c] = "shutdown"
        BY <1>8 DEF StopLoopJoined, DestroyJoined, Places
    <2> QED BY <1>5, <2>2, <2>3, <2>4, <2>5
<1>9. ASSUME NEW t \in Threads, Test(t) \/ Ready(t) \/ Poll(t) \/ Finish(t)
      PROVE  PendingInv'
    <2>1. /\ worker[t] # "process" /\ worker'[t] # "process"
          /\ worker'[t] = "push" => bridge
          /\ \A u \in Threads : u # t => worker'[u] = worker[u]
          /\ UNCHANGED <<bridge, directives, shutdowns, at>>
        BY <1>9 DEF Test, Ready, Poll, Finish, Step, CanSubmit
    <2>2. Queued' = Queued
        BY <2>1 DEF Queued
    <2> QED BY <2>1, <2>2, SameQueue DEF PendingInv
<1>10. ASSUME NEW t \in Threads, Push(t) PROVE PendingInv'
    <2>1. /\ worker[t] = "push" /\ worker' = [worker EXCEPT ![t] = "process"]
          /\ directives' = directives + 1 /\ UNCHANGED <<bridge, shutdowns, at>>
        BY <1>10 DEF Push, Step
    <2>2. Queued' = Queued \cup {t} /\ t \notin Queued
        BY <2>1 DEF Queued
    <2>3. IsFiniteSet(Queued') /\ Cardinality(Queued') = Cardinality(Queued) + 1
        BY <2>2, FS_AddElement DEF PendingInv
    <2> QED BY <2>1, <2>3 DEF PendingInv
<1>11. ASSUME NEW t \in Threads, Process(t) PROVE PendingInv'
    <2>1. /\ worker[t] = "process" /\ worker' = [worker EXCEPT ![t] = "poll"]
          /\ bridge => directives' = directives - Taken
          /\ UNCHANGED <<bridge, shutdowns, at>>
        BY <1>11 DEF Process, Step
    <2>2. Queued' = Queued \ {t} /\ t \in Queued
        BY <2>1 DEF Queued
    <2>3. /\ IsFiniteSet(Queued') /\ Cardinality(Queued') = Cardinality(Queued) - 1
          /\ Cardinality(Queued) \in Nat /\ Cardinality(Queued') \in Nat
        BY <2>2, FS_RemoveElement, FS_CardinalityType DEF PendingInv
    <2>4. CASE shutdowns = 0
        <3>1. bridge /\ directives > 0
            BY <2>1, <2>3, <2>4 DEF PendingInv
        <3>2. directives' = Cardinality(Queued')
            BY <2>1, <2>3, <2>4, <3>1 DEF PendingInv, Taken
        <3> QED BY <2>1, <2>3, <3>2 DEF PendingInv
    <2>5. CASE shutdowns # 0
        BY <2>1, <2>3, <2>5 DEF PendingInv
    <2> QED BY <2>4, <2>5
<1>12. CASE UNCHANGED vars
    BY <1>1, <1>12 DEF vars
<1> QED BY <1>2, <1>3, <1>4, <1>6, <1>7, <1>8, <1>9, <1>10, <1>11, <1>12
        DEF Next, Decide, Continue, Work

\* There is never a second combined loop, combined_loop_active tells the truth
\* whenever loop_mutex is free, and until the first shutdown the number of
\* pending directives is that of the threads that have yet to process theirs.
THEOREM ReportsAreTrue == Spec => []ReportsAgree
<1>1. Init => PendingInv
    <2> SUFFICES ASSUME Init PROVE PendingInv
        OBVIOUS
    <2>1. Queued = {}
        BY DEF Init, Queued
    <2>2. IsFiniteSet(Queued) /\ Cardinality(Queued) = 0
        BY <2>1, FS_EmptySet
    <2> QED BY <2>2 DEF Init, PendingInv
<1>2. TypeInv /\ PendingInv /\ [Next]_vars => PendingInv'
    BY NextPendingInv
<1>3. TypeInv /\ LoopsInv /\ PendingInv => ReportsAgree
    BY LoopFlagHolds DEF ReportsAgree, PendingInv, PendingAreUnprocessed, Queued
<1> QED BY <1>1, <1>2, <1>3, LoopsHold, PTL DEF Spec
=============================================================================
