--------------------------- MODULE QofEventProofs ---------------------------
(***************************************************************************)
(* Safety of the event dispatcher, for any number of handlers, events and  *)
(* nested runs.                                                            *)
(***************************************************************************)
EXTENDS QofEvent, TLAPS

\* pending_deletes is zero only when no node waits to be deleted, and it is
\* zero between events.
PendingInv ==
    /\ pending_deletes = 0 => nulled = {}
    /\ handler_run_level = 0 => pending_deletes = 0

\* Ids in use, and those a run remembers, are older than the next id.
FreshInv ==
    /\ \A h \in handlers : h < next_handler_id
    /\ \A l \in 1 .. handler_run_level :
          \A h \in runs[l].start : h < next_handler_id

\* Of the handlers a run started with, those still registered have been
\* called or lie ahead of the saved node.
AheadInv ==
    \A l \in 1 .. handler_run_level :
        \A h \in runs[l].start \cap Live :
            h \in runs[l].called \/ h <= runs[l].next

IInv == TypeOK /\ CursorInList /\ PendingInv /\ FreshInv /\ AheadInv

-----------------------------------------------------------------------------

LEMMA InitIInv == Init => IInv
BY BoundsAssumption
   DEF Init, IInv, TypeOK, CursorInList, PendingInv, FreshInv, AheadInv

LEMMA RegisterIInv == IInv /\ Register => IInv'
<1> SUFFICES ASSUME IInv, Register PROVE IInv'
    OBVIOUS
<1> USE BoundsAssumption
<1>1. TypeOK'
    BY DEF IInv, TypeOK, FreshInv, Register
<1>2. CursorInList'
    BY DEF IInv, CursorInList, Register, NoNode
<1>3. PendingInv'
    BY DEF IInv, PendingInv, Register
<1>4. FreshInv'
    BY DEF IInv, TypeOK, FreshInv, Register, Frame, Id
<1>5. AheadInv'
    BY DEF IInv, TypeOK, FreshInv, AheadInv, Register, Live
<1> QED BY <1>1, <1>2, <1>3, <1>4, <1>5 DEF IInv

LEMMA UnregisterIInv ==
    ASSUME NEW id \in handlers, IInv, Unregister(id) PROVE IInv'
<1> USE BoundsAssumption
<1>1. CASE MayUnlink
    <2>1. handler_run_level = 0 /\ handlers' = handlers \ {id}
          /\ nulled' = nulled \ {id}
          /\ UNCHANGED <<pending_deletes, next_handler_id, handler_run_level,
                         suspend_counter, runs, events>>
        BY <1>1 DEF Unregister, MayUnlink
    <2> QED BY <2>1 DEF IInv, TypeOK, CursorInList, PendingInv, FreshInv,
                        AheadInv
<1>2. CASE ~MayUnlink
    <2>1. /\ handler_run_level # 0
          /\ nulled' = nulled \cup {id}
          /\ pending_deletes < MaxPending
          /\ pending_deletes' = pending_deletes + 1
          /\ UNCHANGED <<handlers, next_handler_id, handler_run_level,
                         suspend_counter, runs, events>>
        BY <1>2 DEF Unregister, MayUnlink, OneMorePending
    <2>2. TypeOK'
        BY <2>1 DEF IInv, TypeOK
    <2>3. CursorInList' /\ PendingInv' /\ FreshInv'
        BY <2>1 DEF IInv, TypeOK, CursorInList, PendingInv, FreshInv
    <2>4. AheadInv'
        BY <2>1 DEF IInv, AheadInv, Live
    <2> QED BY <2>2, <2>3, <2>4 DEF IInv
<1> QED BY <1>1, <1>2

LEMMA GenerateIInv == IInv /\ GenerateInternal => IInv'
<1> SUFFICES ASSUME IInv, GenerateInternal PROVE IInv'
    OBVIOUS
<1> USE BoundsAssumption
<1>1. CASE Live = {} /\ UNCHANGED <<handler_run_level, runs>>
    BY <1>1 DEF GenerateInternal, IInv, TypeOK, CursorInList, PendingInv,
                FreshInv, AheadInv, Live
<1>2. ASSUME NEW h \in Live, NEW n \in handlers \cup {NoNode},
             IsFirst(h, Live), IsNextNode(n, h),
             handler_run_level' = handler_run_level + 1,
             runs' = [l \in 1 .. handler_run_level + 1 |->
                        IF l <= handler_run_level
                        THEN runs[l]
                        ELSE [at |-> h, next |-> n,
                              start |-> Live, called |-> {h}]]
      PROVE  IInv'
    <2> DEFINE new == [at |-> h, next |-> n, start |-> Live, called |-> {h}]
    <2>1. /\ events < MaxEvents /\ events' = events + 1
          /\ UNCHANGED <<handlers, nulled, next_handler_id, pending_deletes,
                         suspend_counter>>
        BY DEF GenerateInternal
    <2>2. handler_run_level \in Nat /\ handlers \subseteq Nat \ {0}
        BY DEF IInv, TypeOK
    <2>3. new \in Frame
        <3>1. h \in Nat \ {0} /\ n \in Nat
              /\ Live \in SUBSET (Nat \ {0}) /\ {h} \in SUBSET (Nat \ {0})
            <4>1. Live \subseteq Nat \ {0}
                BY <2>2 DEF Live
            <4> QED BY <2>2, <4>1 DEF NoNode
        <3> QED BY <3>1 DEF Frame, Id
    <2>4. \A l \in 1 .. handler_run_level' :
             \/ l \in 1 .. handler_run_level /\ runs'[l] = runs[l]
             \/ runs'[l] = new
        BY <1>2, <2>2
    <2>5. TypeOK'
        <3>1. runs' \in [1 .. handler_run_level' -> Frame]
            BY <1>2, <2>2, <2>3 DEF IInv, TypeOK
        <3>2. handler_run_level' \in Nat
            BY <1>2, <2>2
        <3> QED BY <3>1, <3>2, <2>1 DEF IInv, TypeOK
    <2>6. CursorInList'
        BY <2>1, <2>4 DEF IInv, CursorInList, NoNode
    <2>7. PendingInv'
        BY <2>1, <2>2, <1>2 DEF IInv, PendingInv
    <2>8. FreshInv'
        BY <2>1, <2>4 DEF IInv, FreshInv, Live
    <2>9. \A k \in Live : k \in {h} \/ k <= n
        BY <1>2, <2>2 DEF IsFirst, IsNextNode, Live
    <2>10. AheadInv'
        BY <2>1, <2>4, <2>9 DEF IInv, AheadInv, Live
    <2> QED BY <2>5, <2>6, <2>7, <2>8, <2>10 DEF IInv
<1> QED BY <1>1, <1>2 DEF GenerateInternal

LEMMA CallNextIInv == IInv /\ CallNext => IInv'
<1> SUFFICES ASSUME IInv, CallNext PROVE IInv'
    OBVIOUS
<1> USE BoundsAssumption
<1> DEFINE lvl == handler_run_level
           f == runs[lvl]
<1>1. /\ lvl > 0
      /\ UNCHANGED <<handlers, nulled, next_handler_id, handler_run_level,
                     pending_deletes, suspend_counter, events>>
    BY DEF CallNext
<1>2. PICK h \in ToCall(f.next), n \in handlers \cup {NoNode} :
          /\ IsFirst(h, ToCall(f.next))
          /\ IsNextNode(n, h)
          /\ runs' = [runs EXCEPT ![lvl] =
                        [at |-> h, next |-> n, start |-> f.start,
                         called |-> f.called \cup {h}]]
    BY DEF CallNext
<1> DEFINE g == [at |-> h, next |-> n, start |-> f.start,
                 called |-> f.called \cup {h}]
<1>3. /\ lvl \in 1 .. lvl /\ f \in Frame
      /\ handlers \subseteq Nat \ {0} /\ h \in Live
      /\ runs \in [1 .. lvl -> Frame]
    BY <1>1 DEF IInv, TypeOK, ToCall
<1>4. /\ g \in Frame /\ g.next = n /\ g.start = f.start
      /\ g.called = f.called \cup {h}
    <2>1. h \in Nat \ {0} /\ n \in Nat
        BY <1>3 DEF NoNode, Live
    <2>2. f.called \cup {h} \in SUBSET (Nat \ {0}) /\ f.start \in SUBSET (Nat \ {0})
        BY <1>3, <2>1 DEF Frame, Id
    <2> QED BY <2>1, <2>2 DEF Frame, Id
<1>5. \A l \in 1 .. lvl : runs'[l] = IF l = lvl THEN g ELSE runs[l]
    BY <1>2, <1>3
<1>6. TypeOK'
    <2>1. runs' \in [1 .. lvl -> Frame]
        BY <1>2, <1>3, <1>4
    <2> QED BY <2>1, <1>1 DEF IInv, TypeOK
<1>7. CursorInList'
    BY <1>1, <1>4, <1>5 DEF IInv, CursorInList, NoNode
<1>8. PendingInv'
    BY <1>1 DEF IInv, PendingInv
<1>9. FreshInv'
    BY <1>1, <1>3, <1>4, <1>5 DEF IInv, FreshInv
<1>10. \A k \in ToCall(f.next) : k = h \/ k <= n
    BY <1>2, <1>3 DEF IsFirst, IsNextNode, ToCall, Live
<1>11. AheadInv'
    BY <1>1, <1>3, <1>4, <1>5, <1>10 DEF IInv, AheadInv, Live, ToCall
<1> QED BY <1>6, <1>7, <1>8, <1>9, <1>11 DEF IInv

LEMMA EndRunIInv == IInv /\ EndRun => IInv'
<1> SUFFICES ASSUME IInv, EndRun PROVE IInv'
    OBVIOUS
<1> USE BoundsAssumption
<1>1. /\ handler_run_level' = handler_run_level - 1
      /\ handler_run_level \in Nat /\ handler_run_level > 0
      /\ runs' = [l \in 1 .. handler_run_level - 1 |-> runs[l]]
      /\ runs \in [1 .. handler_run_level -> Frame]
      /\ UNCHANGED <<next_handler_id, suspend_counter, events>>
    BY DEF EndRun, IInv, TypeOK
<1>2. /\ runs' \in [1 .. handler_run_level' -> Frame]
      /\ \A l \in 1 .. handler_run_level' :
            l \in 1 .. handler_run_level /\ runs'[l] = runs[l]
    BY <1>1
<1>3. CASE PurgesAt(handler_run_level - 1)
    <2>1. /\ handler_run_level' = 0 /\ handlers' = Live
          /\ nulled' = {} /\ pending_deletes' = 0
        BY <1>1, <1>3 DEF EndRun, PurgesAt
    <2> QED BY <1>1, <1>2, <2>1 DEF IInv, TypeOK, CursorInList, PendingInv,
                                FreshInv, AheadInv, Live
<1>4. CASE ~PurgesAt(handler_run_level - 1)
    <2>1. UNCHANGED <<handlers, nulled, pending_deletes>>
        BY <1>4 DEF EndRun
    <2>2. handler_run_level' = 0 => pending_deletes = 0
        BY <1>1, <1>4 DEF PurgesAt, IInv, TypeOK
    <2> QED BY <1>1, <1>2, <2>1, <2>2 DEF IInv, TypeOK, CursorInList,
                                PendingInv, FreshInv, AheadInv, Live
<1> QED BY <1>3, <1>4

LEMMA NextIInv == IInv /\ [Next]_vars => IInv'
<1> SUFFICES ASSUME IInv, [Next]_vars PROVE IInv'
    OBVIOUS
<1>1. CASE Register
    BY <1>1, RegisterIInv
<1>2. ASSUME NEW id \in handlers, Unregister(id) PROVE IInv'
    BY <1>2, UnregisterIInv
<1>3. CASE Suspend
    BY <1>3, BoundsAssumption DEF Suspend, IInv, TypeOK, CursorInList,
                PendingInv, FreshInv, AheadInv, Live
<1>4. CASE Resume
    BY <1>4, BoundsAssumption DEF Resume, IInv, TypeOK, CursorInList,
                PendingInv, FreshInv, AheadInv, Live
<1>5. CASE EventGen \/ EventForce
    BY <1>5, GenerateIInv DEF EventGen, EventForce
<1>6. CASE CallNext
    BY <1>6, CallNextIInv
<1>7. CASE EndRun
    BY <1>7, EndRunIInv
<1>8. CASE UNCHANGED vars
    BY <1>8 DEF vars, IInv, TypeOK, CursorInList, PendingInv, FreshInv,
                AheadInv, Live
<1> QED BY <1>1, <1>2, <1>3, <1>4, <1>5, <1>6, <1>7, <1>8 DEF Next

\* The inductive invariant of the dispatcher.
THEOREM Inductive == Spec => []IInv
BY InitIInv, NextIInv, PTL DEF Spec

\* The counters, the list and the stack of runs keep their types.
THEOREM TypeCorrect == Spec => []TypeOK
<1>1. IInv => TypeOK
    BY DEF IInv
<1> QED BY Inductive, <1>1, PTL

\* No walk is ever left holding a node that has been freed: what makes it safe
\* to unregister a handler, one's own included, from inside a handler.
THEOREM CursorsAreSafe == Spec => []CursorInList
<1>1. IInv => CursorInList
    BY DEF IInv
<1> QED BY Inductive, <1>1, PTL

\* Between events the list holds live handlers only.
THEOREM NoTombstones == Spec => []NoTombstoneAtRest
<1>1. IInv => NoTombstoneAtRest
    BY DEF IInv, PendingInv, NoTombstoneAtRest
<1> QED BY Inductive, <1>1, PTL

\* A run that ends has called every handler that was registered throughout it.
THEOREM NobodySkipped == Spec => EveryLiveHandlerNotified
<1> DEFINE Notified ==
        \A l \in 1 .. handler_run_level :
            handler_run_level' < l =>
                runs[l].start \cap Live \subseteq runs[l].called
<1>1. IInv /\ [Next]_vars => [Notified]_vars
    <2> SUFFICES ASSUME IInv, [Next]_vars,
                        NEW l \in 1 .. handler_run_level,
                        handler_run_level' < l,
                        NEW h \in runs[l].start \cap Live
                 PROVE  h \in runs[l].called
        BY DEF Notified
    <2>1. handler_run_level \in Nat
        BY DEF IInv, TypeOK
    <2>2. EndRun
        BY <2>1 DEF Next, vars, Register, Unregister, Suspend, Resume, EventGen,
               EventForce, GenerateInternal, CallNext
    <2>3. l = handler_run_level
        BY <2>1, <2>2 DEF EndRun
    <2>4. ~(h <= runs[l].next)
        BY <2>2, <2>3 DEF EndRun, ToCall
    <2> QED BY <2>4 DEF IInv, AheadInv
<1> QED BY Inductive, <1>1, PTL DEF Spec, EveryLiveHandlerNotified
=============================================================================
