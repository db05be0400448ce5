------------------------------ MODULE QofEvent ------------------------------
(***************************************************************************)
(* The engine's event dispatcher, libgnucash/engine/qofevent.cpp.          *)
(*                                                                         *)
(* Handlers are kept in one linked list.  Generating an event walks the    *)
(* list and calls every handler; a handler is ordinary program code and    *)
(* may itself register and unregister handlers, suspend and resume the     *)
(* dispatcher and generate further events, so runs nest.  The whole of it  *)
(* is one thread: what interleaves is the code that runs INSIDE a handler  *)
(* with the walk that called it, which resumes from a saved node pointer.  *)
(*                                                                         *)
(* The list.  A node is named by its handler_id.  Ids grow with every      *)
(* registration and a new node is prepended, so the list is the set of its *)
(* nodes in decreasing order of id, and is represented by that set.        *)
(* Wrap-around of the 32-bit id after 2^31 registrations is not modelled.  *)
(***************************************************************************)
EXTENDS Naturals

CONSTANTS
    MaxHandlers,   \* bound: registrations in a behaviour
    MaxEvents,     \* bound: events generated in a behaviour
    MaxSuspend,    \* bound: nesting of qof_event_suspend
    MaxPending     \* bound: unregistrations while a run is on

ASSUME BoundsAssumption ==
    /\ MaxHandlers \in Nat \ {0}
    /\ MaxEvents   \in Nat
    /\ MaxSuspend  \in Nat
    /\ MaxPending  \in Nat

VARIABLES
    handlers,           \* the nodes of the list
    nulled,             \* the nodes whose handler pointer has been set to NULL
    next_handler_id,
    handler_run_level,
    pending_deletes,
    suspend_counter,
    runs,               \* the C stack: one frame per active generate_internal
    events              \* how many events were generated (for the bound only)

vars == <<handlers, nulled, next_handler_id, handler_run_level,
          pending_deletes, suspend_counter, runs, events>>

Id     == Nat \ {0}
NoNode == 0
Live   == handlers \ nulled

\* A walk of the list: hi and next_node of the C function; `start` (the
\* handlers that were live when the event was generated) and `called` are
\* history, read by the properties only.
Frame == [at : Id, next : Nat, start : SUBSET Id, called : SUBSET Id]

Init ==
    /\ handlers = {}
    /\ nulled = {}
    /\ next_handler_id = 1
    /\ handler_run_level = 0
    /\ pending_deletes = 0
    /\ suspend_counter = 0
    /\ runs = [l \in 1 .. 0 |-> {}]
    /\ events = 0

-----------------------------------------------------------------------------
(* The list walk.                                                          *)

\* h is the first node, in list order, of the set S.
IsFirst(h, S) == h \in S /\ \A k \in S : k <= h

\* n is node->next of node h.
IsNextNode(n, h) ==
    LET after == {k \in handlers : k < h}
    IN  IF after = {} THEN n = NoNode ELSE IsFirst(n, after)

\* The nodes from `node` on whose handler the walk will call: a node whose
\* handler is NULL is passed over.
MutStopAtNull(node) ==
    IF node \in nulled THEN {} ELSE {k \in Live : k <= node}
ToCall(node) == {k \in Live : k <= node}

\* Whether qof_event_unregister_handler may take the node out of the list now.
MutAlwaysUnlink == TRUE
MayUnlink == handler_run_level = 0

MutForgetPending == pending_deletes
OneMorePending == pending_deletes + 1

\* Whether the run that ends now also deletes the nodes nulled during it.
MutPurgeAtAnyLevel(level) == pending_deletes > 0
PurgesAt(level) == level = 0 /\ pending_deletes > 0

-----------------------------------------------------------------------------
(* The operations.  Each may be called by the program's main loop          *)
(* (handler_run_level = 0) or by the handler the innermost run is in.      *)

Register ==
    /\ next_handler_id <= MaxHandlers
    /\ handlers' = handlers \cup {next_handler_id}
    /\ next_handler_id' = next_handler_id + 1
    /\ UNCHANGED <<nulled, handler_run_level, pending_deletes,
                   suspend_counter, runs, events>>

\* An id that is not in the list is only logged (PERR): no step.
Unregister(id) ==
    /\ id \in handlers
    /\ \/ /\ MayUnlink
          /\ handlers' = handlers \ {id}
          /\ nulled' = nulled \ {id}
          /\ UNCHANGED pending_deletes
       \/ /\ ~MayUnlink
          /\ pending_deletes < MaxPending
          /\ nulled' = nulled \cup {id}
          /\ pending_deletes' = OneMorePending
          /\ UNCHANGED handlers
    /\ UNCHANGED <<next_handler_id, handler_run_level, suspend_counter,
                   runs, events>>

Suspend ==
    /\ suspend_counter < MaxSuspend
    /\ suspend_counter' = suspend_counter + 1
    /\ UNCHANGED <<handlers, nulled, next_handler_id, handler_run_level,
                   pending_deletes, runs, events>>

\* Underflow is only logged: no step.
MutResumeUnchecked ==
    /\ suspend_counter' = suspend_counter - 1
    /\ UNCHANGED <<handlers, nulled, next_handler_id, handler_run_level,
                   pending_deletes, runs, events>>
Resume ==
    /\ suspend_counter > 0
    /\ suspend_counter' = suspend_counter - 1
    /\ UNCHANGED <<handlers, nulled, next_handler_id, handler_run_level,
                   pending_deletes, runs, events>>

\* qof_event_generate_internal up to the first handler call.  With nobody to
\* call, the function returns at once; at level 0 there is then nothing to
\* delete either (NoTombstoneAtRest).
GenerateInternal ==
    /\ events < MaxEvents
    /\ events' = events + 1
    /\ \/ /\ Live = {}
          /\ UNCHANGED <<handler_run_level, runs>>
       \/ \E h \in Live, n \in handlers \cup {NoNode} :
          /\ IsFirst(h, Live)
          /\ IsNextNode(n, h)
          /\ handler_run_level' = handler_run_level + 1
          /\ runs' = [l \in 1 .. handler_run_level + 1 |->
                        IF l <= handler_run_level
                        THEN runs[l]
                        ELSE [at |-> h, next |-> n,
                              start |-> Live, called |-> {h}]]
    /\ UNCHANGED <<handlers, nulled, next_handler_id, pending_deletes,
                   suspend_counter>>

\* An event is dropped while the dispatcher is suspended ...
EventGen == suspend_counter = 0 /\ GenerateInternal

\* ... unless it is forced.
EventForce == GenerateInternal

\* The handler of the innermost run returns and the walk goes on to the next
\* node that has a handler ...
CallNext ==
    /\ handler_run_level > 0
    /\ LET f == runs[handler_run_level] IN
       \E h \in ToCall(f.next), n \in handlers \cup {NoNode} :
          /\ IsFirst(h, ToCall(f.next))
          /\ IsNextNode(n, h)
          /\ runs' = [runs EXCEPT ![handler_run_level] =
                        [at |-> h, next |-> n, start |-> f.start,
                         called |-> f.called \cup {h}]]
    /\ UNCHANGED <<handlers, nulled, next_handler_id, handler_run_level,
                   pending_deletes, suspend_counter, events>>

\* ... or, when there is none, the run ends; the outermost one then deletes
\* the nodes that were nulled in the meantime.
EndRun ==
    /\ handler_run_level > 0
    /\ ToCall(runs[handler_run_level].next) = {}
    /\ handler_run_level' = handler_run_level - 1
    /\ runs' = [l \in 1 .. handler_run_level - 1 |-> runs[l]]
    /\ \/ /\ PurgesAt(handler_run_level - 1)
          /\ handlers' = Live
          /\ nulled' = {}
          /\ pending_deletes' = 0
       \/ /\ ~PurgesAt(handler_run_level - 1)
          /\ UNCHANGED <<handlers, nulled, pending_deletes>>
    /\ UNCHANGED <<next_handler_id, suspend_counter, events>>

Next ==
    \/ Register
    \/ \E id \in handlers : Unregister(id)
    \/ Suspend
    \/ Resume
    \/ EventGen
    \/ EventForce
    \/ CallNext
    \/ EndRun

\* A handler returns and the walk goes on: the only fairness the single
\* thread gives.  That events are finite in number is the bound MaxEvents.
Fairness == WF_vars(CallNext \/ EndRun)

Spec == Init /\ [][Next]_vars
FairSpec == Spec /\ Fairness

-----------------------------------------------------------------------------
(* Properties.                                                             *)

\* Types, and what the counters and the stack may be.
TypeOK ==
    /\ handlers \subseteq 1 .. MaxHandlers
    /\ nulled \subseteq handlers
    /\ next_handler_id \in 1 .. MaxHandlers + 1
    /\ handler_run_level \in Nat
    /\ pending_deletes \in 0 .. MaxPending
    /\ suspend_counter \in 0 .. MaxSuspend
    /\ runs \in [1 .. handler_run_level -> Frame]
    /\ events \in 0 .. MaxEvents

\* The node from which a suspended walk will go on (next_node, read before the
\* handler was called) is still in the list whatever that handler and the
\* runs nested in it did: the walk never follows a freed node.
CursorInList ==
    \A l \in 1 .. handler_run_level : runs[l].next \in handlers \cup {NoNode}

\* When no event is being delivered the list holds no node without a handler,
\* and the count that says so is zero: deferred deletion leaks nothing.
NoTombstoneAtRest ==
    handler_run_level = 0 => nulled = {} /\ pending_deletes = 0

\* A run ends only after it has called every handler that was registered when
\* the event was generated and is registered still, whatever the handlers
\* called before it registered or removed.
EveryLiveHandlerNotified ==
    [][\A l \in 1 .. handler_run_level :
          handler_run_level' < l =>
             runs[l].start \cap Live \subseteq runs[l].called]_vars

\* A handler unregistered in the middle of a run is freed in the end.
TombstonesFreed ==
    \A id \in 1 .. MaxHandlers : id \in nulled ~> id \notin handlers
=============================================================================
