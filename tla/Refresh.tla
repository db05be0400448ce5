------------------------------ MODULE Refresh ------------------------------
(***************************************************************************)
(* The component manager, gnucash/gnome-utils/gnc-component-manager.c: the *)
(* windows and dialogs ("components") of the user interface say which      *)
(* entities they watch, and are refreshed when one of those has changed.   *)
(*                                                                         *)
(* Events of the engine are collected in `changes`.  A refresh swaps that  *)
(* with `changes_backup` and calls the refresh handler of every component  *)
(* that watches a change, newest component first.  The code that raises    *)
(* many events suspends refreshes meanwhile; a refresh suspends them too,  *)
(* because its handlers may raise events, register and unregister.         *)
(*                                                                         *)
(* Everything runs in the thread of the user interface: the only things    *)
(* that happen between two steps of a refresh, or of the closing of a      *)
(* session, are what the handler it called does.                           *)
(***************************************************************************)
EXTENDS Naturals, FiniteSets, Sequences, SequencesExt

CONSTANTS
    Entities,       \* entities of the engine
    TypeOf,         \* TypeOf[e]: the type of e
    Events,         \* event ids, the bits of an event mask
    MaxComponents,  \* bound: components registered
    MaxWatches,     \* bound: (entity or type, event) pairs one of them watches
    MaxSuspends     \* bound: suspensions nested

Types == {TypeOf[e] : e \in Entities} \cup {"Trans"}
Keys  == Entities \cup Types
Pairs == Keys \X Events

ASSUME RefreshAssumption ==
    /\ "modify" \in Events
    /\ Entities \cap Types = {}
    /\ MaxComponents \in Nat /\ MaxWatches \in Nat /\ MaxSuspends \in Nat

VARIABLES
    components,   \* ids of the registered components, newest first
    nextId,       \* next_component_id
    watch,        \* watch_info of each: the pairs it watches
    inSession,    \* the components that belong to the current session
    opener,       \* the component out of which each was opened, or none
    suspends,     \* suspend_counter
    changes, changesBackup, gotEvents,
    refreshes,    \* the refreshes in progress, the innermost last
    closing,      \* likewise the close_by_session in progress
    eventsOff,    \* whether qof_event_suspend is in force
    owed,         \* history: <<c, pair>>, changes c watched and was not told
    late          \* history: the pairs raised in the middle of a refresh

registry == <<components, nextId, watch, inSession, opener>>
pending  == <<changes, changesBackup, gotEvents, owed, late>>
walks    == <<refreshes, closing>>
vars == <<registry, pending, walks, suspends, eventsOff>>

Id == 1 .. MaxComponents
NoComponent == 0
Registered == Range(components)

Init ==
    /\ components = <<>> /\ nextId = 1
    /\ watch = [c \in Id |-> {}]
    /\ inSession = {}
    /\ opener = [c \in Id |-> NoComponent]
    /\ suspends = 0
    /\ changes = {} /\ changesBackup = {} /\ gotEvents = FALSE
    /\ refreshes = <<>> /\ closing = <<>>
    /\ eventsOff = FALSE
    /\ owed = {} /\ late = {}

\* A walk over the components calls handlers; `in` is the component whose
\* handler runs, `rest` those the walk has yet to come to.
Walk(ids, force) == [rest |-> ids, in |-> NoComponent, force |-> force]
Inside(walk) == Last(walk).in # NoComponent
Enter(walk, c) ==
    Append(Front(walk), [Last(walk) EXCEPT !.rest = Tail(@), !.in = c])
Leave(walk) == Append(Front(walk), [Last(walk) EXCEPT !.in = NoComponent])

\* Code of the program runs: no walk is in progress, or a handler it called.
Running ==
    IF refreshes # <<>> THEN Inside(refreshes)
    ELSE closing # <<>> => Inside(closing)

-----------------------------------------------------------------------------
(* gnc_gui_refresh_internal.                                               *)

\* What a refresh adds to the suspend counter while it runs.
MutNoHold == 0
Hold == 1
Holds == Hold * Len(refreshes)

\* The tables are swapped, and the ids listed.
Begin(collected, force) ==
    /\ suspends' = Hold
    /\ changesBackup' = collected
    /\ changes' = changesBackup
    /\ refreshes' = Append(refreshes, Walk(components, force))
    /\ late' = {}

\* What an event is recorded as; splits raise none of their own.
Recorded(e, event) ==
    {<<e, event>>, IF TypeOf[e] = "Split" THEN <<"Trans", "modify">>
                   ELSE <<TypeOf[e], event>>}

\* gnc_cm_event_handler.
Event(e, event) ==
    LET new == Recorded(e, event) IN
    /\ Running /\ ~eventsOff
    /\ gotEvents' = TRUE
    /\ owed' = owed \cup {o \in Registered \X new : o[2] \in watch[o[1]]}
    /\ \/ suspends = 0 /\ Begin(changes \cup new, FALSE)
       \/ /\ suspends # 0
          /\ changes' = changes \cup new
          /\ late' = IF refreshes # <<>> THEN late \cup new ELSE late \ new
          /\ UNCHANGED <<suspends, changesBackup, refreshes>>
    /\ UNCHANGED <<registry, closing, eventsOff>>

Suspend ==
    /\ Running
    /\ suspends < MaxSuspends + Holds
    /\ suspends' = suspends + 1
    /\ UNCHANGED <<registry, pending, walks, eventsOff>>

\* gnc_resume_gui_refresh, by code that suspended.
MutDue == FALSE
Due == suspends = 1 /\ gotEvents
Resume ==
    /\ Running
    /\ suspends > Holds
    /\ \/ Due /\ Begin(changes, FALSE)
       \/ /\ ~Due
          /\ suspends' = suspends - 1
          /\ UNCHANGED <<changes, changesBackup, late, refreshes>>
    /\ UNCHANGED <<registry, gotEvents, owed, closing, eventsOff>>

\* gnc_gui_refresh_all: refused while refreshes are suspended.
RefreshAll ==
    /\ Running /\ closing = <<>>
    /\ suspends = 0
    /\ Begin(changes, TRUE)
    /\ UNCHANGED <<registry, gotEvents, owed, closing, eventsOff>>

\* changes_match.
Matches(c) == watch[c] \cap changesBackup # {}

\* The next component of the snapshot: it may be gone, or watch nothing that
\* changed; else its handler is called.
Visit ==
    /\ refreshes # <<>> /\ ~Inside(refreshes)
    /\ LET walk == Last(refreshes) IN
       /\ walk.rest # <<>>
       /\ LET c == Head(walk.rest) IN
          \/ /\ c \in Registered /\ (walk.force \/ Matches(c))
             /\ refreshes' = Enter(refreshes, c)
             /\ owed' = {o \in owed : o[1] # c \/ o[2] \in changes}
          \/ /\ ~(c \in Registered /\ (walk.force \/ Matches(c)))
             /\ refreshes' = Enter(refreshes, NoComponent)
             /\ UNCHANGED owed
    /\ UNCHANGED <<registry, changes, changesBackup, gotEvents, late, closing,
                   suspends, eventsOff>>

\* A refresh handler returns, having resumed what it suspended.
Return ==
    /\ refreshes # <<>> /\ Inside(refreshes)
    /\ suspends = Holds
    /\ refreshes' = Leave(refreshes)
    /\ UNCHANGED <<registry, pending, closing, suspends, eventsOff>>

\* changes_backup is cleared and got_events reset, so that the resume at the
\* end never starts another refresh, whatever the handlers raised.
MutLeft == {}
Left == changes
EndRefresh ==
    /\ refreshes # <<>> /\ ~Inside(refreshes) /\ Last(refreshes).rest = <<>>
    /\ changesBackup' = {}
    /\ changes' = Left
    /\ gotEvents' = FALSE
    /\ suspends' = suspends - Hold
    /\ refreshes' = Front(refreshes)
    /\ UNCHANGED <<registry, owed, late, closing, eventsOff>>

-----------------------------------------------------------------------------
(* The registry.                                                           *)

\* gnc_register_gui_component, and _set_session if s.
Register(from, s) ==
    /\ Running /\ closing = <<>>
    /\ nextId \in Id
    /\ components' = <<nextId>> \o components
    /\ nextId' = nextId + 1
    /\ inSession' = IF s THEN inSession \cup {nextId} ELSE inSession
    /\ opener' = [opener EXCEPT ![nextId] = from]
    /\ UNCHANGED <<watch, pending, walks, suspends, eventsOff>>

StopsWatching(c, watched) ==
    /\ watch' = [watch EXCEPT ![c] = watched]
    /\ owed' = {o \in owed : o[1] # c \/ o[2] \in watched}

\* gnc_gui_component_watch_entity and _watch_entity_type: the mask replaces
\* the one there was for that key.
Watch(c, key, mask) ==
    LET watched == {p \in watch[c] : p[1] # key} \cup ({key} \X mask) IN
    /\ Running /\ c \in Registered
    /\ Cardinality(watched) <= MaxWatches
    /\ StopsWatching(c, watched)
    /\ UNCHANGED <<components, nextId, inSession, opener, changes,
                   changesBackup, gotEvents, late, walks, suspends, eventsOff>>

\* gnc_gui_component_clear_watches.
ClearWatches(c) ==
    /\ Running /\ c \in Registered
    /\ StopsWatching(c, {})
    /\ UNCHANGED <<components, nextId, inSession, opener, changes,
                   changesBackup, gotEvents, late, walks, suspends, eventsOff>>

\* Component d was opened out of c, or out of one that was, or is c: it is in
\* every set that has c and all that was opened out of its members.
OpenedOutOf(c, d) ==
    \A S \in SUBSET Id :
        c \in S /\ (\A i \in Id : opener[i] \in S => i \in S) => d \in S

\* gnc_unregister_gui_component.  The close handler of a component unregisters
\* that one and, perhaps, those opened out of it: a window takes its dialogs
\* with it.  A refresh handler may close any.
MayUnregister(c) ==
    refreshes = <<>> /\ closing # <<>> => OpenedOutOf(Last(closing).in, c)

Unregister(c) ==
    /\ Running /\ c \in Registered
    /\ MayUnregister(c)
    /\ \E i \in DOMAIN components :
          components[i] = c /\ components' = RemoveAt(components, i)
    /\ inSession' = inSession \ {c}
    /\ StopsWatching(c, {})
    /\ UNCHANGED <<nextId, opener, changes, changesBackup, gotEvents, late,
                   walks, suspends, eventsOff>>

-----------------------------------------------------------------------------
(* gnc_close_gui_component_by_session, as gnc-file.c calls it, with events *)
(* suspended.  The walk has pointers: a component that is freed meanwhile  *)
(* must not be in what is left of it.                                      *)

\* The order of the list, in which the newest component is the first.
Place(c) == CHOOSE i \in DOMAIN components : components[i] = c
InListOrder(ids) ==
    \A i, j \in DOMAIN ids : i < j => Place(ids[i]) < Place(ids[j])

MutOldestFirst(ids) == Reverse(ids)
NewestFirst(ids) == ids

CloseSession ==
    /\ Running /\ refreshes = <<>> /\ closing = <<>>
    /\ suspends = 0
    /\ \E ids \in SetToSeqs(inSession) :
          InListOrder(ids) /\ closing' = <<Walk(NewestFirst(ids), FALSE)>>
    /\ eventsOff' = TRUE
    /\ UNCHANGED <<registry, pending, refreshes, suspends>>

CallClose ==
    /\ refreshes = <<>> /\ closing # <<>> /\ ~Inside(closing)
    /\ LET rest == Last(closing).rest IN
       /\ rest # <<>> /\ Head(rest) \in Registered
       /\ closing' = Enter(closing, Head(rest))
    /\ UNCHANGED <<registry, pending, refreshes, suspends, eventsOff>>

\* "Components may not ignore the handler."
CloseReturn ==
    /\ refreshes = <<>> /\ closing # <<>> /\ Inside(closing)
    /\ suspends = 0
    /\ Last(closing).in \notin Registered
    /\ closing' = Leave(closing)
    /\ UNCHANGED <<registry, pending, refreshes, suspends, eventsOff>>

EndClose ==
    /\ refreshes = <<>> /\ closing # <<>> /\ ~Inside(closing)
    /\ Last(closing).rest = <<>>
    /\ closing' = Front(closing)
    /\ eventsOff' = FALSE
    /\ UNCHANGED <<registry, pending, refreshes, suspends>>

-----------------------------------------------------------------------------

Next ==
    \/ \E e \in Entities, event \in Events : Event(e, event)
    \/ Suspend \/ Resume \/ RefreshAll
    \/ Visit \/ Return \/ EndRefresh
    \/ \E from \in Registered \cup {NoComponent}, s \in BOOLEAN :
           Register(from, s)
    \/ \E c \in Id :
           \/ \E key \in Keys, mask \in SUBSET Events : Watch(c, key, mask)
           \/ ClearWatches(c) \/ Unregister(c)
    \/ CloseSession \/ CallClose \/ CloseReturn \/ EndClose

Spec == Init /\ [][Next]_vars

-----------------------------------------------------------------------------
(* Properties.                                                             *)

WalkType ==
    [rest : Seq(Id), in : Id \cup {NoComponent}, force : BOOLEAN]

\* Types; refreshes are suspended while one is in progress.
TypeOK ==
    /\ components \in Seq(Id) /\ nextId \in 1 .. MaxComponents + 1
    /\ IsInjective(components)
    /\ watch \in [Id -> SUBSET Pairs] /\ inSession \subseteq Registered
    /\ opener \in [Id -> Id \cup {NoComponent}]
    /\ suspends \in Nat /\ suspends >= Len(refreshes)
    /\ changes \subseteq Pairs /\ changesBackup \subseteq Pairs
    /\ gotEvents \in BOOLEAN /\ eventsOff \in BOOLEAN
    /\ refreshes \in Seq(WalkType) /\ closing \in Seq(WalkType)
    /\ owed \subseteq Id \X Pairs /\ late \subseteq Pairs

\* No refresh starts inside another, whatever events the handlers raise and
\* whatever they suspend and resume: they share one changes_backup.
RefreshesDoNotNest == Len(refreshes) <= 1

\* A change that a component watches is not forgotten: it is still collected,
\* or the one refresh in progress has it and has yet to come to that component.
NothingForgotten ==
    /\ RefreshesDoNotNest
    /\ \A o \in owed :
         \/ o[2] \in changes
         \/ /\ o[2] \in changesBackup
            /\ \E i \in DOMAIN refreshes : o[1] \in Range(refreshes[i].rest)

\* "When the counter reaches zero, all changes which have occurred since the
\* last refresh are collected and passed to the components"
\* (gnc-component-manager.h, gnc_resume_gui_refresh).  The code does not keep
\* that promise (see the README), so no run checks it.
DeliveredAtZero == suspends = 0 => owed = {}

\* The same but for what was raised in the middle of a refresh.
DeliveredUnlessLate == suspends = 0 => \A o \in owed : o[2] \in late

\* The walk that closes the components of a session follows no pointer to a
\* component that was freed in its course: not by the close handlers before,
\* and not by a refresh they caused.
ClosingFollowsLive ==
    \A i \in DOMAIN closing : Range(closing[i].rest) \subseteq Registered
=============================================================================
