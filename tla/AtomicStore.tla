---------------------------- MODULE AtomicStore ----------------------------
(***************************************************************************)
(* What a data store promises its users: a save either happens or does     *)
(* not.  `store` is the version of the book the next user will find;       *)
(* several processes have a version in memory, change it, and at one       *)
(* instant of a save - or never, if the process dies or the save fails -   *)
(* what is stored becomes what that process has in memory.                 *)
(***************************************************************************)
EXTENDS Naturals

CONSTANTS
    Procs,   \* the processes
    None     \* "nothing": no store yet, or no book in memory

VARIABLES store, working

vars == <<store, working>>

\* Versions are numbered in the order in which they are made.
Version == Nat

Init ==
    /\ store \in Version \cup {None}
    /\ working = [p \in Procs |-> None]

\* Process p, and no other, now has version v in memory.
Works(p, v) == working' = [working EXCEPT ![p] = v]

\* A version nobody has made before.
IsNew(v) == v \in Version /\ v > store /\ \A q \in Procs : v > working[q]

\* A process gets a book: the stored one, or a new one.
Open(p) ==
    /\ working[p] = None
    /\ working'[p] # None
    /\ working'[p] = store \/ IsNew(working'[p])
    /\ Works(p, working'[p])
    /\ UNCHANGED store

Edit(p) ==
    /\ working[p] # None
    /\ IsNew(working'[p])
    /\ Works(p, working'[p])
    /\ UNCHANGED store

\* The instant of a save.  It never brings back an older version.
Save(p) ==
    /\ working[p] > store
    /\ store' = working[p]
    /\ UNCHANGED working

\* The process ends its session, or dies: nothing stored changes.
Leave(p) ==
    /\ Works(p, None)
    /\ UNCHANGED store

Next == \E p \in Procs : Open(p) \/ Edit(p) \/ Save(p) \/ Leave(p)

Spec == Init /\ [][Next]_vars
=============================================================================
