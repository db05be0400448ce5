----------------------------- MODULE PartsStore -----------------------------
(***************************************************************************)
(* What a data store that is written object by object promises its users.  *)
(* The book has parts.  A process changes its book in memory and then      *)
(* commits it part by part, each at one instant; or it saves the whole     *)
(* book anew, and then all parts change at one instant.  Nothing else ever *)
(* changes what the next user will find, and that user finds exactly that. *)
(***************************************************************************)
EXTENDS Naturals

CONSTANTS
    Procs,   \* the processes
    Parts,   \* the parts of the book
    None     \* no version: a part that is missing, or no book in memory

VARIABLES
    store,   \* the version of each part that is stored
    working  \* the version of each part of each process's book

vars == <<store, working>>

\* Versions are numbered in the order in which they are made.
Version == Nat
Nothing == [t \in Parts |-> None]

Init ==
    /\ store \in [Parts -> Version]
    /\ working = [p \in Procs |-> Nothing]

\* A version nobody has made before.
IsNew(v) ==
    /\ v \in Version
    /\ \A t \in Parts : v > store[t] /\ \A q \in Procs : v > working[q][t]

\* A process gets the book that is stored.
Open(p) ==
    /\ working[p] = Nothing
    /\ working' = [working EXCEPT ![p] = store]
    /\ UNCHANGED store

Edit(p) ==
    /\ working[p] # Nothing
    /\ \A t \in Parts : IsNew(working'[p][t])
    /\ working' = [working EXCEPT ![p] = working'[p]]
    /\ UNCHANGED store

\* The instant of a commit.  It never brings back an older version.
Commit(p, t) ==
    /\ working[p][t] > store[t]
    /\ store' = [store EXCEPT ![t] = working[p][t]]
    /\ UNCHANGED working

\* The instant of a save of the whole book.
Save(p) ==
    /\ \A t \in Parts : working[p][t] > store[t]
    /\ store' = working[p]
    /\ UNCHANGED working

\* The process ends its session, or dies: nothing stored changes.
Leave(p) ==
    /\ working' = [working EXCEPT ![p] = Nothing]
    /\ UNCHANGED store

Next == \E p \in Procs :
    Open(p) \/ Edit(p) \/ (\E t \in Parts : Commit(p, t)) \/ Save(p) \/ Leave(p)
=============================================================================
