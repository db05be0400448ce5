--------------------------- MODULE SqlStoreProofs ---------------------------
(***************************************************************************)
(* The lock, the safe save and the recovery of an SQL database, for any    *)
(* number of processes and tables, faults and crashes.                     *)
(*                                                                         *)
(* Three invariants, each resting on those before it: TypeInv, in every    *)
(* configuration; LockInv, unless users break the locks of live sessions;  *)
(* and DataInv, if besides no session is read-only: one takes no lock, but *)
(* recovers.  DataInv says what each process knows of the tables by where  *)
(* it is in the code, and (Sound) that the rows of each table are either   *)
(* in place or in a backup from which the next session can restore them.   *)
(* LockInv holds up to a slip in lock_database, DataInv up to the first    *)
(* failure that the code takes for success.  AtomicInv adds what           *)
(* transactions that cover table definitions keep, for the refinement of   *)
(* PartsStore.                                                             *)
(***************************************************************************)
EXTENDS SqlStore, TLAPS

\* A database that holds tables of the names there are, with versions of a book.
Tabled(d) == DOMAIN d \subseteq Name /\ \A n \in DOMAIN d : d[n] \subseteq Version

ProcType ==
    /\ pc \in [Procs -> PCs]
    /\ mode \in [Procs -> Modes \cup {"NORMAL_OPEN"}]
    /\ todo \in [Procs -> SUBSET Tables] /\ had \in [Procs -> SUBSET Tables]
    /\ cur \in [Procs -> SUBSET Tables]
    /\ err \in [Procs -> BOOLEAN]
    /\ mem \in [Procs -> [Tables -> Nat]]

TypeInv ==
    /\ dbms \in {"sqlite", "mysql", "postgresql"}
    /\ Tabled(db) /\ Tabled(undo)
    /\ owner \in Procs \cup {NoProc} /\ lock \in SUBSET Procs
    /\ owner # NoProc => pc[owner] \in {"backup", "create", "written", "drop"}
    /\ ProcType
    /\ last \in Version /\ slips \in SUBSET Slips

LEMMA NamesDiffer ==
    ASSUME NEW t, NEW u
    PROVE  /\ Data(t) # Back(u) /\ Data(t) # Merge(u) /\ Back(t) # Merge(u)
           /\ Data(t) = Data(u) <=> t = u
           /\ Back(t) = Back(u) <=> t = u
           /\ Merge(t) = Merge(u) <=> t = u
BY DEF Data, Back, Merge

LEMMA NamesAreNames ==
    ASSUME NEW t \in Tables
    PROVE  {Data(t), Back(t), Merge(t)} \subseteq Name
BY DEF Data, Back, Merge, Name

\* What the statements of a server do to its tables.
LEMMA DropTabled == ASSUME NEW d, Tabled(d), NEW n PROVE Tabled(Drop(d, n))
BY DEF Tabled, Drop

LEMMA PutTabled ==
    ASSUME NEW d, Tabled(d), NEW n \in Name, NEW rows \in SUBSET Version
    PROVE  Tabled(Put(d, n, rows))
BY DEF Tabled, Put

LEMMA RenameTabled ==
    ASSUME NEW d, Tabled(d), NEW n \in DOMAIN d, NEW m \in Name
    PROVE  Tabled(Rename(d, n, m))
<1>1. d[n] \in SUBSET Version
    BY DEF Tabled
<1> QED BY <1>1, DropTabled, PutTabled DEF Rename

\* A session that ends keeps the types.
LEMMA ForgetType ==
    ASSUME ProcType, NEW p \in Procs, Forget(p)
    PROVE  ProcType' /\ pc' = [pc EXCEPT ![p] = "closed"]
BY DEF ProcType, Forget, Goto, PCs, None

LEMMA LeaveType ==
    ASSUME TypeInv, NEW p \in Procs, Leave(p)
    PROVE  /\ ProcType' /\ pc' = [pc EXCEPT ![p] = "closed"]
           /\ lock' \in SUBSET Procs
BY ForgetType DEF TypeInv, Leave, LockAfterEnd

LEMMA AbandonType ==
    ASSUME TypeInv, NEW p \in Procs, Abandon(p), dbms' = dbms, last' \in Version,
           slips' \in SUBSET Slips
    PROVE  TypeInv'
<1> USE DEF TypeInv
<1>1. CASE /\ owner = p /\ db' = undo /\ undo' = NoTables /\ owner' = NoProc
           /\ Leave(p)
    BY <1>1, LeaveType DEF Tabled, NoTables
<1>2. CASE owner # p /\ Leave(p) /\ UNCHANGED <<db, undo, owner>>
    BY <1>2, LeaveType DEF Tabled, ProcType
<1>3. CASE /\ owner # p /\ Goto(p, "rollback") /\ List(p, BackTables)
           /\ UNCHANGED <<db, undo, owner, lock, mode, cur, err, mem>>
    BY <1>3 DEF Tabled, ProcType, Goto, List, BackTables, DataTables, PCs
<1> QED BY <1>1, <1>2, <1>3 DEF Abandon

LEMMA InitTypeInv == Init => TypeInv
BY NamesAreNames DEF Init, TypeInv, Tabled, ProcType, PCs, NoTables, First, Version, None,
   Slips

LEMMA NextTypeInv == TypeInv /\ [Next]_vars => TypeInv'
<1> SUFFICES ASSUME TypeInv, [Next]_vars PROVE TypeInv'
    OBVIOUS
<1> USE DEF TypeInv, Goto, server, work
<1> USE NamesAreNames
<1>0. ASSUME NEW tables, NEW seen, Listed(tables, seen) PROVE slips' \in SUBSET Slips
    BY <1>0 DEF Listed, Slip, Slips
<1>1. ASSUME NEW p \in Procs, NEW m \in Modes, Begin(p, m) PROVE TypeInv'
    <2>1. slips' \in SUBSET Slips
        BY <1>1 DEF Begin, Slip, Slips
    <2>2. \E to \in PCs : pc' = [pc EXCEPT ![p] = to]
        BY <1>1 DEF Begin, PCs, Locking
    <2>3. owner # p
        BY <1>1, NoProcAssumption DEF Begin
    <2> QED BY <1>1, <2>1, <2>2, <2>3 DEF Begin, ProcType, Tabled
<1>28. ASSUME NEW p \in Procs, InsertLock(p) PROVE TypeInv'
    <2>1. CASE Forget(p) /\ UNCHANGED lock
        BY <1>28, <2>1, ForgetType DEF InsertLock, ProcType, Tabled, Locking
    <2>2. CASE /\ lock' = {p} \cup IF pc[p] = "break" THEN {} ELSE lock
               /\ Goto(p, "check")
               /\ UNCHANGED <<mode, work, mem>>
        BY <1>28, <2>2 DEF InsertLock, ProcType, PCs, Tabled, Locking
    <2> QED BY <1>28, <2>1, <2>2 DEF InsertLock
<1>2. ASSUME NEW p \in Procs, CheckFailedSave(p) PROVE TypeInv'
    <2>0. slips' \in SUBSET Slips /\ UNCHANGED <<server, last>> /\ pc[p] = "check"
        BY <1>0, <1>2 DEF CheckFailedSave
    <2>1. CASE Leave(p)
        BY <2>0, <2>1, LeaveType DEF ProcType, Tabled
    <2>2. CASE Goto(p, "begun") /\ UNCHANGED <<lock, mode, work, mem>>
        BY <2>0, <2>2 DEF ProcType, PCs, Tabled
    <2>3. CASE /\ Goto(p, "recover") /\ List(p, BackTables)
               /\ UNCHANGED <<lock, mode, cur, err, mem>>
        BY <2>0, <2>3 DEF ProcType, PCs, Tabled, List, BackTables, DataTables
    <2> QED BY <1>2, <2>1, <2>2, <2>3 DEF CheckFailedSave
<1>3. ASSUME NEW possible, NEW result, Recovers(possible, result),
             possible => Tabled(result)
      PROVE  Tabled(db') /\ slips' \in SUBSET Slips
    BY <1>3 DEF Recovers, Done, Slip, Slips, Tabled
<1>4. ASSUME NEW p \in Procs, NEW t \in Tables, RecoverRename(p, t)
      PROVE  TypeInv'
    <2>1. CanRename(Back(t), Data(t)) => Tabled(Rename(db, Back(t), Data(t)))
        BY RenameTabled DEF CanRename
    <2>2. Tabled(db') /\ slips' \in SUBSET Slips
        BY <1>3, <1>4, <2>1 DEF RecoverRename
    <2> QED BY <1>4, <2>2 DEF RecoverRename, AfterTable, ProcType, PCs, Tabled
<1>5. ASSUME NEW p \in Procs, NEW t \in Tables, RecoverMerge(p, t)
      PROVE  TypeInv'
    <2>1. ASSUME CanMerge(t) PROVE Tabled(Put(db, Merge(t), Union(t)))
        <3>1. Union(t) \in SUBSET Version
            BY <2>1 DEF CanMerge, Tabled, Union
        <3> QED BY <3>1, PutTabled
    <2>2. Tabled(db') /\ slips' \in SUBSET Slips
        BY <1>3, <1>5, <2>1 DEF RecoverMerge
    <2> QED BY <1>5, <2>2 DEF RecoverMerge, ProcType, PCs, Tabled
<1>6. ASSUME NEW p \in Procs, MergeDrop(p) \/ MergeRename(p) PROVE TypeInv'
    <2>1. PICK t \in cur[p] :
            \/ MergeStep(p, "merge_drop", "merge_rename",
                         CanDrop(Data(t)), Drop(db, Data(t)))
            \/ MergeStep(p, "merge_rename", "merge_end", CanRename(Merge(t), Data(t)),
                         Rename(db, Merge(t), Data(t)))
        BY <1>6 DEF MergeDrop, MergeRename
    <2>2. t \in Tables
        BY DEF ProcType
    <2>3. ASSUME NEW from \in {"merge_drop", "merge_rename"}, NEW to \in PCs,
                 NEW possible, NEW result,
                 possible => Tabled(result), MergeStep(p, from, to, possible, result)
          PROVE  TypeInv'
        <3>1. Tabled(db') /\ slips' \in SUBSET Slips
            BY <1>3, <2>3 DEF MergeStep
        <3> QED BY <2>3, <3>1 DEF MergeStep, ProcType, Tabled
    <2>4. CanRename(Merge(t), Data(t)) => Tabled(Rename(db, Merge(t), Data(t)))
        BY <2>2, RenameTabled DEF CanRename
    <2>5. Tabled(Drop(db, Data(t)))
        BY DropTabled
    <2> QED BY <2>1, <2>3, <2>4, <2>5 DEF PCs
<1>7. ASSUME NEW p \in Procs, MergeEnd(p) PROVE TypeInv'
    <2>1. PICK t \in cur[p] :
            /\ pc[p] = "merge_end"
            /\ Recovers(CanDrop(Back(t)), Drop(db, Back(t)))
            /\ AfterTable(p, t)
            /\ cur' = [cur EXCEPT ![p] = {}]
            /\ UNCHANGED <<dbms, undo, owner, lock, mode, had, err, mem, last>>
        BY <1>7 DEF MergeEnd
    <2>2. Tabled(db') /\ slips' \in SUBSET Slips
        BY <1>3, <2>1, DropTabled
    <2> QED BY <2>1, <2>2 DEF AfterTable, ProcType, PCs, Tabled
<1>8. ASSUME NEW p \in Procs, Load(p) PROVE TypeInv'
    <2>1. Tabled(db')
        BY <1>8 DEF Load, Tabled
    <2>2. mem' \in [Procs -> [Tables -> Nat]]
        <3>1. PICK part \in [Tables -> {None} \cup UNION {db'[n] : n \in DOMAIN db'}] :
                mem' = [mem EXCEPT ![p] = part]
            BY <1>8 DEF Load
        <3>2. {None} \cup UNION {db'[n] : n \in DOMAIN db'} \subseteq Nat
            BY <2>1 DEF Tabled, Version, None
        <3>3. part \in [Tables -> Nat]
            BY <3>2
        <3> QED BY <3>1, <3>3 DEF ProcType
    <2> QED BY <1>8, <2>1, <2>2 DEF Load, ProcType, PCs, Tabled
<1>9. ASSUME NEW p \in Procs, LoadFails(p) \/ End(p) PROVE TypeInv'
    BY <1>9, LeaveType DEF LoadFails, End, ProcType, Tabled
<1>10. ASSUME NEW p \in Procs, Accept(p) PROVE TypeInv'
    BY <1>10 DEF Accept, ProcType, PCs, Tabled
<1>11. NewVersion => last' \in Version
    BY DEF NewVersion, Version, None
<1>12. ASSUME NEW p \in Procs PROVE Renewed(p) \in [Procs -> [Tables -> Nat]]
    BY <1>12 DEF Renewed, ProcType, Version, None
<1>13. ASSUME NEW p \in Procs, Edit(p) PROVE TypeInv'
    BY <1>11, <1>12, <1>13 DEF Edit, ProcType, PCs, Tabled
<1>14. ASSUME NEW p \in Procs, NEW n \in DOMAIN db
       PROVE  mem[p][n[1]] # None => mem[p][n[1]] \in Version
    BY DEF Tabled, Name, ProcType, Version
<1>15. ASSUME NEW p \in Procs, NEW t \in Tables, Commit(p, t) PROVE TypeInv'
    <2>1. mem[p][t] # None => {mem[p][t]} \in SUBSET Version
        BY DEF ProcType, Version
    <2>2. Tabled(db')
        BY <1>15, <2>1, PutTabled DEF Commit
    <2> QED BY <1>15, <2>2 DEF Commit, ProcType, PCs, Tabled
<1>16. ASSUME NEW p \in Procs, SafeSync(p) PROVE TypeInv'
    <2>1. last' \in Version /\ dbms' = dbms /\ pc[p] = "loaded"
        BY <1>11, <1>16 DEF SafeSync
    <2>2. slips' \in SUBSET Slips
        BY <1>0, <1>16 DEF SafeSync
    <2>3. CASE Abandon(p)
        BY <2>1, <2>2, <2>3, AbandonType
    <2>4. CASE Leave(p) /\ UNCHANGED <<db, undo, owner>>
        BY <2>1, <2>2, <2>4, LeaveType DEF ProcType, Tabled
    <2>5. CASE /\ \/ InTransaction /\ owner' = p /\ undo' = db
                  \/ ~InTransaction /\ UNCHANGED <<owner, undo>>
               /\ mem' = Renewed(p)
               /\ Goto(p, "backup")
               /\ \E seen \in {DataTables, {}} : List(p, seen)
               /\ UNCHANGED <<db, lock, mode, cur, err>>
        BY <1>12, <2>1, <2>2, <2>5 DEF List, DataTables, ProcType, PCs, Tabled
    <2> QED BY <1>16, <2>3, <2>4, <2>5 DEF SafeSync
<1>17. ASSUME NEW p \in Procs, NEW t \in Tables, Backup(p, t) PROVE TypeInv'
    <2>1. CASE Abandon(p)
        BY <1>17, <2>1, AbandonType DEF Backup
    <2>2. CASE ~Abandon(p)
        <3>1. Tabled(db')
            BY <1>17, <2>2, RenameTabled DEF Backup, Done, CanRename
        <3> QED BY <1>17, <2>2, <3>1 DEF Backup, ProcType, Tabled
    <2> QED BY <2>1, <2>2
<1>18. ASSUME NEW p \in Procs, DropIndexes(p) PROVE TypeInv'
    <2>1. CASE Abandon(p)
        BY <1>18, <2>1, AbandonType DEF DropIndexes
    <2>2. CASE /\ Goto(p, "create")
               /\ todo' = [todo EXCEPT ![p] = Tables]
               /\ UNCHANGED <<db, undo, owner, lock, mode, had, cur, err, mem>>
        BY <1>18, <2>2 DEF DropIndexes, ProcType, PCs, Tabled
    <2> QED BY <1>18, <2>1, <2>2 DEF DropIndexes
<1>19. ASSUME NEW p \in Procs, NEW t \in Tables, CreateTable(p, t)
       PROVE  TypeInv'
    <2>1. Tabled(db')
        BY <1>19, PutTabled DEF CreateTable, Done
    <2> QED BY <1>19, <2>1 DEF CreateTable, SetError, ProcType, Tabled
<1>20. ASSUME NEW p \in Procs, WriteRows(p) PROVE TypeInv'
    <2>1. Tabled(Written(p))
        BY <1>14 DEF Written, Tabled
    <2> QED BY <1>20, <2>1 DEF WriteRows, SetError, ProcType, PCs, Tabled
<1>21. ASSUME NEW p \in Procs, CheckError(p) PROVE TypeInv'
    <2>1. slips' \in SUBSET Slips /\ UNCHANGED <<dbms, last>> /\ pc[p] = "written"
        BY <1>0, <1>21 DEF CheckError
    <2>2. CASE Abandon(p)
        BY <2>1, <2>2, AbandonType
    <2>3. CASE ~Abandon(p)
        <3>1. PICK seen \in {BackTables, {}} :
                /\ List(p, seen) /\ Goto(p, "drop")
                /\ \/ db' = undo /\ undo' = NoTables /\ owner' = NoProc
                   \/ UNCHANGED <<db, undo, owner>>
                /\ UNCHANGED <<lock, mode, cur, err, mem>>
            BY <1>21, <2>3 DEF CheckError
        <3>2. Tabled(db') /\ Tabled(undo')
            BY <3>1 DEF Tabled, NoTables
        <3> QED BY <2>1, <3>1, <3>2 DEF List, BackTables, DataTables, ProcType, PCs
    <2> QED BY <2>2, <2>3
<1>22. ASSUME NEW p \in Procs, NEW t \in Tables, DropBackup(p, t)
       PROVE  TypeInv'
    <2>1. Tabled(db')
        BY <1>22, RenameTabled, DropTabled DEF DropBackup, Done, CanDrop, CanRename
    <2> QED BY <1>22, <2>1 DEF DropBackup, SetError, ProcType, Tabled
<1>23. ASSUME NEW p \in Procs, Finish(p) PROVE TypeInv'
    <2>1. slips' \in SUBSET Slips /\ UNCHANGED <<dbms, last>> /\ pc[p] = "drop"
        BY <1>23 DEF Finish, Slip, Slips
    <2>2. CASE Abandon(p)
        BY <2>1, <2>2, AbandonType
    <2>3. ASSUME Commits(p)
          PROVE  /\ Tabled(db') /\ Tabled(undo')
                 /\ owner' \in Procs \cup {NoProc}
                 /\ owner' # NoProc => owner' = owner /\ owner # p
        BY <2>3 DEF Commits, Tabled, NoTables
    <2>4. CASE Commits(p) /\ Leave(p)
        <3>1. /\ ProcType' /\ pc' = [pc EXCEPT ![p] = "closed"]
              /\ lock' \in SUBSET Procs
            BY <2>4, LeaveType
        <3>2. owner' # NoProc => owner' \in Procs /\ pc'[owner'] = pc[owner']
            BY <2>3, <2>4, <3>1 DEF ProcType
        <3> QED BY <2>1, <2>3, <2>4, <3>1, <3>2
    <2>5. CASE /\ Commits(p) /\ Goto(p, "open")
               /\ had' = [had EXCEPT ![p] = {}]
               /\ UNCHANGED <<lock, mode, todo, cur, err, mem>>
        BY <2>1, <2>3, <2>5 DEF ProcType, PCs
    <2> QED BY <1>23, <2>2, <2>4, <2>5 DEF Finish
<1>24. ASSUME NEW p \in Procs, NEW t \in Tables, RollbackDrop(p, t)
       PROVE  TypeInv'
    <2>1. Tabled(db')
        BY <1>24, DropTabled DEF RollbackDrop, Done
    <2> QED BY <1>24, <2>1 DEF RollbackDrop, ProcType, PCs, Tabled
<1>25. ASSUME NEW p \in Procs, RollbackRename(p) PROVE TypeInv'
    <2>1. PICK t \in cur[p] :
            /\ pc[p] = "rollback_rename"
            /\ \/ Done(CanRename(Back(t), Data(t)), Rename(db, Back(t), Data(t)))
               \/ UNCHANGED db
            /\ \/ Leave(p)
               \/ /\ todo' = [todo EXCEPT ![p] = @ \ {t}]
                  /\ cur' = [cur EXCEPT ![p] = {}]
                  /\ Goto(p, "rollback")
                  /\ UNCHANGED <<lock, mode, had, err, mem>>
            /\ UNCHANGED <<dbms, undo, owner, last, saved, slips, crashes>>
        BY <1>25 DEF RollbackRename
    <2>2. Tabled(db')
        BY <2>1, RenameTabled DEF Done, CanRename, ProcType
    <2>3. CASE Leave(p)
        BY <2>1, <2>2, <2>3, LeaveType DEF ProcType, Tabled
    <2>4. CASE /\ todo' = [todo EXCEPT ![p] = @ \ {t}]
               /\ cur' = [cur EXCEPT ![p] = {}]
               /\ Goto(p, "rollback")
               /\ UNCHANGED <<lock, mode, had, err, mem>>
        BY <2>1, <2>2, <2>4 DEF ProcType, PCs, Tabled
    <2> QED BY <2>1, <2>3, <2>4
<1>26. ASSUME NEW p \in Procs, Crash(p) PROVE TypeInv'
    <2>1. ProcType' /\ pc' = [pc EXCEPT ![p] = "closed"]
        BY <1>26, ForgetType DEF Crash
    <2>2. UNCHANGED <<dbms, lock, last, slips>>
          /\ \/ owner = p /\ db' = undo /\ undo' = NoTables /\ owner' = NoProc
             \/ owner # p /\ UNCHANGED <<db, undo, owner>>
        BY <1>26 DEF Crash
    <2> QED BY <2>1, <2>2 DEF ProcType, Tabled, NoTables
<1>27. CASE UNCHANGED vars
    BY <1>27 DEF vars, ProcType, Tabled
<1> QED
    BY <1>1, <1>2, <1>4, <1>5, <1>6, <1>7, <1>8, <1>9, <1>10, <1>13, <1>15,
       <1>16, <1>17, <1>18, <1>19, <1>20, <1>21, <1>22, <1>23, <1>24, <1>25,
       <1>26, <1>27, <1>28 DEF Next, Recovery, SafeSave

LEMMA NextSaved == ASSUME TypeInv, saved \in Nat, [Next]_vars PROVE saved' \in Nat
<1>1. ASSUME NEW p \in Procs, TellSaved(p) PROVE saved' \in Nat
    BY <1>1 DEF TellSaved, TypeInv, ProcType
<1>2. ASSUME NEW p \in Procs, NEW t \in Tables, Commit(p, t) PROVE saved' \in Nat
    BY <1>1, <1>2 DEF Commit
<1>3. ASSUME NEW p \in Procs, Finish(p) PROVE saved' \in Nat
    BY <1>1, <1>3 DEF Finish
<1>4. CASE ~ \E p \in Procs : Finish(p) \/ \E t \in Tables : Commit(p, t)
    <2>1. ASSUME NEW p \in Procs, NEW m \in Modes, Begin(p, m) PROVE saved' = saved
        BY <2>1 DEF Begin
    <2>2. ASSUME NEW p \in Procs,
                 \/ InsertLock(p) \/ Load(p) \/ LoadFails(p) \/ Accept(p)
                 \/ Edit(p) \/ End(p) \/ Crash(p)
          PROVE  saved' = saved
        BY <2>2 DEF InsertLock, Load, LoadFails, Accept, Edit, End, Crash
    <2>3. ASSUME NEW p \in Procs, Recovery(p) PROVE saved' = saved
        BY <2>3 DEF Recovery, CheckFailedSave, RecoverRename, RecoverMerge,
           MergeDrop, MergeRename, MergeEnd, MergeStep
    <2>4. ASSUME NEW p \in Procs, SafeSave(p), ~Finish(p) PROVE saved' = saved
        BY <2>4 DEF SafeSave, SafeSync, DropIndexes, WriteRows, CheckError,
           RollbackRename, Backup, CreateTable, DropBackup, RollbackDrop
    <2>5. UNCHANGED vars => saved' = saved
        BY DEF vars
    <2> QED BY <1>4, <2>1, <2>2, <2>3, <2>4, <2>5 DEF Next
<1> QED BY <1>2, <1>3, <1>4

\* Whatever modes sessions use, whoever breaks locks and whatever fails, the
\* state keeps its types, and a transaction is open only in a safe save of a
\* live process.
THEOREM TypeCorrect == Spec => []TypeOK
<1>1. Init => saved \in Nat
    BY DEF Init, First
<1>2. TypeInv /\ saved \in Nat /\ [Next]_vars => (saved \in Nat)'
    BY NextSaved
<1>3. TypeInv /\ saved \in Nat => TypeOK
    BY DEF TypeInv, ProcType, Tabled, TypeOK
<1> QED BY <1>1, <1>2, <1>3, InitTypeInv, NextTypeInv, PTL DEF Spec

-----------------------------------------------------------------------------
(* The lock.                                                               *)

\* What has gone wrong stays so, and the server is what it is.
Kept == dbms' = dbms /\ slips \subseteq slips'

LEMMA NextKeeps == ASSUME [Next]_vars PROVE Kept
<1> USE DEF Kept, server, work, Slip
<1>1. ASSUME NEW p \in Procs, NEW m \in Modes, Begin(p, m) PROVE Kept
    BY <1>1 DEF Begin
<1>7. ASSUME NEW p \in Procs, InsertLock(p) PROVE Kept
    BY <1>7 DEF InsertLock
<1>2. ASSUME NEW p \in Procs, Recovery(p) PROVE Kept
    <2>1. ASSUME NEW possible, NEW result, Recovers(possible, result)
          PROVE  slips \subseteq slips'
        BY <2>1 DEF Recovers
    <2>2. CheckFailedSave(p) => Kept
        BY DEF CheckFailedSave, Listed
    <2>3. ASSUME NEW t \in Tables, RecoverRename(p, t) \/ RecoverMerge(p, t)
          PROVE  Kept
        BY <2>1, <2>3 DEF RecoverRename, RecoverMerge
    <2>4. MergeDrop(p) \/ MergeRename(p) \/ MergeEnd(p) => Kept
        BY <2>1 DEF MergeDrop, MergeRename, MergeEnd, MergeStep
    <2> QED BY <1>2, <2>2, <2>3, <2>4 DEF Recovery
<1>3. ASSUME NEW p \in Procs,
             Load(p) \/ LoadFails(p) \/ Accept(p) \/ Edit(p) \/ End(p) \/ Crash(p)
      PROVE  Kept
    BY <1>3 DEF Load, LoadFails, Accept, Edit, End, Crash
<1>6. ASSUME NEW p \in Procs, NEW t \in Tables, Commit(p, t) PROVE Kept
    BY <1>6 DEF Commit
<1>4. ASSUME NEW p \in Procs, SafeSave(p) PROVE Kept
    <2>1. SafeSync(p) \/ CheckError(p) => Kept
        BY DEF SafeSync, CheckError, Listed
    <2>2. DropIndexes(p) \/ WriteRows(p) \/ Finish(p) \/ RollbackRename(p) => Kept
        BY DEF DropIndexes, WriteRows, Finish, RollbackRename
    <2>3. ASSUME NEW t \in Tables,
                 \/ Backup(p, t) \/ CreateTable(p, t)
                 \/ DropBackup(p, t) \/ RollbackDrop(p, t)
          PROVE  Kept
        BY <2>3 DEF Backup, CreateTable, DropBackup, RollbackDrop
    <2> QED BY <1>4, <2>1, <2>2, <2>3 DEF SafeSave
<1>5. CASE UNCHANGED vars
    BY <1>5 DEF vars
<1> QED BY <1>1, <1>2, <1>3, <1>4, <1>5, <1>6, <1>7 DEF Next

\* One session has the lock, or others may be about to get it.
OneHasLock == \A p \in Procs : HasLock(p) =>
    lock = {p} /\ \A q \in Procs : HasLock(q) => q = p

NoneHasLock == \A p \in Procs : pc[p] \in Locking =>
    /\ \A q \in Procs : ~HasLock(q)
    /\ pc[p] = "lock" => lock = {}
    /\ dbms # "sqlite" => \A q \in Procs : pc[q] \in Locking => q = p

Locked == OneHasLock /\ NoneHasLock

LockInv == NoSlip(LockSlips) => Locked

\* A process that has got through session_begin.
Live(p) == pc[p] \notin Locking \cup {"closed"}

\* What a step of one does with its lock and its place.
Runs(p) ==
    /\ Live(p)
    /\ \/ Leave(p)
       \/ /\ UNCHANGED <<lock, mode>>
          /\ pc' = pc \/ \E to \in PCs \ (Locking \cup {"closed"}) : Goto(p, to)

\* The session is gone and its lock row is not, if it has one.
Dies(p) == Forget(p) /\ UNCHANGED lock

LEMMA BeginLock ==
    ASSUME ~BreakLive, TypeInv, OneHasLock, NoneHasLock, NoSlip(LockSlips)',
           NEW p \in Procs, NEW m \in Modes, Begin(p, m)
    PROVE  (OneHasLock /\ NoneHasLock)'
<1>1. UNCHANGED <<lock, dbms>> /\ pc[p] = "closed"
    BY DEF Begin, server
<1>2. CASE Goto(p, "check") /\ m = "READ_ONLY" /\ mode' = [mode EXCEPT ![p] = m]
    <2>1. \A q \in Procs : /\ HasLock(q)' => HasLock(q)
                           /\ pc'[q] \in Locking => pc'[q] = pc[q]
        BY <1>2 DEF Goto, HasLock, TypeInv, ProcType, Locking
    <2> QED BY <1>1, <2>1 DEF OneHasLock, NoneHasLock
<1>3. CASE /\ m # "READ_ONLY" /\ MayLock(m)
           /\ dbms # "sqlite" => InLocking = {}
           /\ Goto(p, IF lock = {} THEN "lock" ELSE "break")
           /\ mode' = [mode EXCEPT ![p] = m]
    <2>1. \A q \in Procs : ~HasLock(q)
        BY <1>3 DEF MayLock, MayBreak, OneHasLock
    <2>2. \A q \in Procs : q # p => pc'[q] = pc[q] /\ mode'[q] = mode[q]
        BY <1>3 DEF Goto, TypeInv, ProcType
    <2>3. pc'[p] = IF lock = {} THEN "lock" ELSE "break"
        BY <1>3 DEF Goto, TypeInv, ProcType
    <2>4. \A q \in Procs : ~HasLock(q)'
        BY <2>1, <2>2, <2>3 DEF HasLock, Locking
    <2>5. dbms # "sqlite" => \A q \in Procs : pc[q] \notin Locking
        BY <1>3 DEF InLocking
    <2> QED BY <1>1, <2>2, <2>3, <2>4, <2>5 DEF OneHasLock, NoneHasLock
<1> QED BY <1>2, <1>3 DEF Begin, Slip, NoSlip, LockSlips

LEMMA InsertLockLock ==
    ASSUME TypeInv, OneHasLock, NoneHasLock,
           NEW p \in Procs, InsertLock(p), ~Dies(p)
    PROVE  (OneHasLock /\ NoneHasLock)'
<1>1. /\ pc[p] \in Locking /\ MayCommitLock(p)
      /\ lock' = {p} \cup IF pc[p] = "break" THEN {} ELSE lock
      /\ Goto(p, "check") /\ UNCHANGED mode
    BY DEF InsertLock, Dies
<1>2. lock' = {p}
    BY <1>1 DEF NoneHasLock, Locking
<1>3. \A q \in Procs : pc[q] \in Locking => q = p
    BY <1>1 DEF NoneHasLock, MayCommitLock, InLocking
<1>4. \A q \in Procs : HasLock(q)' => q = p
    BY <1>1 DEF NoneHasLock, HasLock, Goto, TypeInv, ProcType
<1>5. \A q \in Procs : pc'[q] \notin Locking
    BY <1>1, <1>3 DEF Goto, TypeInv, ProcType, Locking
<1> QED BY <1>2, <1>4, <1>5 DEF OneHasLock, NoneHasLock

LEMMA RunsLock ==
    ASSUME TypeInv, OneHasLock, NoneHasLock, Kept, NEW p \in Procs,
           Runs(p) \/ Dies(p)
    PROVE  (OneHasLock /\ NoneHasLock)'
<1>1. CASE Dies(p)
    <2>1. \A q \in Procs : /\ HasLock(q)' => HasLock(q)
                           /\ pc'[q] \in Locking => pc'[q] = pc[q]
        BY <1>1 DEF Dies, Forget, Goto, HasLock, TypeInv, ProcType, Locking
    <2> QED BY <1>1, <2>1 DEF Dies, OneHasLock, NoneHasLock, Kept
<1>2. CASE Live(p) /\ Leave(p) /\ ~Dies(p)
    <2>1. HasLock(p)
        BY <1>2 DEF Live, Leave, LockAfterEnd, Dies, HasLock
    <2>2. \A q \in Procs : ~HasLock(q)' /\ pc'[q] \notin Locking
        BY <1>2, <2>1 DEF Leave, Forget, Goto, OneHasLock, NoneHasLock, HasLock,
           TypeInv, ProcType, Locking
    <2> QED BY <2>2 DEF OneHasLock, NoneHasLock
<1>3. CASE /\ Live(p) /\ UNCHANGED <<lock, mode>>
           /\ pc' = pc \/ \E to \in PCs \ (Locking \cup {"closed"}) : Goto(p, to)
    <2>1. \A q \in Procs : /\ HasLock(q)' <=> HasLock(q)
                           /\ pc'[q] \in Locking => pc'[q] = pc[q]
        BY <1>3 DEF Live, Goto, HasLock, TypeInv, ProcType
    <2> QED BY <1>3, <2>1 DEF OneHasLock, NoneHasLock, Kept
<1> QED BY <1>1, <1>2, <1>3 DEF Runs

LEMMA StepRuns ==
    ASSUME NEW p \in Procs, NEW t \in Tables,
           \/ Recovery(p)
           \/ Load(p) \/ LoadFails(p) \/ Accept(p) \/ Edit(p) \/ Commit(p, t) \/ End(p)
           \/ SafeSave(p)
    PROVE  Runs(p)
<1> USE DEF Runs, PCs, server, work, Live, Locking
<1>1. ASSUME CheckFailedSave(p) PROVE Runs(p)
    BY <1>1 DEF CheckFailedSave
<1>2. ASSUME NEW u \in Tables, RecoverRename(p, u) \/ RecoverMerge(p, u)
      PROVE  Runs(p)
    BY <1>2 DEF RecoverRename, RecoverMerge, AfterTable
<1>3. ASSUME MergeDrop(p) \/ MergeRename(p) \/ MergeEnd(p) PROVE Runs(p)
    BY <1>3 DEF MergeDrop, MergeRename, MergeEnd, MergeStep, AfterTable
<1>4. ASSUME Load(p) \/ LoadFails(p) \/ Accept(p) \/ Edit(p) \/ Commit(p, t) \/ End(p)
      PROVE  Runs(p)
    BY <1>4 DEF Load, LoadFails, Accept, Edit, Commit, End
<1>5. ASSUME Abandon(p), Live(p) PROVE Runs(p)
    BY <1>5 DEF Abandon
<1>6. ASSUME SafeSync(p) \/ DropIndexes(p) \/ WriteRows(p) \/ CheckError(p)
      PROVE  Runs(p)
    BY <1>5, <1>6 DEF SafeSync, DropIndexes, WriteRows, CheckError
<1>7. ASSUME Finish(p) PROVE Runs(p)
    BY <1>5, <1>7 DEF Finish
<1>8. ASSUME RollbackRename(p) PROVE Runs(p)
    BY <1>8 DEF RollbackRename
<1>9. ASSUME NEW u \in Tables,
             Backup(p, u) \/ CreateTable(p, u) \/ DropBackup(p, u) \/ RollbackDrop(p, u)
      PROVE  Runs(p)
    BY <1>5, <1>9 DEF Backup, CreateTable, DropBackup, RollbackDrop
<1> QED
    BY <1>1, <1>2, <1>3, <1>4, <1>6, <1>7, <1>8, <1>9 DEF Recovery, SafeSave

LEMMA InitLockInv == Init => LockInv
BY DEF Init, LockInv, Locked, OneHasLock, NoneHasLock, HasLock, Locking

LEMMA NextLockInv ==
    ASSUME ~BreakLive, TypeInv, LockInv, [Next]_vars
    PROVE  LockInv'
<1> SUFFICES ASSUME NoSlip(LockSlips)' PROVE (OneHasLock /\ NoneHasLock)'
    BY DEF LockInv, Locked
<1>1. Kept
    BY NextKeeps
<1>2. OneHasLock /\ NoneHasLock
    BY <1>1 DEF LockInv, Locked, NoSlip, Kept
<1>3. CASE UNCHANGED vars
    BY <1>2, <1>3 DEF vars, server, OneHasLock, NoneHasLock, HasLock
<1>4. ASSUME NEW p \in Procs, NEW m \in Modes, Begin(p, m)
      PROVE  (OneHasLock /\ NoneHasLock)'
    BY <1>2, <1>4, BeginLock
<1>5. ASSUME NEW p \in Procs, InsertLock(p) \/ Crash(p)
      PROVE  (OneHasLock /\ NoneHasLock)'
    <2>1. Crash(p) => Dies(p)
        BY DEF Crash, Dies
    <2> QED BY <1>1, <1>2, <1>5, <2>1, InsertLockLock, RunsLock
<1>6. ASSUME NEW p \in Procs, Runs(p) PROVE (OneHasLock /\ NoneHasLock)'
    BY <1>1, <1>2, <1>6, RunsLock
<1> QED BY <1>3, <1>4, <1>5, <1>6, StepRuns, TablesAssumption DEF Next

\* Unless users break the lock of a live session, at most one session that
\* writes has the database, whatever read-only sessions there are beside it,
\* whichever statements fail, whoever dies and whichever rows stay behind - but
\* for two processes that are within lock_database at a time on a server that
\* lets them, and for a SELECT there that fails.
THEOREM MutualExclusion == ~BreakLive => (Spec => []LockExclusive)
<1> SUFFICES ASSUME ~BreakLive PROVE Spec => []LockExclusive
    OBVIOUS
<1>2. TypeInv /\ LockInv /\ [Next]_vars => LockInv'
    BY NextLockInv
<1>3. LockInv => LockExclusive
    BY DEF LockInv, Locked, LockExclusive, OneHasLock
<1> QED BY <1>2, <1>3, InitTypeInv, InitLockInv, NextTypeInv, PTL DEF Spec

-----------------------------------------------------------------------------
(* The tables.                                                             *)

\* No session is read-only, and no live session's lock is broken.
Solo == "READ_ONLY" \notin Modes /\ ~BreakLive

\* Whoever finds the database so can recover what was saved: no row is older,
\* no backup is empty, and a table without a backup has its rows in place.
Sound(d) ==
    /\ \A n \in DOMAIN d : d[n] \subseteq saved .. last
    /\ \A t \in Tables :
         /\ Back(t) \in DOMAIN d => d[Back(t)] # {}
         /\ Back(t) \notin DOMAIN d =>
              /\ Data(t) \in DOMAIN d /\ d[Data(t)] # {}
              /\ Merge(t) \notin DOMAIN d

\* What a database can be without.
NoBackups(d) == \A t \in Tables : Back(t) \notin DOMAIN d
NoMerges(d)  == \A t \in Tables : Merge(t) \notin DOMAIN d
\* A table that has been filled with the rows of the newest version alone.
Whole(d, t)  == Data(t) \in DOMAIN d /\ d[Data(t)] = {last}

\* What a process knows of the tables and of its book, by where it is.
Recovering == {"recover", "merge_drop", "merge_rename", "merge_end"}
InMerge == {"merge_drop", "merge_rename", "merge_end"}
Saving == {"backup", "create", "written", "drop"}

Knows(p) ==
    /\ pc[p] \in {"begun", "loaded", "open", "edited"} => NoBackups(db)
    /\ pc[p] \in {"loaded", "open"} => \A t \in Tables : mem[p][t] >= saved
    /\ pc[p] \in {"edited"} \cup Saving => \A t \in Tables : mem[p][t] = last
    /\ pc[p] = "edited" => \A t \in Tables \ todo[p] : Whole(db, t)
    /\ pc[p] \in Saving \cup {"rollback", "rollback_rename"} => NoMerges(db)
    /\ pc[p] \notin Saving => owner # p

RecoverKnows(p) ==
    /\ pc[p] \in Recovering =>
         \A t \in Tables : Back(t) \in DOMAIN db <=> t \in todo[p]
    /\ pc[p] \in Recovering =>
         \A t \in Tables : Merge(t) \in DOMAIN db =>
            t \in cur[p] /\ pc[p] \in {"merge_drop", "merge_rename"}
    /\ pc[p] \in InMerge => \E t \in todo[p] : cur[p] = {t}
    /\ pc[p] \in {"merge_drop", "merge_rename"} => \A t \in cur[p] :
         Merge(t) \in DOMAIN db /\ db[Merge(t)] # {}
    /\ pc[p] = "merge_end" => \A t \in cur[p] :
         Data(t) \in DOMAIN db /\ db[Data(t)] # {}

SaveKnows(p) ==
    /\ pc[p] = "backup" => \A t \in Tables :
         IF t \in todo[p] THEN Back(t) \notin DOMAIN db
         ELSE Back(t) \in DOMAIN db /\ Data(t) \notin DOMAIN db
    /\ pc[p] = "create" => \A t \in Tables :
         /\ Back(t) \in DOMAIN db
         /\ t \in todo[p] => Data(t) \notin DOMAIN db
         /\ Data(t) \in DOMAIN db => db[Data(t)] = {}
    /\ pc[p] = "written" => \A t \in Tables : Back(t) \in DOMAIN db
    /\ pc[p] = "written" /\ ~err[p] => \A t \in Tables : Whole(db, t)
    /\ pc[p] = "drop" =>
         /\ had[p] = Tables /\ \A t \in Tables : Whole(db, t)
         /\ ~err[p] => \A t \in Tables : Back(t) \in DOMAIN db => t \in todo[p]
    /\ pc[p] \in {"rollback", "rollback_rename"} =>
         \A t \in todo[p] : Back(t) \in DOMAIN db
    /\ pc[p] = "rollback_rename" => \E t \in todo[p] : cur[p] = {t}

ProcInv == \A p \in Procs : Knows(p) /\ RecoverKnows(p) /\ SaveKnows(p)

DataInv ==
    /\ saved \in Version /\ saved <= last
    /\ Sound(db)
    /\ owner # NoProc => Sound(undo) /\ NoBackups(undo)
    /\ ProcInv

\* Nothing has failed that the code takes for success.
Clean == NoSlip(DataSlips)

\* What the statements leave of the tables.
Dropped(d, n, r) ==
    DOMAIN r = DOMAIN d \ {n} /\ \A k \in DOMAIN r : r[k] = d[k]

Renamed(d, n, m, r) ==
    /\ DOMAIN r = (DOMAIN d \ {n}) \cup {m}
    /\ r[m] = d[n]
    /\ \A k \in DOMAIN d \ {n} : r[k] = d[k]

Added(d, n, rows, r) ==
    /\ DOMAIN r = DOMAIN d \cup {n}
    /\ r[n] = rows
    /\ \A k \in DOMAIN d \ {n} : r[k] = d[k]

LEMMA AddFacts ==
    ASSUME NEW d, NEW n, NEW rows PROVE Added(d, n, rows, Put(d, n, rows))
BY DEF Added, Put

LEMMA DropFacts == ASSUME NEW d, NEW n PROVE Dropped(d, n, Drop(d, n))
BY DEF Dropped, Drop

LEMMA RenameFacts ==
    ASSUME NEW d, NEW n \in DOMAIN d, NEW m, m \notin DOMAIN d
    PROVE  Renamed(d, n, m, Rename(d, n, m))
<1> DEFINE left == Drop(d, n)
<1>1. DOMAIN left = DOMAIN d \ {n} /\ \A k \in DOMAIN d \ {n} : left[k] = d[k]
    BY DEF Drop
<1>2. Rename(d, n, m) = [k \in DOMAIN left \cup {m} |-> IF k = m THEN d[n] ELSE left[k]]
    BY DEF Rename, Put
<1> HIDE DEF left
<1> QED BY <1>1, <1>2 DEF Renamed

\* Every name is that of a data, a backup or a merged table.
LEMMA NamesOf ==
    ASSUME NEW n \in Name
    PROVE  \E t \in Tables : n \in {Data(t), Back(t), Merge(t)}
BY DEF Name, Data, Back, Merge

\* All writers but one are closed.
LEMMA Alone ==
    ASSUME Solo, TypeInv, Locked, NEW p \in Procs,
           pc[p] \notin {"closed", "lock", "break"}, NEW q \in Procs, q # p
    PROVE  pc[q] = "closed"
<1>1. mode[p] # "READ_ONLY" /\ mode[q] # "READ_ONLY"
    BY DEF Solo, TypeInv, ProcType
<1>2. HasLock(p)
    BY <1>1 DEF HasLock, Locking
<1>3. ~HasLock(q) /\ pc[q] \notin Locking
    BY <1>2 DEF Locked, OneHasLock, NoneHasLock
<1> QED BY <1>1, <1>3 DEF HasLock

\* The others know nothing that a step of one process could make false.
LEMMA OthersKnow ==
    ASSUME TypeInv, DataInv, NEW p \in Procs,
           \A q \in Procs : q # p => pc[q] = "closed",
           \A q \in Procs : q # p => pc'[q] = pc[q],
           owner' \in {owner, p, NoProc}, NEW q \in Procs, q # p
    PROVE  Knows(q)' /\ RecoverKnows(q)' /\ SaveKnows(q)'
BY NoProcAssumption
   DEF DataInv, ProcInv, Knows, RecoverKnows, SaveKnows, Recovering, InMerge, Saving

\* A session that ends leaves tables that the next one can recover from.
LEMMA LeaveKnows ==
    ASSUME TypeInv, NEW p \in Procs, Forget(p), owner' # p
    PROVE  Knows(p)' /\ RecoverKnows(p)' /\ SaveKnows(p)'
BY DEF TypeInv, ProcType, Forget, Goto, Knows, RecoverKnows, SaveKnows, Recovering,
       InMerge, Saving

LEMMA StepInv ==
    ASSUME Solo, TypeInv, Locked, DataInv,
           NEW p \in Procs, pc[p] \notin {"closed", "lock", "break"},
           \A q \in Procs : q # p => pc'[q] = pc[q],
           owner' \in {owner, p, NoProc},
           saved' \in Version, saved' <= last',
           Sound(db)', owner' # NoProc => (Sound(undo) /\ NoBackups(undo))',
           Knows(p)', RecoverKnows(p)', SaveKnows(p)'
    PROVE  DataInv'
<1>1. \A q \in Procs : q # p => pc[q] = "closed"
    BY Alone
<1>2. \A q \in Procs : q # p => Knows(q)' /\ RecoverKnows(q)' /\ SaveKnows(q)'
    BY <1>1, OthersKnow
<1> QED BY <1>2 DEF DataInv, ProcInv

LEMMA ForgetData ==
    ASSUME Solo, TypeInv, Locked, DataInv,
           NEW p \in Procs, pc[p] \notin {"closed", "lock", "break"}, Forget(p),
           owner' \in {owner, NoProc}, owner' # p,
           owner' # NoProc => undo' = undo,
           Sound(db)', UNCHANGED <<saved, last>>
    PROVE  DataInv'
<1>1. \A q \in Procs : q # p => pc'[q] = pc[q]
    BY DEF Forget, Goto, TypeInv, ProcType
<1>2. owner' # NoProc => (Sound(undo) /\ NoBackups(undo))'
    BY DEF DataInv, Sound, NoBackups
<1>3. Knows(p)' /\ RecoverKnows(p)' /\ SaveKnows(p)'
    BY LeaveKnows
<1> QED BY <1>1, <1>2, <1>3, StepInv DEF DataInv

\* Giving up the safe save: the transaction is rolled back, or the tables are
\* renamed back one by one.
LEMMA AbandonData ==
    ASSUME Solo, TypeInv, Locked, DataInv,
           NEW p \in Procs, pc[p] \in Saving, Abandon(p), UNCHANGED <<saved, last>>
    PROVE  DataInv'
<1>1. CASE /\ owner = p /\ db' = undo /\ undo' = NoTables /\ owner' = NoProc
           /\ Leave(p)
    <2>1. Sound(db)'
        BY <1>1, NoProcAssumption DEF DataInv, Sound
    <2> QED BY <1>1, <2>1, ForgetData, NoProcAssumption DEF Leave, Saving
<1>2. CASE owner # p /\ Leave(p) /\ UNCHANGED <<db, undo, owner>>
    <2>1. Sound(db)'
        BY <1>2 DEF DataInv, Sound
    <2> QED BY <1>2, <2>1, ForgetData DEF Leave, Saving
<1>3. CASE /\ owner # p /\ Goto(p, "rollback") /\ List(p, BackTables)
           /\ UNCHANGED <<db, undo, owner, lock, mode, cur, err, mem>>
    <2>1. pc' = [pc EXCEPT ![p] = "rollback"] /\ todo'[p] = BackTables
        BY <1>3 DEF Goto, List, TypeInv, ProcType
    <2>2. Sound(db)' /\ (owner' # NoProc => (Sound(undo) /\ NoBackups(undo))')
        BY <1>3 DEF DataInv, Sound, NoBackups
    <2>3. Knows(p)' /\ RecoverKnows(p)' /\ SaveKnows(p)'
        BY <1>3, <2>1 DEF DataInv, ProcInv, Knows, RecoverKnows, SaveKnows,
           Recovering, InMerge, Saving, NoMerges, BackTables, TypeInv, ProcType
    <2> QED BY <1>3, <2>1, <2>2, <2>3, StepInv
            DEF DataInv, Saving, TypeInv, ProcType
<1> QED BY <1>1, <1>2, <1>3 DEF Abandon

-----------------------------------------------------------------------------
(* The recovery.                                                           *)

\* A process that goes on, to `to`, with tables that are sound, keeps the
\* invariant if it knows there what it has to.
LEMMA GoOn ==
    ASSUME Solo, TypeInv, Locked, DataInv,
           NEW p \in Procs, NEW to \in PCs,
           pc[p] \notin {"closed", "lock", "break"},
           Goto(p, to) \/ (pc' = pc /\ pc[p] = to),
           UNCHANGED <<saved, last, owner, undo>>,
           Sound(db)',
           pc'[p] = to => Knows(p)' /\ RecoverKnows(p)' /\ SaveKnows(p)'
    PROVE  DataInv'
<1>1. pc'[p] = to /\ \A q \in Procs : q # p => pc'[q] = pc[q]
    BY DEF Goto, TypeInv, ProcType
<1>2. owner' # NoProc => (Sound(undo) /\ NoBackups(undo))'
    BY DEF DataInv, Sound, NoBackups
<1> QED BY <1>1, <1>2, StepInv DEF DataInv

LEMMA CheckData ==
    ASSUME Solo, TypeInv, Locked, DataInv, Clean', NEW p \in Procs,
           CheckFailedSave(p)
    PROVE  DataInv'
<1> USE DEF CheckFailedSave, server, work
<1>0. ASSUME NEW tables, Listed(tables, {}) PROVE tables = {}
    BY <1>0 DEF Listed, Clean, NoSlip, DataSlips, Slip
<1>1. Sound(db)' /\ UNCHANGED <<saved, last, owner, undo, db>> /\ pc[p] = "check"
    BY DEF DataInv, Sound
<1>2. owner # p
    BY <1>1 DEF DataInv, ProcInv, Knows, Saving
<1>3. CASE Leave(p)
    BY <1>1, <1>2, <1>3, ForgetData DEF Leave
<1>4. CASE BackTables = {} /\ Goto(p, "begun") /\ UNCHANGED <<lock, mode, work, mem>>
    BY <1>1, <1>2, <1>4, GoOn
       DEF Knows, RecoverKnows, SaveKnows, Recovering, InMerge, Saving, PCs,
           NoBackups, BackTables
<1>5. CASE /\ MergeTables = {} /\ Goto(p, "recover") /\ List(p, BackTables)
           /\ UNCHANGED <<lock, mode, cur, err, mem>>
    <2>1. todo'[p] = BackTables
        BY <1>5 DEF List, TypeInv, ProcType
    <2> QED
        BY <1>1, <1>2, <1>5, <2>1, GoOn
           DEF Knows, RecoverKnows, SaveKnows, Recovering, InMerge, Saving, PCs,
               BackTables, MergeTables
<1> QED BY <1>0, <1>3, <1>4, <1>5

\* A statement of a recovery succeeds, or nothing more is claimed.
LEMMA RecoversClean ==
    ASSUME Clean', NEW possible, NEW result, Recovers(possible, result)
    PROVE  possible /\ db' = result
BY DEF Clean, NoSlip, DataSlips, Recovers, Slip, Done

\* What is known after a table has been dealt with.
LEMMA AfterTableKnows ==
    ASSUME TypeInv, DataInv, NEW p \in Procs, pc[p] \in Recovering,
           NEW t \in Tables, t \in todo[p], AfterTable(p, t), owner' = owner,
           \A u \in Tables : Back(u) \in DOMAIN db' <=> u \in todo[p] \ {t},
           \A u \in Tables : Merge(u) \notin DOMAIN db'
    PROVE  Knows(p)' /\ RecoverKnows(p)' /\ SaveKnows(p)'
<1>1. todo'[p] = todo[p] \ {t}
      /\ pc'[p] = IF todo[p] = {t} THEN "begun" ELSE "recover"
    BY DEF AfterTable, Goto, TypeInv, ProcType
<1>2. owner # p
    BY DEF DataInv, ProcInv, Knows, Recovering, Saving
<1> QED BY <1>1, <1>2 DEF Knows, RecoverKnows, SaveKnows, Recovering, InMerge,
           Saving, NoBackups

LEMMA RecoverRenameData ==
    ASSUME Solo, TypeInv, Locked, DataInv, Clean', NEW p \in Procs,
           NEW t \in Tables, RecoverRename(p, t)
    PROVE  DataInv'
<1>1. pc[p] = "recover" /\ t \in todo[p] /\ UNCHANGED <<undo, owner>>
    BY DEF RecoverRename
<1>3. CASE /\ CanRename(Back(t), Data(t))
           /\ db' = Rename(db, Back(t), Data(t))
           /\ AfterTable(p, t)
           /\ UNCHANGED <<saved, last>>
    <2>1. Renamed(db, Back(t), Data(t), db')
        BY <1>3, RenameFacts DEF CanRename
    <2>2. \A u \in Tables : /\ Back(u) \in DOMAIN db <=> u \in todo[p]
                            /\ Merge(u) \notin DOMAIN db
        BY <1>1 DEF DataInv, ProcInv, RecoverKnows, Recovering
    <2>3. Sound(db)'
        BY <1>3, <2>1, <2>2, NamesDiffer DEF DataInv, Sound, CanRename, Renamed
    <2>4. Knows(p)' /\ RecoverKnows(p)' /\ SaveKnows(p)'
        BY <1>1, <1>3, <2>1, <2>2, NamesDiffer, AfterTableKnows DEF Recovering, Renamed
    <2> QED BY <1>1, <1>3, <2>3, <2>4, GoOn DEF AfterTable, PCs
<1> QED BY <1>3, RecoversClean DEF RecoverRename

LEMMA RecoverMergeData ==
    ASSUME Solo, TypeInv, Locked, DataInv, Clean', NEW p \in Procs,
           NEW t \in Tables, RecoverMerge(p, t)
    PROVE  DataInv'
<1>1. pc[p] = "recover" /\ t \in todo[p] /\ UNCHANGED <<undo, owner>>
    BY DEF RecoverMerge
<1>3. CASE /\ CanMerge(t)
           /\ db' = Put(db, Merge(t), Union(t))
           /\ Goto(p, "merge_drop")
           /\ cur' = [cur EXCEPT ![p] = {t}]
           /\ UNCHANGED <<todo, saved, last>>
    <2>1. Added(db, Merge(t), Union(t), db')
        BY <1>3, AddFacts
    <2>2. \A u \in Tables : /\ Back(u) \in DOMAIN db <=> u \in todo[p]
                            /\ Merge(u) \notin DOMAIN db
        BY <1>1 DEF DataInv, ProcInv, RecoverKnows, Recovering
    <2>3. Union(t) \subseteq saved .. last /\ Union(t) # {}
        BY <1>3 DEF DataInv, Sound, Union, CanMerge
    <2>4. \A n \in DOMAIN db' : db'[n] \subseteq saved .. last
        BY <2>1, <2>3 DEF Added, DataInv, Sound
    <2>5. \A u \in Tables : /\ (Back(u) \in DOMAIN db' <=> Back(u) \in DOMAIN db)
                            /\ (Data(u) \in DOMAIN db' <=> Data(u) \in DOMAIN db)
                            /\ (Merge(u) \in DOMAIN db' <=> u = t)
                            /\ Back(u) \in DOMAIN db => db'[Back(u)] = db[Back(u)]
                            /\ Data(u) \in DOMAIN db => db'[Data(u)] = db[Data(u)]
        BY <2>1, <2>2, NamesDiffer DEF Added
    <2>6. Sound(db)'
        BY <1>1, <1>3, <2>2, <2>4, <2>5 DEF DataInv, Sound
    <2>7. cur'[p] = {t} /\ db'[Merge(t)] # {} /\ owner # p
        BY <1>1, <1>3, <2>1, <2>3
           DEF Added, TypeInv, ProcType, DataInv, ProcInv, Knows, Saving
    <2>8. pc'[p] = "merge_drop"
        BY <1>3 DEF Goto, TypeInv, ProcType
    <2>9. Knows(p)' /\ RecoverKnows(p)' /\ SaveKnows(p)'
        BY <1>1, <1>3, <2>2, <2>5, <2>7, <2>8
           DEF Knows, RecoverKnows, SaveKnows, Recovering, InMerge, Saving
    <2> QED BY <1>1, <1>3, <2>6, <2>9, GoOn DEF PCs
<1> QED BY <1>3, RecoversClean DEF RecoverMerge

LEMMA MergeDropData ==
    ASSUME Solo, TypeInv, Locked, DataInv, Clean', NEW p \in Procs, MergeDrop(p)
    PROVE  DataInv'
<1>1. PICK t \in cur[p] :
        MergeStep(p, "merge_drop", "merge_rename", CanDrop(Data(t)), Drop(db, Data(t)))
    BY DEF MergeDrop
<1>2. pc[p] = "merge_drop" /\ UNCHANGED <<undo, owner>>
    BY <1>1 DEF MergeStep
<1>3. t \in todo[p] /\ t \in Tables /\ cur[p] = {t}
    BY <1>2 DEF DataInv, ProcInv, RecoverKnows, InMerge, TypeInv, ProcType
<1>5. CASE /\ CanDrop(Data(t)) /\ db' = Drop(db, Data(t))
           /\ Goto(p, "merge_rename")
           /\ UNCHANGED <<work, saved, last>>
    <2>1. Dropped(db, Data(t), db')
        BY <1>5, DropFacts
    <2>2. \A u \in Tables : /\ Back(u) \in DOMAIN db' <=> Back(u) \in DOMAIN db
                            /\ Merge(u) \in DOMAIN db' <=> Merge(u) \in DOMAIN db
        BY <2>1, NamesDiffer DEF Dropped
    <2>3. \A u \in Tables : Back(u) \in DOMAIN db <=> u \in todo[p]
        BY <1>2 DEF DataInv, ProcInv, RecoverKnows, Recovering
    <2>4. Sound(db)'
        BY <1>3, <1>5, <2>1, <2>3, NamesDiffer DEF Dropped, DataInv, Sound
    <2>5. pc'[p] = "merge_rename"
        BY <1>5 DEF Goto, TypeInv, ProcType
    <2>6. /\ owner # p
          /\ \A u \in Tables : Merge(u) \in DOMAIN db => u \in cur[p]
          /\ Merge(t) \in DOMAIN db /\ db[Merge(t)] # {}
        BY <1>2, <1>3 DEF DataInv, ProcInv, Knows, RecoverKnows, Saving, Recovering
    <2>7. db'[Merge(t)] # {} /\ Merge(t) \in DOMAIN db'
        BY <2>1, <2>6, NamesDiffer DEF Dropped
    <2>8. Knows(p)' /\ RecoverKnows(p)' /\ SaveKnows(p)'
        BY <1>2, <1>3, <1>5, <2>2, <2>3, <2>5, <2>6, <2>7
           DEF Knows, RecoverKnows, SaveKnows, Recovering, InMerge, Saving, work
    <2> QED BY <1>2, <1>5, <2>4, <2>8, GoOn DEF PCs
<1> QED BY <1>1, <1>5, RecoversClean DEF MergeStep

LEMMA MergeRenameData ==
    ASSUME Solo, TypeInv, Locked, DataInv, Clean', NEW p \in Procs, MergeRename(p)
    PROVE  DataInv'
<1>1. PICK t \in cur[p] :
        MergeStep(p, "merge_rename", "merge_end", CanRename(Merge(t), Data(t)),
                  Rename(db, Merge(t), Data(t)))
    BY DEF MergeRename
<1>2. pc[p] = "merge_rename" /\ UNCHANGED <<undo, owner>>
    BY <1>1 DEF MergeStep
<1>3. t \in todo[p] /\ t \in Tables /\ cur[p] = {t}
    BY <1>2 DEF DataInv, ProcInv, RecoverKnows, InMerge, TypeInv, ProcType
<1>5. CASE /\ CanRename(Merge(t), Data(t)) /\ db' = Rename(db, Merge(t), Data(t))
           /\ Goto(p, "merge_end")
           /\ UNCHANGED <<work, saved, last>>
    <2>1. Renamed(db, Merge(t), Data(t), db')
        BY <1>5, RenameFacts DEF CanRename
    <2>2. /\ \A u \in Tables : Back(u) \in DOMAIN db <=> u \in todo[p]
          /\ \A u \in Tables : Merge(u) \in DOMAIN db => u = t
          /\ Merge(t) \in DOMAIN db /\ db[Merge(t)] # {} /\ owner # p
        BY <1>2, <1>3 DEF DataInv, ProcInv, Knows, RecoverKnows, Recovering, Saving
    <2>3. \A u \in Tables : /\ Back(u) \in DOMAIN db' <=> u \in todo[p]
                            /\ Merge(u) \notin DOMAIN db'
        BY <2>1, <2>2, NamesDiffer DEF Renamed
    <2>4. Sound(db)'
        BY <1>3, <1>5, <2>1, <2>2, <2>3, NamesDiffer DEF Renamed, DataInv, Sound
    <2>5. pc'[p] = "merge_end"
        BY <1>5 DEF Goto, TypeInv, ProcType
    <2>6. Data(t) \in DOMAIN db' /\ db'[Data(t)] # {}
        BY <2>1, <2>2 DEF Renamed
    <2>7. Knows(p)' /\ RecoverKnows(p)' /\ SaveKnows(p)'
        BY <1>2, <1>3, <1>5, <2>2, <2>3, <2>5, <2>6
           DEF Knows, RecoverKnows, SaveKnows, Recovering, InMerge, Saving, work
    <2> QED BY <1>2, <1>5, <2>4, <2>7, GoOn DEF PCs
<1> QED BY <1>1, <1>5, RecoversClean DEF MergeStep

LEMMA MergeEndData ==
    ASSUME Solo, TypeInv, Locked, DataInv, Clean', NEW p \in Procs, MergeEnd(p)
    PROVE  DataInv'
<1>1. PICK t \in cur[p] :
        /\ pc[p] = "merge_end"
        /\ Recovers(CanDrop(Back(t)), Drop(db, Back(t)))
        /\ AfterTable(p, t)
        /\ UNCHANGED <<undo, owner, saved, last>>
    BY DEF MergeEnd
<1>2. t \in todo[p] /\ t \in Tables /\ cur[p] = {t}
    BY <1>1 DEF DataInv, ProcInv, RecoverKnows, InMerge, TypeInv, ProcType
<1>4. CASE /\ CanDrop(Back(t)) /\ db' = Drop(db, Back(t))
           /\ AfterTable(p, t)
           /\ UNCHANGED <<saved, last>>
    <2>1. Dropped(db, Back(t), db')
        BY <1>4, DropFacts
    <2>2. /\ \A u \in Tables : /\ Back(u) \in DOMAIN db <=> u \in todo[p]
                               /\ Merge(u) \notin DOMAIN db
          /\ Data(t) \in DOMAIN db /\ db[Data(t)] # {}
        BY <1>1, <1>2 DEF DataInv, ProcInv, RecoverKnows, Recovering
    <2>3. Sound(db)'
        BY <1>2, <1>4, <2>1, <2>2, NamesDiffer DEF Dropped, DataInv, Sound
    <2>4. Knows(p)' /\ RecoverKnows(p)' /\ SaveKnows(p)'
        BY <1>1, <1>2, <1>4, <2>1, <2>2, NamesDiffer, AfterTableKnows
           DEF Recovering, Dropped
    <2> QED BY <1>1, <1>4, <2>3, <2>4, GoOn DEF AfterTable, PCs
<1> QED BY <1>1, <1>4, RecoversClean

-----------------------------------------------------------------------------
(* Load, edits, and the end.                                               *)

LEMMA LoadData ==
    ASSUME Solo, TypeInv, Locked, DataInv, NEW p \in Procs, Load(p)
    PROVE  DataInv'
<1>1. pc[p] = "begun" /\ UNCHANGED <<undo, owner, work, saved, last>>
    BY DEF Load
<1>2. NoBackups(db) /\ owner # p
    BY <1>1 DEF DataInv, ProcInv, Knows, Saving
<1>3. \A t \in Tables : Data(t) \in DOMAIN db /\ db[Data(t)] # {}
                        /\ db[Data(t)] \subseteq saved .. last
    BY <1>2 DEF NoBackups, DataInv, Sound
<1>4. DOMAIN db' = DOMAIN db /\ \A n \in DOMAIN db : db'[n] = db[n]
    <2>1. DOMAIN db \cup {Data(t) : t \in Tables} = DOMAIN db
        BY <1>3
    <2>2. db' = [n \in DOMAIN db \cup {Data(t) : t \in Tables} |->
                   IF n \in DOMAIN db THEN db[n] ELSE {}]
        BY DEF Load
    <2> QED BY <2>1, <2>2
<1>5. PICK part \in [Tables -> {None} \cup UNION {db'[n] : n \in DOMAIN db'}] :
        /\ \A t \in Tables : IF db'[Data(t)] = {} THEN part[t] = None
                             ELSE part[t] \in db'[Data(t)]
        /\ mem' = [mem EXCEPT ![p] = part]
    BY DEF Load
<1>6. \A t \in Tables : mem'[p][t] >= saved
    BY <1>3, <1>4, <1>5 DEF TypeInv, ProcType
<1>7. pc'[p] = "loaded" /\ Goto(p, "loaded")
    BY DEF Load, Goto, TypeInv, ProcType
<1>8. Sound(db)'
    BY <1>1, <1>4 DEF DataInv, Sound
<1>9. Knows(p)' /\ RecoverKnows(p)' /\ SaveKnows(p)'
    BY <1>1, <1>2, <1>4, <1>6, <1>7
       DEF Knows, RecoverKnows, SaveKnows, Recovering, InMerge, Saving, NoBackups
<1> QED BY <1>1, <1>7, <1>8, <1>9, GoOn DEF PCs

LEMMA EndData ==
    ASSUME Solo, TypeInv, Locked, DataInv, NEW p \in Procs,
           LoadFails(p) \/ End(p)
    PROVE  DataInv'
<1>1. pc[p] \in {"begun", "open"} /\ Forget(p) /\ UNCHANGED <<server, saved, last>>
    BY DEF LoadFails, End, Leave
<1>2. owner # p /\ Sound(db)'
    BY <1>1 DEF DataInv, ProcInv, Knows, Saving, Sound, server
<1> QED BY <1>1, <1>2, ForgetData DEF server

LEMMA AcceptData ==
    ASSUME Solo, TypeInv, Locked, DataInv, NEW p \in Procs, Accept(p)
    PROVE  DataInv'
<1>1. pc[p] = "loaded" /\ Goto(p, "open")
      /\ UNCHANGED <<server, work, mem, saved, last>>
    BY DEF Accept
<1>2. Sound(db)'
    BY <1>1 DEF DataInv, Sound, server
<1>3. pc'[p] = "open"
    BY <1>1 DEF Goto, TypeInv, ProcType
<1>4. Knows(p)' /\ RecoverKnows(p)' /\ SaveKnows(p)'
    BY <1>1, <1>3 DEF DataInv, ProcInv, Knows, RecoverKnows, SaveKnows, Recovering,
       InMerge, Saving, NoBackups, server, work
<1> QED BY <1>1, <1>2, <1>4, GoOn DEF PCs, server

\* What an edit makes of the book: it was at least what was saved, so no part
\* of it is missing and every part is of the new version.
LEMMA RenewedBook ==
    ASSUME TypeInv, DataInv, NEW p \in Procs, pc[p] \in {"loaded", "open"},
           NewVersion, mem' = Renewed(p)
    PROVE  /\ \A t \in Tables : mem'[p][t] = last'
           /\ last' \in Version /\ last' > last /\ saved \in Nat /\ last \in Nat
<1>1. \A t \in Tables : mem[p][t] >= saved /\ mem[p][t] # None
    BY DEF DataInv, ProcInv, Knows, Version, None, TypeInv, ProcType
<1>2. last' = last + 1 /\ saved \in Nat /\ last \in Nat
    BY DEF NewVersion, DataInv, TypeInv, Version
<1>3. \A t \in Tables : mem'[p][t] = last + 1
    BY <1>1 DEF Renewed, TypeInv, ProcType
<1> QED BY <1>2, <1>3 DEF Version, None

LEMMA EditData ==
    ASSUME Solo, TypeInv, Locked, DataInv, NEW p \in Procs, Edit(p)
    PROVE  DataInv'
<1>1. pc[p] = "open" /\ NewVersion /\ mem' = Renewed(p) /\ Goto(p, "edited")
      /\ todo' = [todo EXCEPT ![p] = Tables]
      /\ UNCHANGED <<server, had, cur, err, saved>>
    BY DEF Edit
<1>2. /\ \A t \in Tables : mem'[p][t] = last'
      /\ last' \in Version /\ last' > last /\ saved \in Nat /\ last \in Nat
    BY <1>1, RenewedBook
<1>3. pc'[p] = "edited" /\ \A q \in Procs : q # p => pc'[q] = pc[q]
    BY <1>1 DEF Goto, TypeInv, ProcType
<1>4. Sound(db)'
    BY <1>1, <1>2 DEF DataInv, Sound, server, Version
<1>5. NoBackups(db) /\ owner # p
    BY <1>1 DEF DataInv, ProcInv, Knows, Saving
<1>6. owner = NoProc
    BY <1>1, <1>5, Alone DEF TypeInv
<1>9. todo'[p] = Tables
    BY <1>1 DEF TypeInv, ProcType
<1>7. Knows(p)' /\ RecoverKnows(p)' /\ SaveKnows(p)'
    BY <1>1, <1>2, <1>3, <1>5, <1>9 DEF Knows, RecoverKnows, SaveKnows, Recovering,
       InMerge, Saving, NoBackups, server
<1>8. saved' \in Version /\ saved' <= last'
    BY <1>1, <1>2 DEF DataInv, Version
<1> QED BY <1>1, <1>3, <1>4, <1>6, <1>7, <1>8, StepInv DEF server

LEMMA CommitData ==
    ASSUME Solo, TypeInv, Locked, DataInv, NEW p \in Procs, NEW t \in Tables,
           Commit(p, t)
    PROVE  DataInv'
<1>1. /\ pc[p] = "edited" /\ t \in todo[p] /\ Data(t) \in DOMAIN db
      /\ todo' = [todo EXCEPT ![p] = @ \ {t}]
      /\ UNCHANGED <<undo, owner, had, cur, err, mem, last>>
      /\ \/ todo[p] = {t} /\ TellSaved(p) /\ Goto(p, "open")
         \/ todo[p] # {t} /\ UNCHANGED <<saved, pc>>
    BY DEF Commit, DataTables
<1>2. /\ NoBackups(db) /\ owner # p /\ \A u \in Tables : mem[p][u] = last
      /\ \A u \in Tables \ todo[p] : Whole(db, u)
    BY <1>1 DEF DataInv, ProcInv, Knows, Saving
<1>3. owner = NoProc
    BY <1>1, <1>2, Alone DEF TypeInv
<1>4. last \in Version /\ last # None /\ last \in Nat /\ saved \in Version /\ saved <= last
    BY DEF TypeInv, Version, DataInv
<1>5. \A n \in DOMAIN db : \E u \in Tables : n = Data(u)
    BY <1>2, NamesOf DEF TypeInv, Tabled, NoBackups, DataInv, Sound
<1>6. Added(db, Data(t), {last}, db') /\ DOMAIN db' = DOMAIN db
    <2>1. mem[p][t] = last /\ mem[p][t] # None
        BY <1>2, <1>4
    <2>2. db' = Put(db, Data(t), {mem[p][t]})
        BY <2>1 DEF Commit
    <2>3. Added(db, Data(t), {last}, db')
        BY <2>1, <2>2, AddFacts
    <2> QED BY <1>1, <2>3 DEF Added
<1>7. /\ \A u \in Tables \ (todo[p] \ {t}) : Whole(db', u)
      /\ \A u \in Tables : /\ Back(u) \notin DOMAIN db' /\ Merge(u) \notin DOMAIN db'
                           /\ Data(u) \in DOMAIN db' /\ db'[Data(u)] # {}
    BY <1>2, <1>6, NamesDiffer DEF Added, Whole, NoBackups, DataInv, Sound
<1>8. todo'[p] = todo[p] \ {t}
    BY <1>1 DEF TypeInv, ProcType
<1>9. CASE todo[p] # {t} /\ UNCHANGED <<saved, pc>>
    <2>1. \A n \in DOMAIN db' : db'[n] \subseteq saved .. last
        BY <1>4, <1>6 DEF Added, DataInv, Sound
    <2>2. Sound(db)'
        BY <1>1, <1>7, <1>9, <2>1 DEF Sound
    <2>3. Knows(p)' /\ RecoverKnows(p)' /\ SaveKnows(p)'
        BY <1>1, <1>2, <1>7, <1>8, <1>9 DEF Knows, RecoverKnows, SaveKnows, Recovering,
           InMerge, Saving, NoBackups, Whole
    <2> QED BY <1>1, <1>3, <1>4, <1>9, <2>2, <2>3, StepInv
<1>10. CASE todo[p] = {t} /\ TellSaved(p) /\ Goto(p, "open")
    <2>1. saved' = last
        BY <1>2, <1>10 DEF TellSaved
    <2>2. \A n \in DOMAIN db' : db'[n] = {last}
        BY <1>5, <1>6, <1>7, <1>10 DEF Whole
    <2>3. Sound(db)'
        BY <1>1, <1>4, <1>7, <2>1, <2>2 DEF Sound
    <2>4. pc'[p] = "open" /\ \A q \in Procs : q # p => pc'[q] = pc[q]
        BY <1>10 DEF Goto, TypeInv, ProcType
    <2>5. \A u \in Tables : mem'[p][u] >= saved'
        BY <1>1, <1>2, <1>4, <2>1
    <2>6. Knows(p)' /\ RecoverKnows(p)' /\ SaveKnows(p)'
        BY <1>1, <1>2, <1>7, <2>4, <2>5 DEF Knows, RecoverKnows, SaveKnows, Recovering,
           InMerge, Saving, NoBackups
    <2>7. saved' \in Version /\ saved' <= last'
        BY <1>1, <1>4, <2>1
    <2> QED BY <1>1, <1>3, <2>3, <2>4, <2>6, <2>7, StepInv
<1> QED BY <1>1, <1>9, <1>10

-----------------------------------------------------------------------------
(* The safe save.                                                          *)

LEMMA SafeSyncData ==
    ASSUME Solo, TypeInv, Locked, DataInv, Clean', NEW p \in Procs, SafeSync(p)
    PROVE  DataInv'
<1>1. pc[p] = "loaded" /\ NewVersion /\ UNCHANGED saved
    BY DEF SafeSync
<1>2. NoBackups(db) /\ owner # p
    BY <1>1 DEF DataInv, ProcInv, Knows, Saving
<1>3. owner = NoProc
    BY <1>1, <1>2, Alone DEF TypeInv
<1>4. /\ \/ InTransaction /\ owner' = p /\ undo' = db
         \/ ~InTransaction /\ UNCHANGED <<owner, undo>>
      /\ mem' = Renewed(p)
      /\ Goto(p, "backup")
      /\ List(p, DataTables)
      /\ UNCHANGED <<db, lock, mode, cur, err>>
    BY <1>2 DEF SafeSync, BackTables, NoBackups, Listed, Clean, NoSlip, DataSlips, Slip
<1>5. /\ \A t \in Tables : mem'[p][t] = last'
      /\ last' \in Version /\ last' > last /\ saved \in Nat /\ last \in Nat
    BY <1>1, <1>4, RenewedBook
<1>6. pc'[p] = "backup" /\ \A q \in Procs : q # p => pc'[q] = pc[q]
    BY <1>4 DEF Goto, TypeInv, ProcType
<1>7. Sound(db)' /\ (owner' # NoProc => (Sound(undo) /\ NoBackups(undo))')
    BY <1>1, <1>2, <1>3, <1>4, <1>5 DEF DataInv, Sound, NoBackups, Version
<1>8. \A t \in Tables : Data(t) \in DOMAIN db /\ Merge(t) \notin DOMAIN db
    BY <1>2 DEF NoBackups, DataInv, Sound
<1>9. todo'[p] = Tables
    BY <1>4, <1>8 DEF List, DataTables, TypeInv, ProcType
<1>10. Knows(p)' /\ RecoverKnows(p)' /\ SaveKnows(p)'
    BY <1>2, <1>4, <1>5, <1>6, <1>8, <1>9 DEF Knows, RecoverKnows, SaveKnows,
       Recovering, InMerge, Saving, NoBackups, NoMerges
<1>11. saved' \in Version /\ saved' <= last'
    BY <1>1, <1>5 DEF DataInv, Version
<1> QED BY <1>1, <1>3, <1>4, <1>6, <1>7, <1>10, <1>11, StepInv

LEMMA BackupData ==
    ASSUME Solo, TypeInv, Locked, DataInv, NEW p \in Procs,
           NEW t \in Tables, Backup(p, t)
    PROVE  DataInv'
<1>1. pc[p] = "backup" /\ t \in todo[p] /\ UNCHANGED <<last, saved>>
    BY DEF Backup
<1>2. CASE Abandon(p)
    BY <1>1, <1>2, AbandonData DEF Saving
<1>3. CASE /\ CanRename(Data(t), Back(t)) /\ db' = Rename(db, Data(t), Back(t))
           /\ todo' = [todo EXCEPT ![p] = @ \ {t}]
           /\ UNCHANGED <<undo, owner, pc, had, cur, err, mem>>
    <2>1. Renamed(db, Data(t), Back(t), db')
        BY <1>3, RenameFacts DEF CanRename
    <2>2. /\ NoMerges(db) /\ \A u \in Tables : mem[p][u] = last
          /\ \A u \in Tables : IF u \in todo[p] THEN Back(u) \notin DOMAIN db
                ELSE Back(u) \in DOMAIN db /\ Data(u) \notin DOMAIN db
        BY <1>1 DEF DataInv, ProcInv, Knows, SaveKnows, Saving
    <2>3. Sound(db)'
        BY <1>1, <1>3, <2>1, <2>2, NamesDiffer
           DEF Renamed, DataInv, Sound, CanRename, NoMerges
    <2>4. NoMerges(db)'
        BY <2>1, <2>2, NamesDiffer DEF Renamed, NoMerges
    <2>5. \A u \in Tables : IF u \in todo'[p] THEN Back(u) \notin DOMAIN db'
                ELSE Back(u) \in DOMAIN db' /\ Data(u) \notin DOMAIN db'
        BY <1>1, <1>3, <2>1, <2>2, NamesDiffer DEF Renamed, TypeInv, ProcType
    <2>6. Knows(p)' /\ RecoverKnows(p)' /\ SaveKnows(p)'
        BY <1>1, <1>3, <2>2, <2>4, <2>5
           DEF Knows, RecoverKnows, SaveKnows, Recovering, InMerge, Saving
    <2> QED BY <1>1, <1>3, <2>3, <2>6, GoOn DEF PCs
<1> QED BY <1>1, <1>2, <1>3 DEF Backup, Done

LEMMA DropIndexesData ==
    ASSUME Solo, TypeInv, Locked, DataInv, NEW p \in Procs, DropIndexes(p)
    PROVE  DataInv'
<1>1. pc[p] = "backup" /\ todo[p] = {} /\ UNCHANGED <<last, saved>>
    BY DEF DropIndexes
<1>2. CASE Abandon(p)
    BY <1>1, <1>2, AbandonData DEF Saving
<1>3. CASE /\ Goto(p, "create")
           /\ todo' = [todo EXCEPT ![p] = Tables]
           /\ UNCHANGED <<db, undo, owner, had, cur, err, mem>>
    <2>1. pc'[p] = "create"
        BY <1>3 DEF Goto, TypeInv, ProcType
    <2>2. Sound(db)'
        BY <1>1, <1>3 DEF DataInv, Sound
    <2>3. /\ NoMerges(db) /\ \A u \in Tables : mem[p][u] = last
          /\ \A u \in Tables : Back(u) \in DOMAIN db /\ Data(u) \notin DOMAIN db
        BY <1>1 DEF DataInv, ProcInv, Knows, SaveKnows, Saving
    <2>4. Knows(p)' /\ RecoverKnows(p)' /\ SaveKnows(p)'
        BY <1>1, <1>3, <2>1, <2>3 DEF Knows, RecoverKnows, SaveKnows, Recovering,
           InMerge, Saving, NoMerges
    <2> QED BY <1>1, <1>3, <2>2, <2>4, GoOn DEF PCs
<1> QED BY <1>2, <1>3 DEF DropIndexes

LEMMA CreateTableData ==
    ASSUME Solo, TypeInv, Locked, DataInv, NEW p \in Procs,
           NEW t \in Tables, CreateTable(p, t)
    PROVE  DataInv'
<1>1. /\ pc[p] = "create" /\ t \in todo[p] /\ UNCHANGED <<last, saved>>
      /\ todo' = [todo EXCEPT ![p] = @ \ {t}]
      /\ UNCHANGED <<undo, owner, pc, had, cur, mem>>
    BY DEF CreateTable
<1>2. /\ NoMerges(db) /\ \A u \in Tables : mem[p][u] = last
      /\ \A u \in Tables : /\ Back(u) \in DOMAIN db
                           /\ u \in todo[p] => Data(u) \notin DOMAIN db
                           /\ Data(u) \in DOMAIN db => db[Data(u)] = {}
    BY <1>1 DEF DataInv, ProcInv, Knows, SaveKnows, Saving
<1>3. Added(db, Data(t), {}, db') \/ db' = db
    BY AddFacts DEF CreateTable, Done
<1>4. /\ NoMerges(db)'
      /\ \A u \in Tables : /\ Back(u) \in DOMAIN db' /\ db'[Back(u)] = db[Back(u)]
                           /\ u # t => (Data(u) \in DOMAIN db' <=> Data(u) \in DOMAIN db)
                           /\ Data(u) \in DOMAIN db' => db'[Data(u)] = {}
    BY <1>2, <1>3, NamesDiffer DEF Added, NoMerges
<1>5. \A n \in DOMAIN db' : db'[n] \subseteq saved .. last
    BY <1>3 DEF Added, DataInv, Sound
<1>6. Sound(db)'
    BY <1>1, <1>2, <1>4, <1>5 DEF DataInv, Sound
<1>7. todo'[p] = todo[p] \ {t}
    BY <1>1 DEF TypeInv, ProcType
<1>8. Knows(p)' /\ RecoverKnows(p)' /\ SaveKnows(p)'
    BY <1>1, <1>2, <1>4, <1>7 DEF Knows, RecoverKnows, SaveKnows, Recovering,
       InMerge, Saving
<1> QED BY <1>1, <1>6, <1>8, GoOn DEF PCs

LEMMA WriteRowsData ==
    ASSUME Solo, TypeInv, Locked, DataInv, NEW p \in Procs, WriteRows(p)
    PROVE  DataInv'
<1>1. /\ pc[p] = "create" /\ todo[p] = {} /\ Goto(p, "written")
      /\ UNCHANGED <<undo, owner, had, cur, mem, last, saved>>
    BY DEF WriteRows
<1>2. /\ NoMerges(db) /\ \A u \in Tables : mem[p][u] = last
      /\ \A u \in Tables : /\ Back(u) \in DOMAIN db
                           /\ Data(u) \in DOMAIN db => db[Data(u)] = {}
    BY <1>1 DEF DataInv, ProcInv, Knows, SaveKnows, Saving
<1>3. pc'[p] = "written"
    BY <1>1 DEF Goto, TypeInv, ProcType
<1>4. CASE db' = db /\ SetError(p)
    <2>1. err'[p]
        BY <1>4 DEF SetError, TypeInv, ProcType
    <2>2. Sound(db)'
        BY <1>1, <1>4 DEF DataInv, Sound
    <2>3. Knows(p)' /\ RecoverKnows(p)' /\ SaveKnows(p)'
        BY <1>1, <1>2, <1>3, <1>4, <2>1 DEF Knows, RecoverKnows, SaveKnows,
           Recovering, InMerge, Saving, NoMerges
    <2> QED BY <1>1, <2>2, <2>3, GoOn DEF PCs
<1>5. CASE ~MustFail /\ db' = Written(p)
    <2>1. last # None /\ \A t \in Tables : Data(t) \in DOMAIN db
        BY <1>5 DEF MustFail, DataTables, TypeInv, Version
    <2>2. DOMAIN db' = DOMAIN db
        BY <1>5 DEF Written
    <2>3. \A t \in Tables : Data(t)[1] = t /\ Data(t)[2] = "data"
                            /\ Back(t)[2] = "back"
        BY DEF Data, Back
    <2>4. \A t \in Tables : db'[Data(t)] = {last} /\ db'[Back(t)] = db[Back(t)]
        BY <1>2, <1>5, <2>1, <2>3 DEF Written
    <2>5. \A n \in DOMAIN db : db'[n] = db[n] \/ db'[n] = db[n] \cup {last}
        BY <1>2, <1>5 DEF Written, TypeInv, Tabled, Name
    <2>6. Sound(db)'
        BY <1>1, <1>2, <2>2, <2>4, <2>5 DEF DataInv, Sound, Version, TypeInv
    <2>7. Knows(p)' /\ RecoverKnows(p)' /\ SaveKnows(p)'
        BY <1>1, <1>2, <1>3, <2>1, <2>2, <2>4 DEF Knows, RecoverKnows, SaveKnows,
           Recovering, InMerge, Saving, NoMerges, Whole
    <2> QED BY <1>1, <2>6, <2>7, GoOn DEF PCs
<1> QED BY <1>4, <1>5 DEF WriteRows

LEMMA CheckErrorData ==
    ASSUME Solo, TypeInv, Locked, DataInv, Clean', NEW p \in Procs, CheckError(p)
    PROVE  DataInv'
<1>1. pc[p] = "written" /\ UNCHANGED <<last, saved>>
    BY DEF CheckError
<1>2. CASE Abandon(p)
    BY <1>1, <1>2, AbandonData DEF Saving
<1>4. ASSUME NEW seen, Listed(BackTables, seen) PROVE seen = BackTables
    BY <1>4 DEF Listed, Clean, NoSlip, DataSlips, Slip
<1>3. CASE /\ ~err[p] /\ Goto(p, "drop") /\ List(p, BackTables)
           /\ UNCHANGED <<db, undo, owner, cur, err, mem>>
    <2>1. /\ NoMerges(db) /\ \A t \in Tables : mem[p][t] = last
          /\ \A t \in Tables : Back(t) \in DOMAIN db /\ Whole(db, t)
        BY <1>1, <1>3 DEF DataInv, ProcInv, Knows, SaveKnows, Saving
    <2>2. pc'[p] = "drop" /\ todo'[p] = Tables /\ had'[p] = Tables
        BY <1>3, <2>1 DEF Goto, List, BackTables, DataTables, Whole, TypeInv, ProcType
    <2>3. Sound(db)'
        BY <1>1, <1>3 DEF DataInv, Sound
    <2>4. Knows(p)' /\ RecoverKnows(p)' /\ SaveKnows(p)'
        BY <1>1, <1>3, <2>1, <2>2 DEF Knows, RecoverKnows, SaveKnows, Recovering,
           InMerge, Saving, NoMerges, Whole
    <2> QED BY <1>1, <1>3, <2>3, <2>4, GoOn DEF PCs
<1> QED BY <1>2, <1>3, <1>4 DEF CheckError

LEMMA DropBackupData ==
    ASSUME Solo, TypeInv, Locked, DataInv, NEW p \in Procs,
           NEW t \in Tables, DropBackup(p, t)
    PROVE  DataInv'
<1>1. /\ pc[p] = "drop" /\ t \in todo[p] /\ UNCHANGED <<last, saved>>
      /\ todo' = [todo EXCEPT ![p] = @ \ {t}]
      /\ UNCHANGED <<undo, owner, pc, had, cur, mem>>
    BY DEF DropBackup
<1>2. /\ NoMerges(db) /\ \A u \in Tables : mem[p][u] = last
      /\ had[p] = Tables /\ \A u \in Tables : Whole(db, u)
      /\ ~err[p] => \A u \in Tables : Back(u) \in DOMAIN db => u \in todo[p]
    BY <1>1 DEF DataInv, ProcInv, Knows, SaveKnows, Saving
<1>3. \/ Dropped(db, Back(t), db') /\ err' = err
      \/ db' = db /\ SetError(p)
    BY <1>2, DropFacts DEF DropBackup, Done
<1>4. /\ NoMerges(db)'
      /\ \A u \in Tables : Data(u) \in DOMAIN db' /\ db'[Data(u)] = {last}
    BY <1>2, <1>3, NamesDiffer DEF Dropped, NoMerges, Whole
<1>5. DOMAIN db' \subseteq DOMAIN db /\ \A n \in DOMAIN db' : db'[n] = db[n]
    BY <1>3 DEF Dropped
<1>6. Sound(db)'
    BY <1>1, <1>4, <1>5 DEF DataInv, Sound, NoMerges
<1>7. ~err'[p] =>
        ~err[p] /\ \A u \in Tables : Back(u) \in DOMAIN db' => u \in todo[p] \ {t}
    BY <1>2, <1>3, NamesDiffer DEF Dropped, SetError, TypeInv, ProcType
<1>8. todo'[p] = todo[p] \ {t}
    BY <1>1 DEF TypeInv, ProcType
<1>9. Knows(p)' /\ RecoverKnows(p)' /\ SaveKnows(p)'
    BY <1>1, <1>2, <1>4, <1>7, <1>8 DEF Knows, RecoverKnows, SaveKnows,
       Recovering, InMerge, Saving, Whole
<1> QED BY <1>1, <1>6, <1>9, GoOn DEF PCs

LEMMA FinishData ==
    ASSUME Solo, TypeInv, Locked, DataInv, NEW p \in Procs, Finish(p)
    PROVE  DataInv'
<1>1. pc[p] = "drop" /\ todo[p] = {} /\ last' = last
    BY DEF Finish
<1>2. CASE Abandon(p) /\ saved' = saved
    BY <1>1, <1>2, AbandonData DEF Saving
<1>5. owner \in {p, NoProc}
    BY <1>1, Alone DEF TypeInv
<1>3. CASE Commits(p) /\ Leave(p) /\ saved' = saved
    <2>1. Sound(db)' /\ owner' = NoProc
        BY <1>1, <1>3, <1>5 DEF DataInv, Sound, Commits
    <2> QED BY <1>1, <1>3, <2>1, ForgetData, NoProcAssumption DEF Leave
<1>4. CASE /\ ~err[p] /\ Commits(p)
           /\ TellSaved(p)
           /\ Goto(p, "open")
           /\ had' = [had EXCEPT ![p] = {}]
           /\ UNCHANGED <<lock, mode, todo, cur, err, mem>>
    <2> USE DEF Commits
    <2>1. /\ NoMerges(db) /\ \A u \in Tables : mem[p][u] = last
          /\ \A u \in Tables : Whole(db, u) /\ Back(u) \notin DOMAIN db
        BY <1>1, <1>4 DEF DataInv, ProcInv, Knows, SaveKnows, Saving
    <2>2. saved' = last /\ last \in Version
        BY <1>4, <2>1 DEF TellSaved, TypeInv
    <2>3. owner' = NoProc
        BY <1>4, <1>5
    <2>4. \A n \in DOMAIN db : db[n] = {last}
        BY <2>1, NamesOf DEF TypeInv, Tabled, NoMerges, Whole
    <2>5. Sound(db)'
        BY <1>1, <1>4, <2>1, <2>2, <2>4 DEF Sound, Whole, NoMerges, Version
    <2>6. pc'[p] = "open" /\ \A q \in Procs : q # p => pc'[q] = pc[q]
        BY <1>4 DEF Goto, TypeInv, ProcType
    <2>7. Knows(p)' /\ RecoverKnows(p)' /\ SaveKnows(p)'
        BY <1>1, <1>4, <2>1, <2>2, <2>3, <2>6, NoProcAssumption DEF Knows,
           RecoverKnows, SaveKnows, Recovering, InMerge, Saving, NoBackups, Version
    <2>8. saved' \in Version /\ saved' <= last'
        BY <1>1, <2>2 DEF Version
    <2> QED BY <1>1, <2>3, <2>5, <2>6, <2>7, <2>8, StepInv
<1> QED BY <1>2, <1>3, <1>4 DEF Finish

LEMMA RollbackDropData ==
    ASSUME Solo, TypeInv, Locked, DataInv, NEW p \in Procs,
           NEW t \in Tables, RollbackDrop(p, t)
    PROVE  DataInv'
<1>1. /\ pc[p] = "rollback" /\ t \in todo[p] /\ Goto(p, "rollback_rename")
      /\ cur' = [cur EXCEPT ![p] = {t}]
      /\ UNCHANGED <<undo, owner, todo, had, err, mem, last, saved>>
    BY DEF RollbackDrop
<1>2. /\ NoMerges(db) /\ owner # p
      /\ \A u \in todo[p] : Back(u) \in DOMAIN db
    BY <1>1 DEF DataInv, ProcInv, Knows, SaveKnows, Saving
<1>3. Dropped(db, Data(t), db') \/ db' = db
    BY DropFacts DEF RollbackDrop, Done
<1>4. /\ NoMerges(db)' /\ \A u \in todo[p] : Back(u) \in DOMAIN db'
      /\ \A u \in Tables : /\ Back(u) \in DOMAIN db' <=> Back(u) \in DOMAIN db
                           /\ u # t /\ Data(u) \in DOMAIN db =>
                                Data(u) \in DOMAIN db' /\ db'[Data(u)] = db[Data(u)]
    BY <1>2, <1>3, NamesDiffer DEF Dropped, NoMerges
<1>5. DOMAIN db' \subseteq DOMAIN db /\ \A n \in DOMAIN db' : db'[n] = db[n]
    BY <1>3 DEF Dropped
<1>6. Back(t) \in DOMAIN db'
    BY <1>1, <1>4
<1>7. Sound(db)'
    BY <1>1, <1>4, <1>5, <1>6 DEF DataInv, Sound, NoMerges
<1>8. pc'[p] = "rollback_rename" /\ cur'[p] = {t}
    BY <1>1 DEF Goto, TypeInv, ProcType
<1>9. Knows(p)' /\ RecoverKnows(p)' /\ SaveKnows(p)'
    BY <1>1, <1>2, <1>4, <1>8 DEF Knows, RecoverKnows, SaveKnows, Recovering,
       InMerge, Saving
<1> QED BY <1>1, <1>7, <1>9, GoOn DEF PCs

LEMMA RollbackRenameData ==
    ASSUME Solo, TypeInv, Locked, DataInv, NEW p \in Procs,
           RollbackRename(p)
    PROVE  DataInv'
<1>1. PICK t \in cur[p] :
        /\ pc[p] = "rollback_rename"
        /\ \/ Done(CanRename(Back(t), Data(t)), Rename(db, Back(t), Data(t)))
           \/ UNCHANGED db
        /\ \/ Leave(p)
           \/ /\ todo' = [todo EXCEPT ![p] = @ \ {t}]
              /\ cur' = [cur EXCEPT ![p] = {}]
              /\ Goto(p, "rollback")
              /\ UNCHANGED <<lock, mode, had, err, mem>>
        /\ UNCHANGED <<undo, owner, last, saved>>
    BY DEF RollbackRename
<1>2. /\ NoMerges(db) /\ owner # p /\ \A u \in todo[p] : Back(u) \in DOMAIN db
      /\ t \in todo[p] /\ t \in Tables
    BY <1>1 DEF DataInv, ProcInv, Knows, SaveKnows, Saving, TypeInv, ProcType
<1>3. Renamed(db, Back(t), Data(t), db') \/ db' = db
    BY <1>1, RenameFacts DEF Done, CanRename
<1>4. Sound(db)'
    <2>1. CASE db' = db
        BY <1>1, <2>1 DEF DataInv, Sound
    <2>2. CASE Renamed(db, Back(t), Data(t), db')
        <3>1. \A n \in DOMAIN db' : db'[n] \subseteq saved .. last
            BY <1>2, <2>2 DEF Renamed, DataInv, Sound
        <3>2. \A u \in Tables :
                /\ Merge(u) \notin DOMAIN db'
                /\ u # t => /\ Back(u) \in DOMAIN db' <=> Back(u) \in DOMAIN db
                            /\ Back(u) \in DOMAIN db => db'[Back(u)] = db[Back(u)]
                            /\ Data(u) \in DOMAIN db =>
                                 Data(u) \in DOMAIN db' /\ db'[Data(u)] = db[Data(u)]
            BY <1>2, <2>2, NamesDiffer DEF Renamed, NoMerges
        <3>3. Back(t) \notin DOMAIN db' /\ Data(t) \in DOMAIN db' /\ db'[Data(t)] # {}
            BY <1>2, <2>2, NamesDiffer DEF Renamed, DataInv, Sound
        <3> QED BY <1>1, <3>1, <3>2, <3>3 DEF DataInv, Sound
    <2> QED BY <1>3, <2>1, <2>2
<1>5. NoMerges(db)' /\ \A u \in todo[p] \ {t} : Back(u) \in DOMAIN db'
    BY <1>2, <1>3, NamesDiffer DEF Renamed, NoMerges, TypeInv, ProcType
<1>6. CASE Leave(p)
    BY <1>1, <1>2, <1>4, <1>6, ForgetData DEF Leave
<1>7. CASE /\ todo' = [todo EXCEPT ![p] = @ \ {t}]
           /\ cur' = [cur EXCEPT ![p] = {}]
           /\ Goto(p, "rollback")
           /\ UNCHANGED <<had, err, mem>>
    <2>1. pc'[p] = "rollback" /\ todo'[p] = todo[p] \ {t}
        BY <1>7 DEF Goto, TypeInv, ProcType
    <2>2. Knows(p)' /\ RecoverKnows(p)' /\ SaveKnows(p)'
        BY <1>1, <1>2, <1>5, <2>1 DEF Knows, RecoverKnows, SaveKnows, Recovering,
           InMerge, Saving
    <2> QED BY <1>1, <1>4, <1>7, <2>2, GoOn DEF PCs
<1> QED BY <1>1, <1>6, <1>7

-----------------------------------------------------------------------------

LEMMA CrashData ==
    ASSUME Solo, TypeInv, Locked, DataInv, NEW p \in Procs,
           pc[p] \notin {"closed", "lock", "break"}, Crash(p)
    PROVE  DataInv'
<1>1. Forget(p) /\ UNCHANGED <<last, saved>>
    BY DEF Crash
<1>2. CASE owner = p /\ db' = undo /\ owner' = NoProc
    <2>1. Sound(db)'
        BY <1>1, <1>2, NoProcAssumption DEF DataInv, Sound
    <2> QED BY <1>1, <1>2, <2>1, ForgetData, NoProcAssumption
<1>3. CASE owner # p /\ UNCHANGED <<db, undo, owner>>
    <2>1. Sound(db)'
        BY <1>1, <1>3 DEF DataInv, Sound
    <2> QED BY <1>1, <1>3, <2>1, ForgetData
<1> QED BY <1>2, <1>3 DEF Crash

\* Whoever is within lock_database knows nothing of the tables yet, and no
\* other session has got further.
LEMMA LockingData ==
    ASSUME Solo, TypeInv, Locked, DataInv,
           \A q \in Procs : ~HasLock(q),
           \A q \in Procs : pc'[q] # pc[q] => pc'[q] \in {"closed", "check"} \cup Locking,
           UNCHANGED <<server, saved, last>>
    PROVE  DataInv'
<1>2. \A q \in Procs : pc[q] \in Locking \cup {"closed"}
    BY ZenonT(60) DEF HasLock, Solo, TypeInv, ProcType
<1>3. owner = NoProc
    BY <1>2 DEF TypeInv, Locking
<1>4. Sound(db)' /\ owner' = NoProc
    BY <1>3 DEF DataInv, Sound, server
<1>5. \A q \in Procs : pc'[q] \in {"closed", "check", "lock", "break"}
    BY <1>2 DEF Locking
<1>6. ProcInv'
    BY <1>4, <1>5, NoProcAssumption DEF ProcInv, Knows, RecoverKnows, SaveKnows,
       Recovering, InMerge, Saving
<1> QED BY <1>4, <1>6 DEF DataInv

\* A session begins only where no other one is.
LEMMA BeginData ==
    ASSUME Solo, TypeInv, Locked, DataInv, Clean', NEW p \in Procs,
           NEW m \in Modes, Begin(p, m)
    PROVE  DataInv'
<1>1. m # "READ_ONLY" /\ MayLock(m) /\ Goto(p, IF lock = {} THEN "lock" ELSE "break")
      /\ UNCHANGED <<server, saved, last>>
    BY DEF Begin, Solo, Clean, NoSlip, DataSlips, LockSlips, Slip
<1>2. \A q \in Procs : ~HasLock(q)
    BY <1>1 DEF MayLock, MayBreak, Locked, OneHasLock, Solo
<1>3. pc'[p] \in Locking /\ \A q \in Procs : q # p => pc'[q] = pc[q]
    BY <1>1 DEF Goto, TypeInv, ProcType, Locking
<1> QED BY <1>1, <1>2, <1>3, LockingData

LEMMA InsertData ==
    ASSUME Solo, TypeInv, Locked, DataInv, NEW p \in Procs, pc[p] \in Locking,
           InsertLock(p) \/ Crash(p)
    PROVE  DataInv'
<1>1. \A q \in Procs : ~HasLock(q)
    BY DEF Locked, NoneHasLock
<1>2. owner # p
    BY NoProcAssumption DEF TypeInv, Locking
<1>3. UNCHANGED <<server, saved, last>> /\ (Forget(p) \/ Goto(p, "check"))
    BY <1>2 DEF InsertLock, Crash, server
<1>4. \A q \in Procs : pc'[q] # pc[q] => pc'[q] \in {"closed", "check"}
    BY <1>3 DEF Forget, Goto, TypeInv, ProcType
<1> QED BY <1>1, <1>3, <1>4, LockingData

LEMMA InitDataInv == Init => DataInv
<1> SUFFICES ASSUME Init PROVE DataInv
    OBVIOUS
<1>1. DOMAIN db = {Data(t) : t \in Tables} /\ \A n \in DOMAIN db : db[n] = {First}
      /\ saved = First /\ last = First
    BY DEF Init
<1>2. Sound(db)
    BY <1>1, NamesDiffer DEF Sound, First
<1>3. ProcInv
    BY NoProcAssumption DEF Init, ProcInv, Knows, RecoverKnows, SaveKnows, Recovering,
       InMerge, Saving
<1> QED BY <1>1, <1>2, <1>3 DEF Init, DataInv, First, Version, None

LEMMA NextDataInv ==
    ASSUME Solo, TypeInv, Locked, DataInv, Clean', [Next]_vars
    PROVE  DataInv'
<1>1. ASSUME NEW p \in Procs, Recovery(p) PROVE DataInv'
    BY <1>1, CheckData, RecoverRenameData, RecoverMergeData, MergeDropData,
       MergeRenameData, MergeEndData DEF Recovery
<1>2. ASSUME NEW p \in Procs, SafeSave(p) PROVE DataInv'
    BY <1>2, SafeSyncData, DropIndexesData, WriteRowsData, CheckErrorData,
       FinishData, RollbackRenameData, BackupData, CreateTableData,
       DropBackupData, RollbackDropData DEF SafeSave
<1>3. CASE UNCHANGED vars
    BY <1>3 DEF vars, server, work, DataInv, Sound, NoBackups, ProcInv, Knows,
       RecoverKnows, SaveKnows, NoMerges, Whole
<1>4. ASSUME NEW p \in Procs, NEW m \in Modes, Begin(p, m) PROVE DataInv'
    BY <1>4, BeginData
<1>5. ASSUME NEW p \in Procs, InsertLock(p) PROVE DataInv'
    BY <1>5, InsertData DEF InsertLock
<1>6. ASSUME NEW p \in Procs, Crash(p) PROVE DataInv'
    <2>1. pc[p] # "closed"
        BY <1>6 DEF Crash
    <2> QED BY <1>6, <2>1, InsertData, CrashData DEF Locking
<1>7. ASSUME NEW p \in Procs, NEW t \in Tables, Commit(p, t) PROVE DataInv'
    BY <1>7, CommitData
<1>8. ASSUME NEW p \in Procs,
             Load(p) \/ LoadFails(p) \/ Accept(p) \/ Edit(p) \/ End(p)
      PROVE  DataInv'
    BY <1>8, LoadData, EndData, AcceptData, EditData
<1> QED BY <1>1, <1>2, <1>3, <1>4, <1>5, <1>6, <1>7, <1>8 DEF Next

\* What holds of the data until something fails that the code takes for
\* success, if no session is read-only and users break the locks of dead ones
\* alone.
Inv == TypeInv /\ LockInv /\ (Clean => DataInv)

LEMMA CleanBefore ==
    ASSUME LockInv, [Next]_vars, Clean'
    PROVE  Clean /\ Locked
<1>1. slips \subseteq slips'
    BY NextKeeps DEF Kept
<1> QED BY <1>1 DEF LockInv, Clean, NoSlip, DataSlips

LEMMA Holds == Solo => (Spec => []Inv)
<1> SUFFICES ASSUME Solo PROVE Spec => []Inv
    OBVIOUS
<1>1. Init => Inv
    BY InitTypeInv, InitLockInv, InitDataInv DEF Inv
<1>2. Inv /\ [Next]_vars => Inv'
    <2> SUFFICES ASSUME Inv, [Next]_vars PROVE Inv'
        OBVIOUS
    <2>1. TypeInv' /\ LockInv'
        BY NextTypeInv, NextLockInv DEF Inv, Solo
    <2>2. ASSUME Clean' PROVE DataInv'
        BY <2>2, CleanBefore, NextDataInv DEF Inv
    <2> QED BY <2>1, <2>2 DEF Inv
<1> QED BY <1>1, <1>2, PTL DEF Spec

\* No statement that fails and no process that dies, in a commit, in a safe
\* save, in its rollback or in a recovery, loses rows that were saved: for every
\* table some table in the database has them.  Excepted are the failures that
\* the code takes for success, of which the others are kept apart here; a
\* failed drop of a backup that SQLite commits is not among them.
THEOREM NothingIsLost == Solo => (Spec => []NothingLost)
<1> SUFFICES ASSUME Solo PROVE Spec => []NothingLost
    OBVIOUS
<1>1. ASSUME TypeInv, DataInv PROVE NothingLost
    <2>1. Sound(Settled)
        BY <1>1 DEF DataInv, Settled
    <2>2. ASSUME NEW t \in Tables
          PROVE  \E n \in DOMAIN Settled :
                    n[1] = t /\ \E v \in Settled[n] : v >= saved
        <3>1. PICK n \in {Back(t), Data(t)} : n \in DOMAIN Settled /\ Settled[n] # {}
            BY <2>1 DEF Sound
        <3>2. n[1] = t
            BY <3>1 DEF Back, Data
        <3>3. \A v \in Settled[n] : v >= saved
            BY <1>1, <2>1, <3>1 DEF Sound, DataInv, TypeInv, Version
        <3> QED BY <3>1, <3>2, <3>3
    <2> QED BY <2>2 DEF NothingLost
<1>2. Inv => NothingLost
    BY <1>1 DEF Inv, Clean, NothingLost
<1> QED BY <1>2, Holds, PTL

\* Whatever an earlier commit, safe save or recovery left, a session that has
\* loaded has in every part of its book at least what was saved, but for the
\* failures that the code takes for success.
THEOREM WhatIsLoadedIsSaved == Solo => (Spec => []LoadedIsSaved)
<1> SUFFICES ASSUME Solo PROVE Spec => []LoadedIsSaved
    OBVIOUS
<1>1. Inv => LoadedIsSaved
    BY DEF Inv, Clean, DataInv, ProcInv, Knows, LoadedIsSaved
<1> QED BY <1>1, Holds, PTL

-----------------------------------------------------------------------------
(* Commits and saves are atomic where transactions cover table definitions. *)

\* A database that has its tables in place, each in one version, and no others.
Parted(d, newest) ==
    /\ DOMAIN d = {Data(t) : t \in Tables}
    /\ \A t \in Tables : \E v \in 1 .. newest : d[Data(t)] = {v}

AtomicKnows(p) ==
    /\ pc[p] \notin Recovering \cup {"rollback", "rollback_rename"}
    /\ pc[p] \in {"closed", "lock", "break", "check", "begun"} =>
         \A t \in Tables : mem[p][t] = None
    /\ pc[p] \in {"loaded", "open"} => \A t \in Tables : mem[p][t] = Stored(t)
    /\ pc[p] = "edited" => \A t \in todo[p] : Stored(t) < last
    /\ pc[p] \in Saving => owner = p /\ \A t \in Tables : Stored(t) < last

\* A transaction goes back to a database with nothing to recover, and no backup
\* is rolled back by hand.
AtomicInv == Parted(Settled, last) /\ \A p \in Procs : AtomicKnows(p)

\* Where that is so.
Calm == dbms # "mysql" /\ slips = {}

\* What Stored is, by the values it depends on.
VersionIn(d, newest, t) ==
    IF \E v \in 1 .. newest : Data(t) \in DOMAIN d /\ d[Data(t)] = {v}
    THEN CHOOSE v \in d[Data(t)] : TRUE
    ELSE None

LEMMA VersionIs ==
    ASSUME NEW d, NEW newest, Parted(d, newest), NEW t \in Tables
    PROVE  /\ Data(t) \in DOMAIN d /\ d[Data(t)] = {VersionIn(d, newest, t)}
           /\ VersionIn(d, newest, t) \in 1 .. newest
<1>1. PICK v \in 1 .. newest : d[Data(t)] = {v}
    BY DEF Parted
<1>2. Data(t) \in DOMAIN d
    BY DEF Parted
<1>3. VersionIn(d, newest, t) = CHOOSE w \in {v} : TRUE
    BY <1>1, <1>2 DEF VersionIn
<1> QED BY <1>1, <1>2, <1>3

LEMMA StoredIs ==
    ASSUME Parted(Settled, last), NEW t \in Tables
    PROVE  Settled[Data(t)] = {Stored(t)} /\ Stored(t) \in 1 .. last
<1>1. Stored(t) = VersionIn(Settled, last, t)
    BY DEF Stored, VersionIn
<1> QED BY <1>1, VersionIs

LEMMA StoredNext ==
    ASSUME Parted(Settled', last'), NEW t \in Tables
    PROVE  Settled'[Data(t)] = {Stored(t)'} /\ Stored(t)' \in 1 .. last'
<1>1. Stored(t)' = VersionIn(Settled', last', t)
    BY DEF Stored, VersionIn
<1> QED BY <1>1, VersionIs

\* A database that is what it was shows what it did, with newer versions about.
LEMMA StoredSame ==
    ASSUME Parted(Settled, last), Settled' = Settled, last \in Nat, last' \in Nat,
           last' >= last
    PROVE  /\ Parted(Settled', last')
           /\ \A t \in Tables : Stored(t)' = Stored(t)
<1>1. Parted(Settled', last')
    BY DEF Parted
<1>2. \A t \in Tables : {Stored(t)'} = {Stored(t)}
    BY <1>1, StoredIs, StoredNext
<1> QED BY <1>1, <1>2

\* Where a process is, and all others with it.
Here(p) ==
    /\ Solo /\ TypeInv /\ Locked /\ DataInv /\ AtomicInv
    /\ dbms # "mysql" /\ p \in Procs /\ pc[p] \notin {"closed", "lock", "break"}

\* A step of p leaves the other processes closed, with nothing in memory.
LEMMA OthersAtomic ==
    ASSUME NEW p, Here(p), \A q \in Procs : q # p => pc'[q] = pc[q] /\ mem'[q] = mem[q],
           Parted(Settled', last'), AtomicKnows(p)'
    PROVE  AtomicInv'
<1>1. \A q \in Procs : q # p => pc[q] = "closed"
    BY Alone DEF Here
<1>2. \A q \in Procs : q # p => AtomicKnows(q)'
    BY <1>1 DEF Here, AtomicInv, AtomicKnows, Recovering, Saving
<1>3. \A q \in Procs : AtomicKnows(q)'
    BY <1>2
<1> QED BY <1>3 DEF AtomicInv

\* Nothing that is stored or in memory changes.
LEMMA StoreRest ==
    ASSUME dbms' = dbms, \A t \in Tables : Stored(t)' = Stored(t),
           \A q \in Procs, t \in Tables : mem'[q][t] = mem[q][t]
    PROVE  UNCHANGED Store!vars
BY DEF Store!vars

LEMMA AtomicRest ==
    ASSUME NEW p, Here(p), dbms' = dbms, UNCHANGED <<mem, last>>,
           Settled' = Settled, \A q \in Procs : q # p => pc'[q] = pc[q],
           AtomicKnows(p)'
    PROVE  AtomicInv' /\ UNCHANGED Store!vars
<1>1. last \in Nat
    BY DEF Here, TypeInv, Version
<1>2. Parted(Settled', last') /\ \A t \in Tables : Stored(t)' = Stored(t)
    BY <1>1, StoredSame DEF Here, AtomicInv
<1> QED BY <1>2, OthersAtomic, StoreRest

\* The session ends.
LEMMA AtomicLeave ==
    ASSUME NEW p, Here(p), dbms' = dbms, UNCHANGED last, Forget(p), Settled' = Settled
    PROVE  AtomicInv' /\ Store!Leave(p)
<1>1. /\ pc'[p] = "closed" /\ mem' = [mem EXCEPT ![p] = [t \in Tables |-> None]]
      /\ \A q \in Procs : q # p => pc'[q] = pc[q] /\ mem'[q] = mem[q]
    BY DEF Forget, Goto, Here, TypeInv, ProcType
<1>2. last \in Nat
    BY DEF Here, TypeInv, Version
<1>3. Parted(Settled', last') /\ \A t \in Tables : Stored(t)' = Stored(t)
    BY <1>2, StoredSame DEF Here, AtomicInv
<1>4. AtomicKnows(p)'
    BY <1>1 DEF AtomicKnows, Recovering, Saving, Here, TypeInv, ProcType
<1>5. AtomicInv'
    BY <1>1, <1>3, <1>4, OthersAtomic
<1>6. \A t \in Tables : mem'[p][t] = None
    BY <1>1 DEF Here, TypeInv, ProcType
<1>7. \A q \in Procs : q # p => mem'[q] = mem[q]
    BY <1>1
<1>8. dbms' # "mysql" /\ dbms # "mysql"
    BY DEF Here
<1>9. Store!Leave(p)
    BY <1>3, <1>6, <1>7, <1>8 DEF Store!Leave, Store!Nothing
<1> QED BY <1>5, <1>9

\* A session that had no book gets the one that is stored.
LEMMA AtomicOpen ==
    ASSUME NEW p, Here(p), dbms' = dbms, Parted(Settled', last'),
           \A t \in Tables : Stored(t)' = Stored(t),
           pc[p] = "begun", pc'[p] = "loaded",
           \A q \in Procs : q # p => pc'[q] = pc[q] /\ mem'[q] = mem[q],
           \A t \in Tables : mem'[p][t] = Stored(t)
    PROVE  AtomicInv' /\ Store!Open(p)
<1>3. AtomicKnows(p)'
    BY DEF AtomicKnows, Recovering, Saving
<1>4. \A t \in Tables : mem[p][t] = None
    BY DEF Here, AtomicInv, AtomicKnows
<1>5. AtomicInv'
    BY <1>3, OthersAtomic
<1> QED BY <1>4, <1>5 DEF Here, Store!Open, Store!Nothing

\* A session changes its book, or makes it anew for a safe save.
LEMMA AtomicEdit ==
    ASSUME NEW p, Here(p), dbms' = dbms, NewVersion,
           pc[p] \in {"loaded", "open"}, mem' = Renewed(p), Settled' = Settled,
           pc'[p] \in {"edited", "backup"}, pc'[p] = "backup" => owner' = p,
           pc'[p] = "edited" => todo'[p] \subseteq Tables,
           \A q \in Procs : q # p => pc'[q] = pc[q]
    PROVE  AtomicInv' /\ Store!Edit(p)
<1>1. /\ \A t \in Tables : mem'[p][t] = last'
      /\ last' \in Nat /\ last' > last /\ last \in Nat
    BY RenewedBook DEF Here, Version
<1>2. \A q \in Procs : q # p => mem'[q] = mem[q]
    BY DEF Renewed, Here, TypeInv, ProcType
<1>3. Parted(Settled', last') /\ \A t \in Tables : Stored(t)' = Stored(t)
    BY <1>1, StoredSame DEF Here, AtomicInv
<1>4. \A t \in Tables : Stored(t) \in 1 .. last
    BY StoredIs DEF Here, AtomicInv
<1>5. AtomicKnows(p)'
    BY <1>1, <1>3, <1>4 DEF AtomicKnows, Recovering, Saving
<1>6. AtomicInv'
    BY <1>2, <1>3, <1>5, OthersAtomic
<1>7. \A t \in Tables : mem[p][t] \in 1 .. last
    BY <1>4 DEF Here, AtomicInv, AtomicKnows
<1>8. \A q \in Procs, t \in Tables : last' > mem[q][t]
    <2>1. ASSUME NEW q \in Procs, q # p, NEW t \in Tables PROVE mem[q][t] = None
        BY <2>1, Alone DEF Here, AtomicInv, AtomicKnows
    <2> QED BY <1>1, <1>7, <2>1 DEF None
<1>9. \A t \in Tables : last' > Stored(t)
    BY <1>1, <1>4
<1>10. PICK t \in Tables : mem[p][t] # None
    BY <1>1, <1>7, TablesAssumption DEF None
<1> QED BY <1>1, <1>2, <1>3, <1>6, <1>8, <1>9, <1>10
        DEF Here, Store!Edit, Store!IsNew, Store!Version, Store!Nothing

\* An object of the edit is stored.
LEMMA AtomicCommit ==
    ASSUME NEW p, Here(p), dbms' = dbms, NEW t \in Tables, Commit(p, t),
           owner = NoProc
    PROVE  AtomicInv' /\ Store!Commit(p, t)
<1>1. /\ pc[p] = "edited" /\ t \in todo[p] /\ p \in Procs
      /\ todo' = [todo EXCEPT ![p] = @ \ {t}]
      /\ UNCHANGED <<owner, mem, last>>
      /\ \/ todo[p] = {t} /\ Goto(p, "open")
         \/ todo[p] # {t} /\ UNCHANGED pc
    BY DEF Commit, Here
<1>2. /\ \A u \in Tables : mem[p][u] = last
      /\ \A u \in Tables \ todo[p] : Whole(db, u)
      /\ \A u \in todo[p] : Stored(u) < last
    BY <1>1 DEF Here, DataInv, ProcInv, Knows, AtomicInv, AtomicKnows
<1>3. last \in Nat /\ last \in 1 .. last /\ last # None
    BY DEF Here, TypeInv, Version, None
<1>4. Settled = db /\ Settled' = db'
    BY <1>1 DEF Settled
<1>5. Added(db, Data(t), {last}, db')
    <2>1. db' = Put(db, Data(t), {mem[p][t]})
        BY <1>2, <1>3 DEF Commit
    <2> QED BY <1>2, <2>1, AddFacts
<1>6. Parted(db, last)
    BY <1>4 DEF Here, AtomicInv
<1>7. db'[Data(t)] = {last} /\ \A u \in Tables : u # t => db'[Data(u)] = db[Data(u)]
    BY <1>5, <1>6, NamesDiffer DEF Added, Parted
<1>8. Parted(Settled', last')
    BY <1>1, <1>3, <1>4, <1>5, <1>6, <1>7 DEF Added, Parted
<1>9. Stored(t)' = last /\ \A u \in Tables : u # t => Stored(u)' = Stored(u)
    BY <1>4, <1>6, <1>7, <1>8, StoredIs, StoredNext
<1>10. \A u \in Tables \ todo[p] : Stored(u) = last
    BY <1>2, <1>4, <1>6, StoredIs DEF Whole
<1>11. /\ todo'[p] = todo[p] \ {t} /\ \A q \in Procs : q # p => pc'[q] = pc[q]
       /\ pc'[p] = IF todo[p] = {t} THEN "open" ELSE "edited"
    BY <1>1 DEF Goto, Here, TypeInv, ProcType
<1>12. AtomicKnows(p)'
    BY <1>1, <1>2, <1>9, <1>10, <1>11 DEF AtomicKnows, Recovering, Saving, Here,
       TypeInv, ProcType
<1>13. AtomicInv'
    BY <1>1, <1>8, <1>11, <1>12, OthersAtomic
<1>14. mem[p][t] = last /\ Stored(t) < last
    BY <1>1, <1>2
<1> QED BY <1>1, <1>9, <1>13, <1>14 DEF Here, Store!Commit

\* The safe save is committed.
LEMMA AtomicSave ==
    ASSUME NEW p, Here(p), dbms' = dbms, UNCHANGED <<mem, last>>,
           pc[p] \in Saving, pc'[p] = "open", Settled' = db,
           NoMerges(db), \A t \in Tables : Whole(db, t) /\ Back(t) \notin DOMAIN db,
           \A q \in Procs : q # p => pc'[q] = pc[q]
    PROVE  AtomicInv' /\ Store!Save(p)
<1>1. /\ \A t \in Tables : mem[p][t] = last /\ Stored(t) < last
      /\ last \in 1 .. last /\ p \in Procs
    BY DEF Here, AtomicInv, AtomicKnows, DataInv, ProcInv, Knows, TypeInv, Version, None
<1>2. \A n \in DOMAIN db : \E t \in Tables : n = Data(t)
    BY NamesOf DEF Here, TypeInv, Tabled, NoMerges
<1>3. Parted(Settled', last')
    BY <1>1, <1>2 DEF Parted, Whole
<1>4. \A t \in Tables : Stored(t)' = last
    BY <1>3, StoredNext DEF Whole
<1>5. AtomicKnows(p)'
    BY <1>1, <1>4 DEF AtomicKnows, Recovering, Saving
<1>6. AtomicInv'
    BY <1>3, <1>5, OthersAtomic
<1> QED BY <1>1, <1>4, <1>6 DEF Here, Store!Save

\* A step of the store, and what it rests on afterwards.
AtomicStep == AtomicInv' /\ (Store!Next \/ UNCHANGED Store!vars)

\* While p is not saving, no transaction is open.
LEMMA NoTransaction ==
    ASSUME NEW p, Here(p)
    PROVE  /\ owner \in {p, NoProc}
           /\ pc[p] \notin Saving => owner = NoProc /\ Settled = db
           /\ pc[p] \in Saving => owner = p /\ Settled = undo
<1>1. owner \in {p, NoProc}
    BY Alone DEF Here, TypeInv
<1>2. pc[p] \notin Saving => owner # p
    BY DEF Here, DataInv, ProcInv, Knows
<1>3. pc[p] \in Saving => owner = p
    BY DEF Here, AtomicInv, AtomicKnows
<1>4. p # NoProc
    BY NoProcAssumption DEF Here
<1> QED BY <1>1, <1>2, <1>3, <1>4 DEF Settled

LEMMA LoadAtomic ==
    ASSUME NEW p, Here(p), dbms' = dbms, Load(p)
    PROVE  AtomicInv' /\ Store!Open(p)
<1>1. pc[p] = "begun" /\ UNCHANGED <<undo, owner, last>> /\ p \in Procs
    BY DEF Load, Here
<1>2. /\ Settled = db /\ owner = NoProc
      /\ \A t \in Tables : Data(t) \in DOMAIN db /\ db[Data(t)] = {Stored(t)}
    BY <1>1, NoTransaction, StoredIs DEF Saving, Here, AtomicInv, Parted
<1>3. DOMAIN db \cup {Data(t) : t \in Tables} = DOMAIN db
    BY <1>2
<1>4. db' = [n \in DOMAIN db \cup {Data(t) : t \in Tables} |->
               IF n \in DOMAIN db THEN db[n] ELSE {}]
    BY DEF Load
<1>5. DOMAIN db' = DOMAIN db /\ \A n \in DOMAIN db : db'[n] = db[n]
    BY <1>3, <1>4
<1>6. Settled' = db'
    BY <1>1, <1>2 DEF Settled
<1>12. Parted(Settled', last')
    BY <1>1, <1>2, <1>5, <1>6 DEF Here, AtomicInv, Parted
<1>7. \A t \in Tables : Stored(t)' = Stored(t)
    BY <1>2, <1>5, <1>6, <1>12, StoredNext
<1>8. PICK part \in [Tables -> {None} \cup UNION {db'[n] : n \in DOMAIN db'}] :
        /\ \A t \in Tables : IF db'[Data(t)] = {} THEN part[t] = None
                             ELSE part[t] \in db'[Data(t)]
        /\ mem' = [mem EXCEPT ![p] = part]
    BY DEF Load
<1>9. \A t \in Tables : mem'[p][t] = Stored(t)
    <2>1. \A t \in Tables : part[t] = Stored(t)
        BY <1>2, <1>5, <1>8
    <2>2. mem'[p] = part
        BY <1>1, <1>8 DEF Here, TypeInv, ProcType
    <2> QED BY <2>1, <2>2
<1>10. \A q \in Procs : q # p => pc'[q] = pc[q] /\ mem'[q] = mem[q]
    BY <1>8 DEF Load, Goto, Here, TypeInv, ProcType
<1>11. pc'[p] = "loaded"
    BY DEF Load, Goto, Here, TypeInv, ProcType
<1> QED BY <1>1, <1>7, <1>9, <1>10, <1>11, <1>12, AtomicOpen

LEMMA SessionAtomic ==
    ASSUME NEW p, Here(p), dbms' = dbms, slips' = {}, NEW t \in Tables,
           \/ Recovery(p) \/ Load(p) \/ LoadFails(p) \/ Accept(p) \/ Edit(p)
           \/ Commit(p, t) \/ End(p) \/ Crash(p)
    PROVE  AtomicStep
<1> USE DEF AtomicStep, Store!Next
<1>1. pc[p] \notin Recovering /\ p \in Procs /\ Parted(Settled, last)
    BY DEF Here, AtomicInv, AtomicKnows
<1>2. ASSUME CheckFailedSave(p) PROVE AtomicStep
    <2>1. pc[p] = "check" /\ UNCHANGED <<server, last>>
        BY <1>2 DEF CheckFailedSave
    <2>2. BackTables = {}
        BY <1>1, <2>1, NoTransaction, NamesDiffer DEF Saving, Parted, BackTables
    <2>3. Goto(p, "begun") /\ UNCHANGED mem
        BY <1>2, <2>2 DEF CheckFailedSave
    <2>4. Settled' = Settled
        BY <2>1 DEF Settled, server
    <2>5. pc'[p] = "begun" /\ \A q \in Procs : q # p => pc'[q] = pc[q]
        BY <2>3 DEF Goto, Here, TypeInv, ProcType
    <2>6. AtomicKnows(p)'
        BY <2>1, <2>3, <2>5 DEF AtomicKnows, Recovering, Saving, Here, AtomicInv
    <2> QED BY <2>1, <2>3, <2>4, <2>5, <2>6, AtomicRest
<1>3. ASSUME Recovery(p), ~CheckFailedSave(p) PROVE FALSE
    BY <1>1, <1>3 DEF Recovery, RecoverRename, RecoverMerge, MergeDrop, MergeRename,
       MergeEnd, MergeStep, Recovering
<1>4. ASSUME Load(p) PROVE AtomicStep
    BY <1>1, <1>4, LoadAtomic
<1>5. ASSUME LoadFails(p) \/ End(p) PROVE AtomicStep
    <2>1. Forget(p) /\ UNCHANGED <<server, last>>
        BY <1>5 DEF LoadFails, End, Leave
    <2>2. Settled' = Settled
        BY <2>1 DEF Settled, server
    <2> QED BY <1>1, <2>1, <2>2, AtomicLeave
<1>6. ASSUME Accept(p) PROVE AtomicStep
    <2>1. pc[p] = "loaded" /\ Goto(p, "open") /\ UNCHANGED <<server, mem, last>>
        BY <1>6 DEF Accept
    <2>2. pc'[p] = "open" /\ \A q \in Procs : q # p => pc'[q] = pc[q]
        BY <2>1 DEF Goto, Here, TypeInv, ProcType
    <2>3. Settled' = Settled
        BY <2>1 DEF Settled, server
    <2>4. last \in Nat
        BY DEF Here, TypeInv, Version
    <2>5. \A u \in Tables : Stored(u)' = Stored(u)
        BY <2>1, <2>3, <2>4, StoredSame DEF Here, AtomicInv
    <2>6. AtomicKnows(p)'
        BY <2>1, <2>2, <2>5 DEF AtomicKnows, Recovering, Saving, Here, AtomicInv
    <2> QED BY <2>1, <2>2, <2>3, <2>6, AtomicRest
<1>7. ASSUME Edit(p) PROVE AtomicStep
    <2>1. /\ pc[p] = "open" /\ Goto(p, "edited") /\ NewVersion
          /\ todo' = [todo EXCEPT ![p] = Tables]
          /\ mem' = Renewed(p) /\ UNCHANGED server
        BY <1>7 DEF Edit
    <2>2. /\ pc'[p] = "edited" /\ \A q \in Procs : q # p => pc'[q] = pc[q]
          /\ todo'[p] = Tables
        BY <2>1 DEF Goto, Here, TypeInv, ProcType
    <2>3. Settled' = Settled
        BY <2>1 DEF Settled, server
    <2> QED BY <1>1, <2>1, <2>2, <2>3, AtomicEdit
<1>8. ASSUME Commit(p, t) PROVE AtomicStep
    <2>1. owner = NoProc
        BY <1>8, NoTransaction DEF Commit, Saving
    <2> QED BY <1>1, <1>8, <2>1, AtomicCommit
<1>9. ASSUME Crash(p) PROVE AtomicStep
    <2>1. Forget(p) /\ UNCHANGED last
        BY <1>9 DEF Crash
    <2>2. \/ owner = p /\ db' = undo /\ owner' = NoProc
          \/ owner # p /\ UNCHANGED <<db, undo, owner>>
        BY <1>9 DEF Crash
    <2>3. Settled' = Settled
        BY <1>1, <2>2, NoProcAssumption DEF Settled
    <2> QED BY <1>1, <2>1, <2>3, AtomicLeave
<1> QED BY <1>2, <1>3, <1>4, <1>5, <1>6, <1>7, <1>8, <1>9

\* A safe save that is given up has its transaction rolled back.
LEMMA AbandonAtomic ==
    ASSUME NEW p, Here(p), dbms' = dbms, pc[p] \in Saving, Abandon(p), UNCHANGED last
    PROVE  AtomicStep
<1>1. owner = p /\ p \in Procs
    BY NoTransaction DEF Here
<1>2. db' = undo /\ owner' = NoProc /\ Forget(p)
    BY <1>1 DEF Abandon, Leave
<1>3. Settled' = Settled
    BY <1>1, <1>2, NoProcAssumption DEF Settled
<1> QED BY <1>1, <1>2, <1>3, AtomicLeave DEF AtomicStep, Store!Next

LEMMA SafeSaveAtomic ==
    ASSUME NEW p, Here(p), dbms' = dbms, slips' = {}, SafeSave(p)
    PROVE  AtomicStep
<1> USE DEF AtomicStep, Store!Next
<1>1. pc[p] \notin {"rollback", "rollback_rename"} /\ p \in Procs /\ Parted(Settled, last)
    BY DEF Here, AtomicInv, AtomicKnows
<1>2. ASSUME SafeSync(p) PROVE AtomicStep
    <2>1. pc[p] = "loaded" /\ NewVersion /\ owner = NoProc /\ Settled = db
        BY <1>2, NoTransaction DEF SafeSync, Saving
    <2>2. BackTables = {}
        BY <1>1, <2>1, NamesDiffer DEF Parted, BackTables
    <2>3. /\ owner' = p /\ undo' = db /\ mem' = Renewed(p) /\ Goto(p, "backup")
          /\ UNCHANGED db
        BY <1>2, <2>2 DEF SafeSync, InTransaction, Here
    <2>4. Settled' = Settled
        BY <1>1, <2>1, <2>3, NoProcAssumption DEF Settled
    <2>5. pc'[p] = "backup" /\ \A q \in Procs : q # p => pc'[q] = pc[q]
        BY <2>3 DEF Goto, Here, TypeInv, ProcType
    <2> QED BY <1>1, <2>1, <2>3, <2>4, <2>5, AtomicEdit
<1>3. ASSUME pc[p] \in Saving, UNCHANGED <<undo, owner, mem, last>>,
             NEW to \in Saving, Goto(p, to) \/ (pc' = pc /\ pc[p] = to)
      PROVE  AtomicStep
    <2>1. pc'[p] = to /\ \A q \in Procs : q # p => pc'[q] = pc[q]
        BY <1>3 DEF Goto, Here, TypeInv, ProcType
    <2>2. owner = p
        BY <1>3, NoTransaction
    <2>3. Settled' = Settled
        BY <1>1, <1>3, <2>2, NoProcAssumption DEF Settled
    <2>4. last \in Nat
        BY DEF Here, TypeInv, Version
    <2>5. \A t \in Tables : Stored(t)' = Stored(t)
        BY <1>1, <1>3, <2>3, <2>4, StoredSame
    <2>6. AtomicKnows(p)'
        BY <1>3, <2>1, <2>5 DEF AtomicKnows, Recovering, Saving, Here, AtomicInv
    <2> QED BY <1>3, <2>1, <2>3, <2>6, AtomicRest
<1>4. ASSUME NEW t \in Tables, Backup(p, t) \/ CreateTable(p, t) \/ DropBackup(p, t)
      PROVE  AtomicStep
    <2>1. pc[p] \in Saving /\ UNCHANGED last
        BY <1>4 DEF Backup, CreateTable, DropBackup, Saving
    <2>2. Abandon(p) \/ (pc' = pc /\ UNCHANGED <<undo, owner, mem>>)
        BY <1>4 DEF Backup, CreateTable, DropBackup
    <2> QED BY <1>3, <2>1, <2>2, AbandonAtomic
<1>5. ASSUME DropIndexes(p) \/ WriteRows(p) \/ CheckError(p) PROVE AtomicStep
    <2>1. pc[p] \in Saving /\ UNCHANGED last
        BY <1>5 DEF DropIndexes, WriteRows, CheckError, Saving
    <2>2. \A seen : Listed(BackTables, seen) => seen = BackTables
        BY DEF Listed, Slip
    <2>3. \/ Abandon(p)
          \/ /\ UNCHANGED <<undo, owner, mem>>
             /\ Goto(p, "create") \/ Goto(p, "written") \/ Goto(p, "drop")
        BY <1>5, <2>2 DEF DropIndexes, WriteRows, CheckError
    <2> QED BY <1>3, <2>1, <2>3, AbandonAtomic DEF Saving
<1>6. ASSUME Finish(p) PROVE AtomicStep
    <2>1. pc[p] = "drop" /\ todo[p] = {} /\ last' = last /\ owner = p
        BY <1>6, NoTransaction DEF Finish, Saving
    <2>2. CASE Abandon(p)
        BY <2>1, <2>2, AbandonAtomic DEF Saving
    <2>3. CASE ~err[p] /\ Commits(p) /\ Goto(p, "open") /\ UNCHANGED mem
        <3>1. /\ NoMerges(db)
              /\ \A u \in Tables : Whole(db, u) /\ Back(u) \notin DOMAIN db
            BY <2>1, <2>3 DEF Here, DataInv, ProcInv, Knows, SaveKnows, Saving
        <3>2. Settled' = db
            BY <2>1, <2>3 DEF Settled, Commits
        <3>3. pc'[p] = "open" /\ \A q \in Procs : q # p => pc'[q] = pc[q]
            BY <2>3 DEF Goto, Here, TypeInv, ProcType
        <3> QED BY <1>1, <2>1, <2>3, <3>1, <3>2, <3>3, AtomicSave DEF Saving
    <2> QED BY <1>6, <2>1, <2>2, <2>3 DEF Finish, Slip
<1>7. ASSUME RollbackRename(p) \/ \E t \in Tables : RollbackDrop(p, t) PROVE FALSE
    BY <1>1, <1>7 DEF RollbackRename, RollbackDrop
<1> QED BY <1>2, <1>4, <1>5, <1>6, <1>7 DEF SafeSave

\* Within lock_database nothing is stored, and no process has a book.
LEMMA LockingAtomic ==
    ASSUME Solo, TypeInv, AtomicInv, dbms' = dbms,
           \A q \in Procs : ~HasLock(q),
           \A q \in Procs : pc'[q] # pc[q] => pc'[q] \in {"closed", "check"} \cup Locking,
           \A q \in Procs, t \in Tables : mem'[q][t] \in {mem[q][t], None},
           UNCHANGED <<server, last>>
    PROVE  AtomicInv' /\ UNCHANGED Store!vars
<1>1. \A q \in Procs : pc[q] \in Locking \cup {"closed"}
    BY ZenonT(60) DEF HasLock, Solo, TypeInv, ProcType
<1>2. \A q \in Procs, t \in Tables : mem'[q][t] = None /\ mem[q][t] = None
    BY <1>1 DEF AtomicInv, AtomicKnows, Locking
<1>3. Settled' = Settled /\ last \in Nat
    BY DEF Settled, server, TypeInv, Version
<1>4. Parted(Settled', last') /\ \A t \in Tables : Stored(t)' = Stored(t)
    BY <1>3, StoredSame DEF AtomicInv
<1>5. \A q \in Procs : pc'[q] \in {"closed", "lock", "break", "check"}
    BY <1>1 DEF Locking
<1>6. \A q \in Procs : AtomicKnows(q)'
    BY <1>2, <1>5 DEF AtomicKnows, Recovering, Saving
<1> QED BY <1>2, <1>4, <1>6, StoreRest DEF AtomicInv

LEMMA BeginAtomic ==
    ASSUME Solo, TypeInv, Locked, AtomicInv, dbms' = dbms, slips' = {},
           NEW p \in Procs, NEW m \in Modes, Begin(p, m)
    PROVE  AtomicInv' /\ UNCHANGED Store!vars
<1>1. m # "READ_ONLY" /\ MayLock(m) /\ Goto(p, IF lock = {} THEN "lock" ELSE "break")
      /\ UNCHANGED <<server, mem, last>>
    BY DEF Begin, Solo, Slip
<1>2. \A q \in Procs : ~HasLock(q)
    BY <1>1 DEF MayLock, MayBreak, Locked, OneHasLock, Solo
<1>3. pc'[p] \in Locking /\ \A q \in Procs : q # p => pc'[q] = pc[q]
    BY <1>1 DEF Goto, TypeInv, ProcType, Locking
<1> QED BY <1>1, <1>2, <1>3, LockingAtomic

LEMMA InsertAtomic ==
    ASSUME Solo, TypeInv, Locked, AtomicInv, dbms' = dbms,
           NEW p \in Procs, pc[p] \in Locking, InsertLock(p) \/ Crash(p)
    PROVE  AtomicInv' /\ UNCHANGED Store!vars
<1>1. \A q \in Procs : ~HasLock(q)
    BY DEF Locked, NoneHasLock
<1>2. owner # p
    BY NoProcAssumption DEF TypeInv, Locking
<1>3. UNCHANGED <<server, last>> /\ (Forget(p) \/ (Goto(p, "check") /\ UNCHANGED mem))
    BY <1>2 DEF InsertLock, Crash, server, work
<1>4. \A q \in Procs : pc'[q] # pc[q] => pc'[q] \in {"closed", "check"}
    BY <1>3 DEF Forget, Goto, TypeInv, ProcType
<1>5. \A q \in Procs, t \in Tables : mem'[q][t] \in {mem[q][t], None}
    BY <1>3 DEF Forget, TypeInv, ProcType
<1> QED BY <1>1, <1>3, <1>4, <1>5, LockingAtomic

\* Every step on a server whose transactions cover table definitions is a step
\* of the store, or none; on MySQL the store shows nothing.
LEMMA NextAtomic ==
    ASSUME Solo, Inv, Calm => AtomicInv, [Next]_vars
    PROVE  /\ Calm' => AtomicInv'
           /\ slips' # {} \/ Store!Next \/ UNCHANGED Store!vars
<1>1. dbms' = dbms /\ slips \subseteq slips'
    BY NextKeeps DEF Kept
<1>2. CASE dbms = "mysql"
    BY <1>1, <1>2 DEF Calm, Store!vars
<1>3. CASE dbms # "mysql" /\ slips' = {}
    <2>1. Clean /\ Locked /\ DataInv /\ TypeInv /\ AtomicInv
        BY <1>1, <1>3 DEF Inv, LockInv, Clean, NoSlip, Calm
    <2>2. CASE UNCHANGED vars
        <3>1. UNCHANGED <<dbms, db, undo, owner, pc, todo, mem, last>>
            BY <2>2 DEF vars, server, work
        <3>2. Settled' = Settled
            BY <3>1 DEF Settled
        <3>3. \A t \in Tables : Stored(t)' = Stored(t)
            BY <3>1, <3>2 DEF Stored
        <3>4. Parted(Settled', last')
            BY <2>1, <3>1, <3>2 DEF AtomicInv
        <3>5. ASSUME NEW q \in Procs PROVE AtomicKnows(q)'
            <4>1. AtomicKnows(q) /\ todo[q] \in SUBSET Tables
                BY <2>1 DEF AtomicInv, TypeInv, ProcType
            <4> QED BY <3>1, <3>3, <4>1 DEF AtomicKnows
        <3>6. AtomicInv'
            BY <3>4, <3>5 DEF AtomicInv
        <3> QED BY <3>1, <3>3, <3>6, StoreRest
    <2>3. ASSUME NEW p \in Procs, NEW m \in Modes, Begin(p, m) PROVE AtomicStep
        BY <1>1, <1>3, <2>1, <2>3, BeginAtomic DEF AtomicStep
    <2>4. ASSUME NEW p \in Procs, pc[p] \in Locking, InsertLock(p) \/ Crash(p)
          PROVE  AtomicStep
        BY <1>1, <2>1, <2>4, InsertAtomic DEF AtomicStep
    <2>5. ASSUME NEW p \in Procs, pc[p] \notin {"closed", "lock", "break"} PROVE Here(p)
        BY <1>3, <2>1, <2>5 DEF Here
    <2>6. ASSUME NEW p \in Procs, NEW t \in Tables,
                 \/ Recovery(p) \/ Load(p) \/ LoadFails(p) \/ Accept(p) \/ Edit(p)
                 \/ Commit(p, t) \/ End(p) \/ SafeSave(p)
          PROVE  AtomicStep
        <3>1. pc[p] \notin {"closed", "lock", "break"}
            BY <2>6, StepRuns DEF Runs, Live, Locking
        <3> QED BY <1>1, <1>3, <2>5, <2>6, <3>1, SessionAtomic, SafeSaveAtomic
    <2>7. ASSUME NEW p \in Procs, Crash(p) PROVE AtomicStep
        <3>1. pc[p] # "closed"
            BY <2>7 DEF Crash
        <3> QED BY <1>1, <1>3, <2>4, <2>5, <2>7, <3>1, SessionAtomic, TablesAssumption
                DEF Locking
    <2>8. ASSUME NEW p \in Procs, InsertLock(p) PROVE AtomicStep
        BY <2>4, <2>8 DEF InsertLock
    <2>9. Next => AtomicStep
        BY <2>3, <2>6, <2>7, <2>8, TablesAssumption DEF Next
    <2> QED BY <2>2, <2>9 DEF AtomicStep
<1> QED BY <1>2, <1>3 DEF Calm

LEMMA InitAtomic == Init => AtomicInv /\ Store!Init
<1> SUFFICES ASSUME Init PROVE AtomicInv /\ Store!Init
    OBVIOUS
<1>1. /\ DOMAIN db = {Data(t) : t \in Tables} /\ \A n \in DOMAIN db : db[n] = {First}
      /\ last = First /\ owner = NoProc
      /\ \A p \in Procs : pc[p] = "closed" /\ \A t \in Tables : mem[p][t] = None
    BY DEF Init
<1>2. Parted(Settled, last) /\ 1 \in 1 .. last
    BY <1>1 DEF Settled, Parted, First
<1>3. \A t \in Tables : Stored(t) \in Nat
    BY <1>1, <1>2, StoredIs DEF First
<1>4. AtomicInv
    BY <1>1, <1>2 DEF AtomicInv, AtomicKnows, Recovering, Saving
<1>5. [t \in Tables |-> IF dbms = "mysql" THEN None ELSE Stored(t)] \in [Tables -> Nat]
    BY <1>3 DEF None
<1>6. [p \in Procs |-> [t \in Tables |-> IF dbms = "mysql" THEN None ELSE mem[p][t]]]
        = [p \in Procs |-> [t \in Tables |-> None]]
    BY <1>1
<1> QED BY <1>4, <1>5, <1>6 DEF Store!Init, Store!Version, Store!Nothing

\* Where transactions cover table definitions, what the next session will find
\* changes when an object is committed, in its part, and when a safe save is, in
\* all parts at once, and at no other step; and that is what it finds - up to
\* the first failure or overlap that the code takes for success.
THEOREM SavingIsAtomic == Solo => (Spec => SavesAreAtomic)
<1> SUFFICES ASSUME Solo PROVE Spec => SavesAreAtomic
    OBVIOUS
<1>1. Inv /\ (Calm => AtomicInv) /\ [Next]_vars
        => (Calm => AtomicInv)' /\ [slips' # {} \/ Store!Next]_(Store!vars)
    BY NextAtomic
<1>2. Init => (Calm => AtomicInv) /\ Store!Init
    BY InitAtomic
<1> QED BY <1>1, <1>2, Holds, PTL DEF Spec, SavesAreAtomic
=============================================================================
