------------------------------ MODULE SqlStore ------------------------------
(***************************************************************************)
(* One SQL database and the GnuCash processes that open it:                *)
(* libgnucash/backend/dbi (gnc-dbisqlconnection.cpp, gnc-backend-dbi.cpp)  *)
(* over libgnucash/backend/sql/gnc-sql-backend.cpp.                        *)
(*                                                                         *)
(* A session locks the database with a row of a lock table, recovers from  *)
(* a safe save that died, and loads.  A database written by an older       *)
(* version is then saved anew ("safe save"): every table is renamed to     *)
(* <name>_back, new tables are created and filled, and the _back tables    *)
(* are dropped.  SQLite and PostgreSQL do that in one transaction; MySQL   *)
(* commits at every CREATE TABLE, so there the statements are on their     *)
(* own, and what a crash leaves is what the next session recovers from.    *)
(*                                                                         *)
(* A step is one SQL statement (or a query with the decision made on it).  *)
(* A statement may fail and a process may die between any two.  The code   *)
(* takes some failures for success, and lets some transactions overlap:    *)
(* `slips` records which of these has happened, and each property names    *)
(* those that break it.  The rows of a table are abstracted to the version *)
(* of the book they belong to.  Sessions open a database that exists;      *)
(* creating one is not modelled.                                           *)
(***************************************************************************)
EXTENDS Naturals

CONSTANTS
    Procs,        \* the GnuCash processes
    Tables,       \* the data tables
    Modes,        \* the SessionOpenModes they use
    BreakLive,    \* whether SESSION_BREAK_LOCK is used against a live session
    MaxVersion,   \* bound: versions made
    MaxFaults,    \* bound: statements that fail
    MaxCrashes    \* bound: processes that die

ASSUME SqlAssumption ==
    /\ Modes \subseteq {"NORMAL_OPEN", "READ_ONLY", "BREAK_LOCK"}
    /\ BreakLive \in BOOLEAN
    /\ MaxVersion \in Nat /\ MaxFaults \in Nat /\ MaxCrashes \in Nat

NoProc == "none"
ASSUME NoProcAssumption == NoProc \notin Procs
ASSUME TablesAssumption == Tables # {}

VARIABLES
    dbms,     \* the kind of server; never changes
    db,       \* the tables as the process that may write sees them
    undo,     \* what an open transaction goes back to if it does not commit
    owner,    \* the process whose transaction is open, or NoProc
    lock,     \* the processes that have a row in the lock table
    pc,       \* where in the code a process is
    mode,     \* the SessionOpenMode of its session
    todo,     \* the tables its operation has not come to yet
    had,      \* those that had a data table when the operation listed them
    cur,      \* the table it is in the middle of, if any
    err,      \* whether its backend has an error set
    mem,      \* the version of each table's part of its book; None if lost
    last,     \* the last version made
    saved,    \* history: the last version a session was told is saved
    slips,    \* history: what has gone wrong without the code noticing
    faults, crashes

server == <<dbms, db, undo, owner>>
work   == <<todo, had, cur, err>>
vars   == <<server, lock, pc, mode, work, mem, last, saved, slips, faults, crashes>>

\* "race": two processes were between lock_database's SELECT and its COMMIT,
\* on a server that lets them.  "select": that SELECT failed, which is taken
\* for an empty lock table.  "list": the list of the tables could not be had,
\* which is taken for no tables.  "recovery": a statement of a recovery
\* failed; the connection is not the backend's yet, so no error is set and the
\* recovery goes on.  "commit": a safe save was committed, on SQLite, though
\* the drop of a backup had failed.
Slips == {"race", "select", "list", "recovery", "commit"}
Slip(s) == slips' = slips \cup {s}
NoSlip(set) == slips \cap set = {}

\* Table names.
Data(t)  == <<t, "data">>
Back(t)  == <<t, "back">>
Merge(t) == <<t, "merge">>
Name     == Tables \X {"data", "back", "merge"}

NoTables == [n \in {} |-> {}]
None     == 0
First    == 1
Version  == Nat \ {None}

Drop(d, n)       == [m \in DOMAIN d \ {n} |-> d[m]]
Put(d, n, rows)  == [m \in DOMAIN d \cup {n} |-> IF m = n THEN rows ELSE d[m]]
Rename(d, n, m)  == Put(Drop(d, n), m, d[n])

\* get_table_list: the tables that have a table of that kind.
DataTables  == {t \in Tables : Data(t) \in DOMAIN db}
BackTables  == {t \in Tables : Back(t) \in DOMAIN db}
MergeTables == {t \in Tables : Merge(t) \in DOMAIN db}

Locking == {"lock", "break"}
PCs == Locking \cup
       {"closed", "check", "recover", "merge_drop", "merge_rename",
        "merge_end", "begun", "loaded", "open", "edited",
        "backup", "create", "written", "drop", "rollback", "rollback_rename"}

Init ==
    /\ dbms \in {"sqlite", "mysql", "postgresql"}
    /\ db = [n \in {Data(t) : t \in Tables} |-> {First}]
    /\ undo = NoTables /\ owner = NoProc
    /\ lock = {}
    /\ pc = [p \in Procs |-> "closed"]
    /\ mode = [p \in Procs |-> "NORMAL_OPEN"]
    /\ todo = [p \in Procs |-> {}] /\ had = [p \in Procs |-> {}]
    /\ cur = [p \in Procs |-> {}]
    /\ err = [p \in Procs |-> FALSE]
    /\ mem = [p \in Procs |-> [t \in Tables |-> None]]
    /\ last = First /\ saved = First
    /\ slips = {}
    /\ faults = 0 /\ crashes = 0

Goto(p, where) == pc' = [pc EXCEPT ![p] = where]

\* The server lets one transaction at a time change tables; others wait.
Free(p) == owner \in {NoProc, p}

\* A statement that can be executed is, unless it fails for a reason of its
\* own; one that cannot (no such table, table exists) always fails.
Fault   == faults < MaxFaults /\ faults' = faults + 1
NoFault == UNCHANGED faults
Done(possible, result) == possible /\ db' = result /\ NoFault
Failed(possible) == (~possible /\ NoFault) \/ Fault

\* get_table_list: a list that cannot be had is empty.
Listed(tables, seen) ==
    \/ seen = tables /\ NoFault /\ UNCHANGED slips
    \/ seen = {} /\ tables # {} /\ Fault /\ Slip("list")

CanRename(n, m) == n \in DOMAIN db /\ m \notin DOMAIN db
CanDrop(n) == n \in DOMAIN db

-----------------------------------------------------------------------------
(* The end of a session, in whichever way.                                 *)

\* unlock_database deletes every row if one is the process's own; a read-only
\* connection does not come to that.  It gives up if the last call of libdbi
\* has failed (g_return_if_fail), or if the row cannot be deleted.
LockAfterEnd(p) ==
    IF p \in lock /\ mode[p] # "READ_ONLY" THEN {lock, {}} ELSE {lock}

Forget(p) ==
    /\ Goto(p, "closed")
    /\ mode' = [mode EXCEPT ![p] = "NORMAL_OPEN"]
    /\ todo' = [todo EXCEPT ![p] = {}] /\ had' = [had EXCEPT ![p] = {}]
    /\ cur' = [cur EXCEPT ![p] = {}]
    /\ err' = [err EXCEPT ![p] = FALSE]
    /\ mem' = [mem EXCEPT ![p] = [t \in Tables |-> None]]

\* The connection is destroyed.
Leave(p) == Forget(p) /\ lock' \in LockAfterEnd(p)

-----------------------------------------------------------------------------
(* session_begin: the constructor of GncDbiSqlConnection.                  *)

HasLock(p) == pc[p] \notin Locking \cup {"closed"} /\ mode[p] # "READ_ONLY"
MayBreak   == BreakLive \/ \A q \in Procs : ~HasLock(q)
InLocking  == {q \in Procs : pc[q] \in Locking}

\* lock_database: BEGIN and SELECT.  Refusal is no step.  BEGIN alone keeps no
\* other transaction from the same SELECT.  (After a statement that failed,
\* PostgreSQL refuses the INSERT too.)
MutMayLock(m) == TRUE
MayLock(m) == lock = {} \/ (m = "BREAK_LOCK" /\ MayBreak)

Begin(p, m) ==
    /\ pc[p] = "closed"
    /\ \/ /\ m = "READ_ONLY" /\ NoFault /\ UNCHANGED slips
          /\ Goto(p, "check")
       \/ /\ m # "READ_ONLY" /\ MayLock(m) /\ NoFault
          /\ IF dbms # "sqlite" /\ InLocking # {} THEN Slip("race")
             ELSE UNCHANGED slips
          /\ Goto(p, IF lock = {} THEN "lock" ELSE "break")
       \/ /\ m # "READ_ONLY" /\ dbms # "postgresql" /\ Fault /\ Slip("select")
          /\ Goto(p, "lock")
    /\ mode' = [mode EXCEPT ![p] = m]
    /\ UNCHANGED <<server, lock, work, mem, last, saved, crashes>>

\* DELETE of all the rows, if there were any and the lock may be broken;
\* INSERT, COMMIT.  SQLite keeps one from committing while others have read.
MayCommitLock(p) == dbms = "sqlite" => Free(p) /\ InLocking = {p}

InsertLock(p) ==
    /\ pc[p] \in Locking
    /\ \/ /\ MayCommitLock(p) /\ NoFault
          /\ lock' = {p} \cup IF pc[p] = "break" THEN {} ELSE lock
          /\ Goto(p, "check")
          /\ UNCHANGED <<mode, work, mem>>
       \/ Failed(MayCommitLock(p)) /\ Forget(p) /\ UNCHANGED lock
    /\ UNCHANGED <<server, last, saved, slips, crashes>>

\* table_operation lists the tables once and works through the list.
List(p, tables) ==
    /\ todo' = [todo EXCEPT ![p] = tables]
    /\ had' = [had EXCEPT ![p] = DataTables]

\* check_and_rollback_failed_save, in every mode: nothing to do without _back
\* tables, refusal if an earlier recovery left _merge tables, else recovery.
MutCheckNothing(p) ==
    /\ pc[p] = "check" /\ Free(p)
    /\ Goto(p, "begun")
    /\ UNCHANGED <<lock, mode, work, mem, server, last, saved, slips, faults,
                   crashes>>
CheckFailedSave(p) ==
    /\ pc[p] = "check" /\ Free(p)
    /\ \/ /\ Listed(BackTables, {})
          /\ Goto(p, "begun")
          /\ UNCHANGED <<lock, mode, work, mem>>
       \/ /\ BackTables # {} /\ MergeTables # {} /\ NoFault
          /\ Leave(p) /\ UNCHANGED slips
       \/ /\ BackTables # {} /\ Listed(MergeTables, {})
          /\ Goto(p, "recover")
          /\ List(p, BackTables)
          /\ UNCHANGED <<lock, mode, cur, err, mem>>
    /\ UNCHANGED <<server, last, saved, crashes>>

\* A statement of the recovery: execute_nonselect_statement returns 0 for one
\* that fails while no error can be set.
Recovers(possible, result) ==
    \/ Done(possible, result) /\ UNCHANGED slips
    \/ Failed(possible) /\ Slip("recovery") /\ UNCHANGED db

AfterTable(p, t) ==
    /\ todo' = [todo EXCEPT ![p] = @ \ {t}]
    /\ Goto(p, IF todo[p] = {t} THEN "begun" ELSE "recover")

\* A table that had no data table is renamed back.
RecoverRename(p, t) ==
    /\ pc[p] = "recover" /\ t \in todo[p] \ had[p] /\ Free(p)
    /\ Recovers(CanRename(Back(t), Data(t)), Rename(db, Back(t), Data(t)))
    /\ AfterTable(p, t)
    /\ UNCHANGED <<dbms, undo, owner, lock, mode, had, cur, err, mem, last,
                   saved, crashes>>

\* Else merge_tables: CREATE <t>_merge AS the union of both, ...
MutMergeNewOnly(t) == db[Data(t)]
Union(t) == db[Data(t)] \cup db[Back(t)]

CanMerge(t) == {Data(t), Back(t)} \subseteq DOMAIN db /\ Merge(t) \notin DOMAIN db

RecoverMerge(p, t) ==
    /\ pc[p] = "recover" /\ t \in todo[p] \cap had[p] /\ Free(p)
    /\ Recovers(CanMerge(t), Put(db, Merge(t), Union(t)))
    /\ Goto(p, "merge_drop")
    /\ cur' = [cur EXCEPT ![p] = {t}]
    /\ UNCHANGED <<dbms, undo, owner, lock, mode, todo, had, err, mem, last,
                   saved, crashes>>

\* ... DROP <t>, ALTER <t>_merge RENAME TO <t> ...
MergeStep(p, from, to, possible, result) ==
    /\ pc[p] = from /\ Free(p)
    /\ Recovers(possible, result)
    /\ Goto(p, to)
    /\ UNCHANGED <<dbms, undo, owner, lock, mode, work, mem, last, saved,
                   crashes>>

MergeDrop(p) == \E t \in cur[p] :
    MergeStep(p, "merge_drop", "merge_rename",
              CanDrop(Data(t)), Drop(db, Data(t)))

MergeRename(p) == \E t \in cur[p] :
    MergeStep(p, "merge_rename", "merge_end", CanRename(Merge(t), Data(t)),
              Rename(db, Merge(t), Data(t)))

\* ... and DROP <t>_back.
MergeEnd(p) == \E t \in cur[p] :
    /\ pc[p] = "merge_end" /\ Free(p)
    /\ Recovers(CanDrop(Back(t)), Drop(db, Back(t)))
    /\ AfterTable(p, t)
    /\ cur' = [cur EXCEPT ![p] = {}]
    /\ UNCHANGED <<dbms, undo, owner, lock, mode, had, err, mem, last, saved,
                   crashes>>

-----------------------------------------------------------------------------
(* load, edits, and the end.                                               *)

\* create_tables makes the tables that are missing, in every mode; then every
\* table is read.  Of two rows of one object the one that is read last stays.
Load(p) ==
    /\ pc[p] = "begun" /\ Free(p)
    /\ db' = [n \in DOMAIN db \cup {Data(t) : t \in Tables} |->
                 IF n \in DOMAIN db THEN db[n] ELSE {}]
    /\ \E part \in [Tables -> {None} \cup UNION {db'[n] : n \in DOMAIN db'}] :
         /\ \A t \in Tables : IF db'[Data(t)] = {} THEN part[t] = None
                              ELSE part[t] \in db'[Data(t)]
         /\ mem' = [mem EXCEPT ![p] = part]
    /\ Goto(p, "loaded")
    /\ UNCHANGED <<dbms, undo, owner, lock, mode, work, last, saved, slips,
                   faults, crashes>>

\* QofSessionImpl::load destroys the backend.
LoadFails(p) ==
    /\ pc[p] = "begun" /\ Fault
    /\ Leave(p)
    /\ UNCHANGED <<server, last, saved, slips, crashes>>

\* The database is recent enough, or the user does not want it upgraded.
Accept(p) ==
    /\ pc[p] = "loaded"
    /\ Goto(p, "open")
    /\ UNCHANGED <<server, lock, mode, work, mem, last, saved, slips, faults,
                   crashes>>

NewVersion == last < MaxVersion /\ last' = last + 1
Renewed(p) == [mem EXCEPT ![p] =
                 [t \in Tables |-> IF @[t] = None THEN None ELSE last + 1]]

\* The user is told that the book in memory is saved.
TellSaved(p) == \E t \in Tables :
    /\ saved' = mem[p][t]
    /\ \A u \in Tables : mem[p][t] >= mem[p][u]

Edit(p) ==
    /\ pc[p] = "open" /\ mode[p] # "READ_ONLY"
    /\ NewVersion
    /\ mem' = Renewed(p)
    /\ Goto(p, "edited")
    /\ todo' = [todo EXCEPT ![p] = Tables]
    /\ UNCHANGED <<server, lock, mode, had, cur, err, saved, slips, faults,
                   crashes>>

\* GncSqlBackend::commit: every object of an edit, such as the header of a
\* transaction and each of its splits, is committed in a database transaction
\* of its own.  With the last one the edit is saved.  (A commit the server
\* refuses: see TransactionEdit.)
Commit(p, t) ==
    /\ pc[p] = "edited" /\ t \in todo[p] \cap DataTables /\ Free(p)
    /\ db' = IF mem[p][t] = None THEN db ELSE Put(db, Data(t), {mem[p][t]})
    /\ todo' = [todo EXCEPT ![p] = @ \ {t}]
    /\ \/ todo[p] = {t} /\ TellSaved(p) /\ Goto(p, "open")
       \/ todo[p] # {t} /\ UNCHANGED <<saved, pc>>
    /\ UNCHANGED <<dbms, undo, owner, lock, mode, had, cur, err, mem, last,
                   slips, faults, crashes>>

End(p) ==
    /\ pc[p] = "open"
    /\ Leave(p)
    /\ UNCHANGED <<server, last, saved, slips, faults, crashes>>

-----------------------------------------------------------------------------
(* safe_sync, in any mode; a session whose safe_sync fails is destroyed.   *)

MutNoTransaction == FALSE
InTransaction == dbms # "mysql"

\* Something failed.  In a transaction: ROLLBACK.  Else table_operation
\* (rollback), from a new list of the tables, if that can be had.
MutAbandonOpen(p) == Leave(p) /\ UNCHANGED <<db, undo, owner>>
Abandon(p) ==
    \/ /\ owner = p
       /\ db' = undo /\ undo' = NoTables /\ owner' = NoProc
       /\ Leave(p)
    \/ /\ owner # p
       /\ Leave(p)
       /\ UNCHANGED <<db, undo, owner>>
    \/ /\ owner # p /\ BackTables # {}
       /\ Goto(p, "rollback")
       /\ List(p, BackTables)
       /\ UNCHANGED <<db, undo, owner, lock, mode, cur, err, mem>>

\* begin_transaction, and the list for the backup.  If there are _back tables
\* the backup is refused and, on MySQL, rolled back.
SafeSync(p) ==
    /\ pc[p] = "loaded" /\ Free(p)
    /\ NewVersion
    /\ \/ /\ BackTables = {}
          /\ \/ InTransaction /\ owner' = p /\ undo' = db
             \/ ~InTransaction /\ UNCHANGED <<owner, undo>>
          /\ mem' = Renewed(p)
          /\ Goto(p, "backup")
          /\ \E seen \in {DataTables, {}} : Listed(DataTables, seen) /\ List(p, seen)
          /\ UNCHANGED <<db, lock, mode, cur, err>>
       \/ /\ BackTables # {} /\ NoFault /\ UNCHANGED slips
          /\ \/ InTransaction /\ Leave(p) /\ UNCHANGED <<db, undo, owner>>
             \/ ~InTransaction /\ Abandon(p)
    /\ UNCHANGED <<dbms, saved, crashes>>

Backup(p, t) ==
    /\ pc[p] = "backup" /\ t \in todo[p] /\ Free(p)
    /\ \/ /\ Done(CanRename(Data(t), Back(t)), Rename(db, Data(t), Back(t)))
          /\ todo' = [todo EXCEPT ![p] = @ \ {t}]
          /\ UNCHANGED <<undo, owner, lock, pc, mode, had, cur, err, mem>>
       \/ Failed(CanRename(Data(t), Back(t))) /\ Abandon(p)
    /\ UNCHANGED <<dbms, last, saved, slips, crashes>>

DropIndexes(p) ==
    /\ pc[p] = "backup" /\ todo[p] = {} /\ Free(p)
    /\ \/ /\ NoFault
          /\ Goto(p, "create")
          /\ todo' = [todo EXCEPT ![p] = Tables]
          /\ UNCHANGED <<db, undo, owner, lock, mode, had, cur, err, mem>>
       \/ Fault /\ Abandon(p)
    /\ UNCHANGED <<dbms, last, saved, slips, crashes>>

SetError(p) == err' = [err EXCEPT ![p] = TRUE]

\* sync: create_tables goes on after an error, ...
CreateTable(p, t) ==
    /\ pc[p] = "create" /\ t \in todo[p] /\ Free(p)
    /\ \/ Done(Data(t) \notin DOMAIN db, Put(db, Data(t), {})) /\ UNCHANGED err
       \/ Failed(Data(t) \notin DOMAIN db) /\ SetError(p) /\ UNCHANGED db
    /\ todo' = [todo EXCEPT ![p] = @ \ {t}]
    /\ UNCHANGED <<dbms, undo, owner, lock, pc, mode, had, cur, mem, last,
                   saved, slips, crashes>>

\* ... and the rows are written in one transaction, on MySQL too.  Rows that
\* are there already may clash with the new ones.
Written(p) == [n \in DOMAIN db |->
    IF n[2] = "data" /\ mem[p][n[1]] # None
    THEN db[n] \cup {mem[p][n[1]]} ELSE db[n]]
MustFail == DataTables # Tables
MayFail  == MustFail \/ \E t \in DataTables : db[Data(t)] # {}

WriteRows(p) ==
    /\ pc[p] = "create" /\ todo[p] = {} /\ Free(p)
    /\ \/ ~MustFail /\ db' = Written(p) /\ NoFault /\ UNCHANGED err
       \/ ((MayFail /\ NoFault) \/ Fault) /\ SetError(p) /\ UNCHANGED db
    /\ Goto(p, "written")
    /\ UNCHANGED <<dbms, undo, owner, lock, mode, todo, had, cur, mem, last,
                   saved, slips, crashes>>

\* check_error, and the list for drop_backup or for the rollback.  A query
\* that fails within a transaction has PostgreSQL give the transaction up, and
\* make of its COMMIT, without an error, a ROLLBACK.
CheckError(p) ==
    /\ pc[p] = "written" /\ Free(p)
    /\ \/ err[p] /\ Abandon(p) /\ NoFault /\ UNCHANGED slips
       \/ /\ ~err[p]
          /\ Goto(p, "drop")
          /\ \E seen \in {BackTables, {}} :
               /\ Listed(BackTables, seen) /\ List(p, seen)
               /\ IF owner = p /\ dbms = "postgresql" /\ seen # BackTables
                  THEN db' = undo /\ undo' = NoTables /\ owner' = NoProc
                  ELSE UNCHANGED <<db, undo, owner>>
          /\ UNCHANGED <<lock, mode, cur, err, mem>>
    /\ UNCHANGED <<dbms, last, saved, crashes>>

\* A backup whose data table is there is dropped, any other is restored; an
\* error is set and the loop goes on.
DropBackup(p, t) ==
    /\ pc[p] = "drop" /\ t \in todo[p] /\ Free(p)
    /\ LET possible == IF t \in had[p] THEN CanDrop(Back(t))
                       ELSE CanRename(Back(t), Data(t))
           result == IF t \in had[p] THEN Drop(db, Back(t))
                     ELSE Rename(db, Back(t), Data(t))
       IN  \/ Done(possible, result) /\ UNCHANGED err
           \/ Failed(possible) /\ SetError(p) /\ UNCHANGED db
    /\ todo' = [todo EXCEPT ![p] = @ \ {t}]
    /\ UNCHANGED <<dbms, undo, owner, lock, pc, mode, had, cur, mem, last,
                   saved, slips, crashes>>

\* commit_transaction, whatever drop_backup said; safe_save posts the error, if
\* there is one.  After a statement that failed SQLite commits the others,
\* while PostgreSQL rolls back.
Commits(p) ==
    /\ undo' = IF owner = p THEN NoTables ELSE undo
    /\ owner' = IF owner = p THEN NoProc ELSE owner
    /\ NoFault /\ UNCHANGED db

Finish(p) ==
    /\ pc[p] = "drop" /\ todo[p] = {} /\ Free(p)
    /\ \/ /\ ~err[p] /\ Commits(p)
          /\ TellSaved(p)
          /\ Goto(p, "open")
          /\ had' = [had EXCEPT ![p] = {}]
          /\ UNCHANGED <<lock, mode, todo, cur, err, mem, slips>>
       \/ /\ err[p] /\ Commits(p) /\ Leave(p)
          /\ \/ owner = p /\ dbms = "sqlite" /\ Slip("commit")
             \/ owner # p /\ UNCHANGED slips
          /\ UNCHANGED saved
       \/ /\ owner = p
          /\ (err[p] /\ dbms = "postgresql" /\ NoFault) \/ Fault
          /\ Abandon(p) /\ UNCHANGED <<saved, slips>>
    /\ UNCHANGED <<dbms, last, crashes>>

\* table_operation(rollback), on MySQL: DROP the new table if there was one,
\* then rename the old one back; errors are ignored.
RollbackDrop(p, t) ==
    /\ pc[p] = "rollback" /\ t \in todo[p] /\ Free(p)
    /\ \/ t \notin had[p] /\ NoFault /\ UNCHANGED db
       \/ t \in had[p] /\ Done(CanDrop(Data(t)), Drop(db, Data(t)))
       \/ t \in had[p] /\ Failed(CanDrop(Data(t))) /\ UNCHANGED db
    /\ Goto(p, "rollback_rename")
    /\ cur' = [cur EXCEPT ![p] = {t}]
    /\ UNCHANGED <<dbms, undo, owner, lock, mode, todo, had, err, mem, last,
                   saved, slips, crashes>>

RollbackRename(p) == \E t \in cur[p] :
    /\ pc[p] = "rollback_rename" /\ Free(p)
    /\ \/ Done(CanRename(Back(t), Data(t)), Rename(db, Back(t), Data(t)))
       \/ Failed(CanRename(Back(t), Data(t))) /\ UNCHANGED db
    /\ \/ todo[p] = {t} /\ Leave(p)
       \/ /\ todo[p] # {t}
          /\ todo' = [todo EXCEPT ![p] = @ \ {t}]
          /\ cur' = [cur EXCEPT ![p] = {}]
          /\ Goto(p, "rollback")
          /\ UNCHANGED <<lock, mode, had, err, mem>>
    /\ UNCHANGED <<dbms, undo, owner, last, saved, slips, crashes>>

-----------------------------------------------------------------------------

\* The process dies: the server rolls its transaction back, the lock row stays.
Crash(p) ==
    /\ pc[p] # "closed"
    /\ crashes < MaxCrashes /\ crashes' = crashes + 1
    /\ \/ owner = p /\ db' = undo /\ undo' = NoTables /\ owner' = NoProc
       \/ owner # p /\ UNCHANGED <<db, undo, owner>>
    /\ Forget(p)
    /\ UNCHANGED <<dbms, lock, last, saved, slips, faults>>

Recovery(p) ==
    \/ CheckFailedSave(p)
    \/ \E t \in Tables : RecoverRename(p, t) \/ RecoverMerge(p, t)
    \/ MergeDrop(p) \/ MergeRename(p) \/ MergeEnd(p)

SafeSave(p) ==
    \/ SafeSync(p) \/ DropIndexes(p) \/ WriteRows(p) \/ CheckError(p)
    \/ Finish(p) \/ RollbackRename(p)
    \/ \E t \in Tables : \/ Backup(p, t) \/ CreateTable(p, t)
                         \/ DropBackup(p, t) \/ RollbackDrop(p, t)

Next == \E p \in Procs :
    \/ (\E m \in Modes : Begin(p, m)) \/ InsertLock(p)
    \/ Recovery(p)
    \/ Load(p) \/ LoadFails(p) \/ Accept(p) \/ Edit(p) \/ End(p)
    \/ \E t \in Tables : Commit(p, t)
    \/ SafeSave(p)
    \/ Crash(p)

Spec == Init /\ [][Next]_vars

-----------------------------------------------------------------------------
(* Properties.                                                             *)

\* Types; a transaction is open only during the safe save of its process.
TypeOK ==
    /\ dbms \in {"sqlite", "mysql", "postgresql"}
    /\ DOMAIN db \subseteq Name /\ \A n \in DOMAIN db : db[n] \subseteq Version
    /\ DOMAIN undo \subseteq Name
    /\ owner \in Procs \cup {NoProc} /\ lock \subseteq Procs
    /\ owner # NoProc => pc[owner] \in {"backup", "create", "written", "drop"}
    /\ pc \in [Procs -> PCs]
    /\ mode \in [Procs -> Modes \cup {"NORMAL_OPEN"}]
    /\ todo \in [Procs -> SUBSET Tables] /\ had \in [Procs -> SUBSET Tables]
    /\ cur \in [Procs -> SUBSET Tables]
    /\ err \in [Procs -> BOOLEAN]
    /\ mem \in [Procs -> [Tables -> Nat]]
    /\ last \in Version /\ saved \in Nat
    /\ slips \subseteq Slips

\* At most one session that writes has the database, and its row is the only
\* one in the lock table as long as it does, whatever sessions fail, end or die
\* and whichever rows they leave - but for two processes that look for a lock
\* at the same time on MySQL or PostgreSQL, and a SELECT that fails.
LockSlips == {"race", "select"}
LockExclusive ==
    NoSlip(LockSlips) =>
        \A p \in Procs : HasLock(p) =>
            lock = {p} /\ \A q \in Procs : HasLock(q) => q = p

\* What is in the database if every process dies now.
Settled == IF owner = NoProc THEN db ELSE undo

\* "Perform a sync in a way that prevents data loss on a DBI backend"
\* (qof-backend.hpp, safe_sync): what was saved is in the database, in some
\* table, at every point of a commit, a safe save, its rollback or a recovery,
\* wherever they are cut off and whichever statement fails, but for those the
\* code takes for success: a list of the tables, a statement of a recovery.
DataSlips == LockSlips \cup {"list", "recovery"}
NothingLost ==
    NoSlip(DataSlips) =>
        \A t \in Tables : \E n \in DOMAIN Settled :
            n[1] = t /\ \E v \in Settled[n] : v >= saved

\* A session loads no less than what was saved, whatever state of tables an
\* earlier safe save or recovery was left in: the recovery puts the old rows
\* where load looks for them, or refuses.  The same failures excepted.
LoadedIsSaved ==
    NoSlip(DataSlips) =>
        \A p \in Procs : pc[p] = "loaded" => \A t \in Tables : mem[p][t] >= saved

\* The version of a part of the book that is in the database, if it is there
\* in one version and its table is in place.
Stored(t) ==
    IF \E v \in 1 .. last : Data(t) \in DOMAIN Settled /\ Settled[Data(t)] = {v}
    THEN CHOOSE v \in Settled[Data(t)] : TRUE
    ELSE None

\* Where table definitions are part of transactions, every commit of an object
\* and every safe save is atomic: the one changes its part of the book and
\* nothing else, the other all parts at once; a session finds exactly what the
\* sessions before it committed.  (On MySQL a safe save is not.)
Store == INSTANCE PartsStore WITH
    Parts <- Tables,
    store <- [t \in Tables |-> IF dbms = "mysql" THEN None ELSE Stored(t)],
    working <- [p \in Procs |-> [t \in Tables |->
                  IF dbms = "mysql" THEN None ELSE mem[p][t]]]
SavesAreAtomic ==
    Store!Init /\ [][slips' # {} \/ Store!Next]_(Store!vars)
=============================================================================
