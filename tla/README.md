# GnuCash engine: specifications and proofs

TLA+ models of the bookkeeping core of this repository, TLC configurations that
check them on small instances, and TLAPS proofs of the properties that matter
most. Paths below are relative to the repository's root.

    tlc -workers 2 -config XmlStore_save.cfg MCXmlStore.tla     # a run
    tlapm XmlStoreProofs.tla                                    # proofs

`PROJECT.json` lists the components, the runs, the mutants that show that each
property can fail, the source lines behind every definition, the hazards and the
theorems.

## 1. The system

GnuCash keeps a *book* of accounts and transactions in memory and a *session*
that ties the book to a data store. This fork adds "cognitive" modules beside
the books; they read transactions and keep scores of their own.

| Component | State | Operations | What is hard | What makes it correct |
|---|---|---|---|---|
| Event dispatcher `engine/qofevent.cpp` | handler list, run level, pending deletes, suspend counter | register, unregister, suspend, resume, gen, force | handlers change the list that is being walked, runs nest | no walk meets a freed node, no live handler is skipped, deferred deletions happen |
| XML backend `backend/xml/gnc-xml-backend.cpp` | data file, backups, temporary file, `.LCK` file | session_begin, load, sync, session_end | other processes, failing calls, crashes between any two calls | one owner, saves atomic, nothing saved is lost, clean means stored |
| Sessions and files `engine/qofsession.cpp`, `gnome-utils/gnc-file.c`, `gnc-autosave.c`, `gnc-main-window.cpp` | sessions, backends, locks, the current session, the book's dirty flag and its backend, the autosave timer | Save, Save As, autosave, open, quit | timers fire in the dialogs of a save; Save As swaps books and may have to swap back | the user's book always has a live session; a lock is held by its user; nothing unsaved is discarded unasked |
| Component manager `gnome-utils/gnc-component-manager.c` | components, their watches, collected changes, suspend counter | register, watch, suspend, resume, refresh, close by session | handlers called by a walk raise events and change what is walked | every watched change is delivered; refreshes do not nest; no walk meets a freed component |
| Transactions and splits `engine/Transaction.cpp`, `Split.cpp` | splits, edit level, duplicate of the original | BeginEdit, setters, Destroy, ClearSplits, CommitEdit, RollbackEdit | edits nest, stay open, overlap in accounts, and are cancelled or refused | rollback restores; commit leaves things in order |
| Accounts `engine/Account.cpp` | list of splits, balance | insert_split, remove_split, RecomputeBalance | both sides of the relation are changed in different steps | lists and splits agree; balance is the sum |
| Scrub `engine/Scrub.cpp` | none of its own | TransScrubImbalance, TransScrubOrphans | runs inside every commit and adds splits | committed transactions balance |
| Instances `engine/qofinstance.cpp` | edit level, dirty, do_free | begin_edit, commit_edit, part2 | nesting, backend errors | the outermost commit acts, once |
| SQL backends `backend/sql`, `backend/dbi` | lock table, data tables, `_back` tables | lock, recovery, load, commit, safe_sync | a statement that fails, noticed or not, or a crash in the middle of renaming tables; MySQL has no transaction around it | one writer; what was saved stays in some table and is what the next session reads |
| Meta-cognition and ontogenesis bridge `engine/gnc-meta-cognitive.cpp`, `gnc-ontogenesis-bridge.cpp` | sessions with a worker thread each, the combined loop's thread, queues of directives and results, two mutexes held over joins | init, session create and destroy, start and stop of a cycle and of the loop, shutdown | threads are stopped and joined by callers that hold a mutex | a thread does not outlive its session; one loop; nobody waits for ever |
| Lots and gains `engine/gnc-lot.cpp`, `cap-gains.cpp` | lot of a split, gains split, dirty flags | AssignSplit, ComputeCapGains | splits are divided over lots during a commit | a lot is not over-closed; gains balance |
| Scheduled transactions `engine/SchedXaction.cpp`, `app-utils/gnc-sx-instance-model.c`, `gnome/dialog-sx-since-last-run.c` | last occurrence, counters, postponed occurrences; one list of instances per open dialog | Since Last Run, change an instance's state, effect_change, edit the schedule | dialogs are not modal: lists and schedule move apart and are merged on events | no occurrence is created twice or forgotten |
| Virtual devices `engine/gnc-virtual-device.cpp` | device state, DMA channels, interrupt queue | start, stop, reset, shutdown, update, trigger | three mutexes, callbacks out of them, a DMA thread | no deadlock; channels are not exhausted; nothing runs after shutdown |
| Price database, string cache, business objects, hooks, queries, numbers, dates, options | | | | see `PROJECT.json` |
| Cognitive, tensor, ko6ml and fincosys modules | scores, message queues | | | see `PROJECT.json` |
| Register, importers, reports, bindings, vendored code | | | | the environment of the above |

How they interact. The register, dialogs and importers call the transaction
interface; a commit scrubs, calls the backend (`be->commit`, which for XML only
marks the instance clean), then changes the accounts and generates events; event
handlers call back into the engine. A save walks the whole book into a file. One
thread runs all of this, except for the workers of the meta-cognition module and
the virtual devices. What interleaves otherwise are handlers, timers and dialogs
that run inside a call, edits that are open at the same time, and other
processes at the same data store; each module below says which.

## 2. Modules

| Module | Models | Extends |
|---|---|---|
| `QofEvent` | the event dispatcher | |
| `QofEventProofs` | its safety properties, proved | `QofEvent` |
| `AtomicStore` | what a data store that is written as a whole promises | |
| `PartsStore` | what one that is written object by object promises | |
| `XmlStore` | one data file and the processes that open it | uses `AtomicStore` |
| `MCXmlStore` | definitions for TLC | `XmlStore` |
| `XmlStoreProofs` | mutual exclusion, durability, the refinement | `XmlStore` |
| `TransactionEdit` | transactions, splits and accounts under edit, with the scrub | |
| `MCTransactionEdit` | definitions for TLC | `TransactionEdit` |
| `TransactionEditProofs` | membership, order, balances and rollback, proved | `TransactionEdit` |
| `SqlStore` | one database and the processes that open it | uses `PartsStore` |
| `MCSqlStore` | definitions for TLC | `SqlStore` |
| `SqlStoreProofs` | the lock, safe save, recovery and the refinement, proved | `SqlStore` |
| `SaveAs` | the user's book, its sessions and stores, and the calls under way | |
| `MCSaveAs` | definitions for TLC | `SaveAs` |
| `SaveAsProofs` | its invariants and `DiscardsAsked`, proved | `SaveAs` |
| `Refresh` | the component manager | |
| `MCRefresh` | definitions for TLC | `Refresh` |
| `RefreshProofs` | its invariants, proved | `Refresh` |
| `MetaCognition` | the worker threads and those who start and stop them | |
| `MetaCognitionProofs` | its invariants, proved | `MetaCognition` |
| `SxInstances` | a scheduled transaction and the dialogs that create its occurrences | |
| `MCSxInstances` | definitions for TLC | `SxInstances` |
| `SxInstancesProofs` | its invariants, proved | `SxInstances` |

### QofEvent

A handler is program code: while a run is on, any operation may be called from
the handler that the innermost run is in. So the operations are enabled at
every run level, `runs` is the C stack (one frame per active
`qof_event_generate_internal`, with the node pointer the walk goes on from), and
`CallNext`/`EndRun` are what happens when the innermost handler returns. The
list is the set of its nodes, which are named by their ids: ids grow and nodes
are prepended, so the order of the list is the decreasing order of ids.

`start` and `called` of a frame are history for `EveryLiveHandlerNotified`.
Fairness: a handler returns and the walk goes on (`WF` of `CallNext \/ EndRun`);
that is what a single thread does whose handlers return. Handlers that generate
events for ever are excluded by the bound `MaxEvents`.

Bounds: 3 registrations, 3 events, suspend nesting 1, 3 pending deletions. With
three nodes there is one before, at and after the saved pointer, and with three
events runs nest three deep. The proofs do without the bounds' values.

### XmlStore

A step is one system call that another process can see, with the code that
depends on its result. `pc` says where in `session_begin`, `load` and `sync` a
process is. A call may fail (`MaxFaults` times in a behaviour), a process may
die between any two (`MaxCrashes` times), and the next process finds the lock
file and the temporary file that are left. The contents of a file are the
version of the book it holds, `Partial`, or `Absent`.

    session_begin   BeginCheck, BeginReadOnly, GetLock, BreakLock, GetLockFails
    load            Load, LoadFails; NewBook for a session that creates its store
    sync            Save, Backup, BackupFails, OpenTmp, WriteTmp, WriteTmpFails,
                    Unlink, Link, Copied, LinkFails, Cleanup, Expire
    session_end     End;   Crash: the process dies

Assumptions about the environment, as constants. `HardLinks`: whether link(2)
works; without it `link_or_make_backup` copies, in two steps. `ShortWrites`:
whether write(2) may write less than it was given. `BreakLive`: whether a user
answers "open anyway" although the other session is alive; the code cannot tell,
and the dialog says what may happen. `Retention`: the preference for backups; a
backup's age is the time its contents were written, which may be any, so "DAYS"
may remove any of them and covers "NONE" and "FOREVER" for safety.

`AtomicStore` says what a store promises: at one instant of a save, or never,
what is stored becomes what that process has in memory, and never an older
version. `SavesAreAtomic` is that specification under the mapping: stored is
what the data file holds as long as it is whole, and while it is not (between
unlink and link, or during a copy) the newest version on the disk. So in the
window in which there is no data file what counts as stored is the temporary
file, which no code path removes there: it is left for the user to find.

Fairness, for `RetrySucceeds` only: a process that has begun a save goes on with
it, and a user who has unsaved changes saves again. Neither is promised by code
(the second is the user); the property says that if they do, failed saves, left
files and taken names do not stand in the way. Faults are finite in number.

Bounds: two processes, 4 or 5 versions, 2 faults, 1 crash. Two processes are
enough for every conflict on one lock; two faults make a save fail and the next
one fail in another place; the versions allow three saves.

Not modelled: loss of power (no call syncs; the order in which data reaches the
medium is the file system's), `.log` files, the Save As dialog's attempt to
break a lock of a file that it creates, export.

### TransactionEdit

A step is one call of the interface, run to its end, since there is one thread.
What interleaves are edits: two transactions can be open at once and meet in an
account. A setter called on a closed transaction wraps itself in BeginEdit and
CommitEdit; here that is three steps, which allows the same end states and more.

`tx`, `sp` and `ac` are the records of transactions, splits and accounts, with
the fields the properties tell apart: `acc`/`orig_acc` and
`parent`/`orig_parent` (pending and committed owner), value, amount, dirty,
do_free (`destroying`), the edit level and `orig`, the duplicate for the
rollback. `Commit(t, b)` is the whole of `xaccTransCommitEdit`: scrub (orphans
to the Orphan account, amounts to values, balancing split `b`), then for each
dirty split `xaccSplitCommitEdit` with its removal from the old account,
insertion in the new one and recomputation, then the cleaning and the sorting of
the list. `CommitFails` is the same with a backend that refuses:
`trans_on_error` rolls back from the state after the scrub.

A backend may also accept the transaction and refuse a split of it.
`xaccSplitCommitEdit` has by then moved the split from the old account to the new
one and taken over its owners; it returns before the balance is recomputed and,
for a split to be deleted, before it is freed. `CommitSplits` chooses the set of
refused splits; each keeps `dirty`, is marked in the history `refused`, and, if it
was to be deleted, stays in memory outside all lists (`live` is FALSE). What an
insertion leaves of the balance depends on the order of the splits, which
`AccountAfter` follows.

`gnc_cognitive_on_transaction_committed`, called before the backend, reads the
transaction only and is left out.

`Sum(S, f)` adds a function over a finite set of splits; `ValueIn(p)` and
`AmountIn(p)` are the values and the amounts of the splits in state `p`. `Those`
is the list that is left when splits are taken out of it, in its order.

Left out: header fields, lots and gains (off unless `GNC_AUTO_SCRUB_LOTS` is
set), trading accounts, several currencies, moving a split between transactions
(the program only adds new splits), books without a backend (where nothing
clears the dirty flag of a split before the commit of the split does).

Bounds: two transactions, three splits, one user account besides Imbalance and
Orphan, value 1 (the scrub makes -1), edits nested at most 2 deep, 5 calls that
change something in a behaviour (`MaxCalls`), and refusals of 2 splits, with
rollbacks of 1 (`MaxRefused`). Three splits are a pair with a
third that is added, destroyed or added by the scrub; BeginEdit, Commit and
RollbackEdit do not count as calls, so five calls are several edits. Both
configurations say `CHECK_DEADLOCK FALSE` because behaviours end when the calls
are used up; so do those of XmlStore, where processes may be closed for good
because a lock file is left and no mode in use breaks it, or versions are used up.

### SqlStore

A step is one SQL statement that changes something, or a query with the decision
made on it. The database is a set of table names, each with the set of versions
of the book its rows belong to; `<t, "data">`, `<t, "back">` and `<t, "merge">`
are the table `t`, `t_back` and `t_merge`. `dbms` is the kind of server: SQLite
and PostgreSQL have transactions that cover CREATE, DROP and RENAME, MySQL
commits at each of them; after a statement that failed SQLite commits the others,
PostgreSQL none. `undo` is what an open transaction goes back to.

    session_begin        Begin, InsertLock (lock_database), CheckFailedSave
      the recovery       RecoverRename, RecoverMerge, MergeDrop, MergeRename, MergeEnd
    load                 Load, LoadFails; then Accept, or SafeSync for an old database
    edits                Edit, and a Commit for each object; session_end: End
    safe_sync            SafeSync, Backup, DropIndexes, CreateTable, WriteRows,
                         CheckError, DropBackup, Finish
      when that fails    Abandon; on MySQL RollbackDrop, RollbackRename
    the process dies     Crash: an open transaction is rolled back, the lock row stays

`table_operation` lists the tables once and works on the list; `todo` and `had`
are that list, so what another process does meanwhile is not seen by it.
A statement that cannot be executed (the table exists, or does not) fails
always, any other one `MaxFaults` times in a behaviour. The end of a session may
leave its lock row, since `unlock_database` gives up when the last call of libdbi
has failed (`LockAfterEnd`).

Five things go wrong without the code noticing, and the model does them as the
code does. `slips` records which have happened:

| Slip | What happens | Where |
|---|---|---|
| `race` | on MySQL and PostgreSQL two processes are within `lock_database` at once, both find no lock, and both insert one | `gnc-dbisqlconnection.cpp:130` |
| `select` | the SELECT of `lock_database` fails, which counts as no lock | `gnc-dbisqlconnection.cpp:130` |
| `list` | the list of the tables fails, which counts as none | `gnc-dbiproviderimpl.hpp:221` |
| `recovery` | a statement of the recovery fails; it runs in the connection's constructor, where no error is set (`gnc-backend-dbi.cpp:351`), and goes on | `gnc-dbisqlconnection.cpp:296` |
| `commit` | a backup could not be dropped, and SQLite commits the rest | `gnc-backend-dbi.cpp:979` |

A property says for which slips it makes a claim: `LockExclusive` up to the first
`race` or `select`, `NothingLost` and `LoadedIsSaved` up to the first slip that
is not `commit`, `SavesAreAtomic` up to the first of any. None of them can do
with less (known divergences, below). Everything else that fails or dies is
within the claims: a lock row that stays, a rollback whose statements fail, a
recovery that dies half way, a safe save that SQLite committed in part and the
recovery from it.

`SavesAreAtomic` is `PartsStore` under the mapping: what is stored of a part is
the version of its table if the next session finds it in place and in one version.
A database is written object by object, each in a transaction of its own
(`GncSqlBackend::commit`), and only a safe save changes all parts at once. MySQL
promises less: `NothingLost` (what was saved is in some table), and
`LoadedIsSaved` (the recovery puts it where `load` looks, or refuses to open).

Bounds: two processes, two tables (a table before and one after the point at
which a save dies), 5 versions, 3 failing statements (one in the save, one in its
rollback, one in the recovery), 3 crashes. `CONSTRAINT Claimed` follows a
behaviour up to and including the first slip after which nothing is claimed of
the data; that a lock is exclusive beyond that, where only a list or a recovery
failed, is proved. Behaviours end when versions are used up or a lock is left
that no mode in use breaks, so deadlock is not checked.

Left out: creating a database and `sync` of a new one (Save As), upgrades of
single tables, indexes other than as a step that may fail, rows, lost
connections and the retry of statements; the lists that `backup` and the recovery
make for a second time are taken to succeed. Commits that the server refuses are
in `TransactionEdit`.

### SaveAs

All in the main thread. What interleaves are calls inside calls: a dialog or a
progress bar runs the main loop, and there timers fire and windows are closed.
`stack` holds the calls that wait in a dialog or a write, the innermost last,
each with the local variables it goes on to use (`session`, `new_session`,
`newfile` of `gnc_file_do_save_as`). `pc` names the dialog or the write:

    choosing       the file chooser       exists, locked   the two questions of Save As
    writing        gnc_file_save          save_error       its error dialog
    writing_new    Save As                new_error        its error dialog
    prompt         "Save changes?" of a window that is closed
    query_open, query_quit                gnc_file_query_save
    saved_as, prompt_saved                not waiting: a call made on top is about to return

`book.be` is `book->backend`, apart from the backend a session owns: the swap in
`qof_session_swap_data` moves books between sessions and the book's backend
pointer with them, and `NewErrorRead` leaves it NULL as the code does. `lock`
includes other programs, which lock and unlock at any time (`OtherProgram`).
A store is written as a whole or not at all, which is what `XmlStore` shows of a
file (the database's own failures are the subject of `SqlStore`); edits reach a
database at once.

`GncXmlBackend::sync` refuses to write a read-only book, and `session_end` then
returns before it removes the lock file (`ReadOnlyFile`). So a Save As of a
read-only book fails, and the new file's lock is left without a session: it is
`Orphan` in `lock`, which another program may break.

Bounds: two stores, one of them a database in the configuration, three sessions
(the current one, the new one of a Save As, and one more that could be created
on top), three versions, four calls on one another. A Save As that has failed,
followed by another one with an autosave and a quit on top, is within them. The
program ends, and questions may be open at depth 4, so deadlock is not checked.

Left out: revert, export and new file, the explanation dialog of the first
autosave, the countdown in the quit dialog, a second `qof_session_begin` on an
open session. A refused `commit` marks the book dirty with its old contents.

### Refresh

Also one thread: what happens between two steps of a refresh, or of the walk
that closes a session's components, is done by the handler that was called.
`refreshes` and `closing` are the walks in progress with what is left of the
list each took (`rest`) and the component whose handler runs (`in`). `Running`
says when program code, as opposed to the manager, has control; every operation
of the interface is enabled then. `Visit`/`Return`/`EndRefresh` are
`gnc_gui_refresh_internal`; `CallClose`/`CloseReturn`/`EndClose` are
`gnc_close_gui_component_by_session`. A handler resumes what it suspended
before it returns, and a close handler unregisters its component ("components
may not ignore the handler"), perhaps with those opened out of it.

`owed` is history: which change a component watches and has not been told of.
Bounds: one entity, its type and "Trans", one event, three components that
watch one pair each, suspensions nested once beside those of the refresh. Three
components are one before, at and after the handler's own; deadlock is checked.

Left out: finding components by class and data, iteration, closing by data.

### MetaCognition

Callers are threads of the program, each with a session of its own; workers are
the threads the two modules start. A section under a mutex is one step, and
`mutex` records the two that are held while their holder waits: `loop_mutex`
over the join in start and stop, and `global_state_mutex` (only in a mutant:
the code releases it before it joins, and the comment at line 129 of
`gnc-meta-cognitive.cpp` says why). What a worker decides by its scores is a
choice. `Test` to `Finish` are both workers' loops; `Decide` are the calls,
`Continue` what a call that waits goes on to do.

Fairness is weak, for a caller in the middle of a call and for each worker:
threads are scheduled, and what one waits for (a thread to end, the mutex to be
free) stays so until it goes on. No caller is obliged to make a call. In
particular `Told` makes a stopped worker finish, but nothing makes one finish
that was not told to, so that `CallsReturn` depends on who tells whom.

Bounds: two callers, one thread of a kind for each, one waiting directive when
another is made, one shutdown. Two callers are needed for a loop that belongs to
another session than the one destroyed; deadlock is checked.

Left out: scores, histories and configurations, kernels other than the stub
(the only one in the repository), a session used by two threads, and that
`poll_results` may take more than one step (the other threads sleep between
iterations).

### SxInstances

One thread; what interleaves are dialogs. "Since Last Run" is not modal: two of
them may be open on the same schedule (one from the book that was opened, one
from the menu), the editor of schedules may change it meanwhile, and the day may
pass. `sx` is the schedule: the date it was worked off to (`last`), the counter
(`count`), what remains of a limited number (`remain`), the postponed
occurrences (`deferred`), and the two switches. `model[m]` is the list of
dialog `m`, each instance with the schedule's state before it (`tsd`), the state
it was listed with and the state now. A day is an occurrence.

    Since Last Run       SinceLastRun: creates at once what is created automatically
    the user's choices   ChangeState: reminders before are postponed, those after
                         stay reminders; then the list is updated
    OK, Cancel           Ok, Cancel; Ok is gnc_sx_instance_model_effect_change
    the editor           SetEnabled, SetAutoCreate
    close and open       Reopen;   a day passes   Tomorrow

`Pass` is one pass of `effect_change` over a list, an instance at a time
(`Effected`), with what may come of each creation: a transaction, none ("a split
without an account"), or one with an error in a formula. `Effect` then sets the
fields of the schedule one after the other; each is announced, and the *other*
dialogs merge their lists with the schedule as it is between two of them
(`Told`, `Merge`). Nothing is announced for the postponed ones.

The history tells what each promise has to except: `failed`, occurrences for
which an error was shown; `withdrawn`, postponed ones that the user has made
reminders again; `exposed`, those listed again after they were worked off
because an earlier one is postponed, or that a dialog postpones while another
one is open.

Bounds: two dialogs, two days and one day of reminders, so three occurrences
(one before, at and after an instance that is changed); three decisions of the
user, one creation that fails, two postponed occurrences; no limit on the number
of occurrences. Deadlock is checked. With `Total = 3`, where the limit is met,
the properties hold as well; the proofs show that larger bounds make no
difference to any, and no limit does to `TypeOK`, `RemindersLastUnlessExposed`
and `CreatedOnceUnlessExposed`. `NoneForgottenUnlessWithdrawn` is another matter:
with a limit and larger bounds it fails (see the known divergences), and it is
checked and proved without one.

Left out: recurrences and the arithmetic of dates, changes of the start, the end
or the number of occurrences, deleting a schedule, creation in advance, variables
of formulas, the summary of cash flow, and that a change of the postponed
occurrences alone does not mark the book dirty.

## 3. Runs

| Run | Shows |
|---|---|
| `QofEvent` | walks are safe and complete, deferred deletions happen |
| `XmlStore_save` | all modes, copying instead of links, any expiry, 2 faults, 1 crash: types, one owner, clean means stored, nothing saved is lost, saves are atomic |
| `XmlStore_forever` | links, backups kept: what is saved is under a name the user can open; saving again succeeds |
| `TransactionEdit_commit` | committed edits, splits cleared or refused by the backend: membership, ownership and balance |
| `TransactionEdit_rollback` | nested edits, cancelled and refused, also for one split only: the original is restored, what is closed is scrubbed |
| `SqlStore_safesave` | the three kinds of server, 3 faults, 3 crashes: one owner, nothing saved is lost, what is loaded is what was saved, saves are atomic where a transaction covers them, up to the failures that the code does not notice |
| `SaveAs` | save, Save As, autosave, open and quit on top of one another: sessions, locks, backend and dirty flag fit together, nothing is discarded unasked |
| `Refresh` | handlers that do anything in the middle of a walk: no nested refresh, no change forgotten, no freed component followed |
| `MetaCognition` | start, stop, destroy and shutdown while workers run: no worker outlives its session, one loop, every call returns |
| `SxInstances` | two dialogs on one schedule, with the editor, automatic creation and a failing one: no occurrence is passed over, none is created twice, reminders come last, but for the exceptions named |
| `SxInstances_forgotten` | *violated*: a postponed occurrence that is made a reminder again is never offered again |
| `XmlStore_shortwrite` | *violated*: a short write in `copy_file` is taken for success, and the book marked clean |

A violated run states what a comment or a header of the repository says; the
line is quoted under `findings`. The passing run of the same module excludes what
the violated one is about: `ShortWrites` is FALSE, and
`NoneForgottenUnlessWithdrawn` excepts the occurrences that were `withdrawn`.

### Known divergences, not run

Further statements that do not hold of the code. Each has a definition, or is a
property of a passing run under a constant that leaves it out; each can be
reproduced by changing a configuration as told here.

- `XmlStore.NewStoreIsNew` (as INVARIANT in `XmlStore_save.cfg`): the check that
  SESSION_NEW_STORE overwrites nothing precedes the lock, and another process
  may create the file between the two.
- `XmlStore.BegunOwnsLock` (the same way): a lock that is broken is not replaced
  by one's own. `BreakLive` is FALSE in the passing runs for a reason of its own:
  a user who opens a file that another session is using has been warned.
- `TransactionEdit.RollbackRestores` with `Clears = TRUE` in
  `TransactionEdit_rollback.cfg`: splits that `xaccTransClearSplits` removed
  during an edit do not come back when it is rolled back, as a FIXME in the code
  admits.
- `TransactionEdit.BalanceIsSum` (as INVARIANT in
  `TransactionEdit_rollback.cfg`): a rollback puts the splits back but keeps a
  balance that `xaccSplitSetReconcile` (`Split.cpp:1800`) had the account
  recompute during the edit. `TransactionEdit_commit` checks it without rollbacks.
- `SaveAs.CleanIsSaved` (as INVARIANT in `SaveAs_pass.cfg`): after a Save As from
  a database that has failed, edits reach no backend, and the load with which the
  next one begins marks the book saved (`gnc-sql-backend.cpp:359`).
  `CleanUnlessDetached` and `DiscardsAsked` except the time from the failure to
  the next save or open (`detached`).
- `SxInstances.CreatedOnce` (as INVARIANT in `SxInstances_pass.cfg`): the list
  goes on after the last *postponed* occurrence (`gnc-sx-instance-model.c:516`),
  so what was created after it is listed, and created, again.
- `SxInstances.RemainAsOfLast` (the same way, and with `Total = 3`): an
  occurrence that stays postponed is counted off the remaining ones at every
  pass, while `SchedXaction.h:106` says that they are "as-of the 'last_date'".
- `SxInstances.NoneForgottenUnlessWithdrawn` with a limited number of
  occurrences: in `SxInstances_pass.cfg`, `Total = 4`, `Remind = 0`,
  `MaxDate = 4`, `MaxChanges = 5`, `MaxDeferred = 1`, `MaxFailures = 0`. What
  stays postponed is counted off the remaining ones at every pass, so a dialog
  opened later has a shorter list. Its last instances are then reminders; when
  the postponed one is withdrawn and another dialog postpones it again, the
  longer list that is generated is merged with it, and what is to be created
  comes after a reminder: that reminder is passed over.
- `SxInstances.NoneForgottenUnlessWithdrawn` with `Database = TRUE` in
  `SxInstances_pass.cfg`: the SQL backend has no table for postponed
  occurrences (`backend/sql/gnc-schedxaction-sql.cpp`), so they are gone when
  the book is opened again.
- `SqlStore`: take a slip out of the condition of a property (and `CONSTRAINT`
  out of `SqlStore_safesave.cfg`) and it fails. `race` and `select`: all four,
  although `lock_database` begins with "Protect everything with a single
  transaction to prevent races" (`gnc-dbisqlconnection.cpp:108`). `list`:
  `NothingLost`, `LoadedIsSaved` and `SavesAreAtomic`. `recovery`: `NothingLost`
  and `LoadedIsSaved`; after a failed CREATE of the merged table the recovery
  drops the table and then its backup. `commit`: `SavesAreAtomic`.
- `SqlStore.NothingLost`, `LoadedIsSaved` and `SavesAreAtomic` with
  `Modes <- ReadAndWrite` in `SqlStore_safesave.cfg`: a read-only session takes
  no lock and yet recovers, creates missing tables and safe-saves an old database
  beside a writer. On MySQL that loses what was saved; on the others the
  reader's safe save and the writer's commit put back each other's versions.
- `SaveAs.LocksAreUsed` with `lock[u] # Orphan` for all stores: a Save As of a
  read-only book to a file fails, and leaves that file's lock behind
  (`gnc-xml-backend.cpp:162`). The property as checked says of such a lock that it
  is not a session's and not a database's.
- `TransactionEdit.ClosedIsScrubbed` and `BalanceIsSum` without their exception
  for `refused` splits: a split whose own commit the backend refuses stays dirty
  in a transaction that is closed, and the balance of its account is not
  recomputed (`Split.cpp:1031`).
- `Refresh.DeliveredAtZero` (as INVARIANT in `Refresh_pass.cfg`): a change
  raised by a handler in the middle of a refresh waits for the next event,
  although the counter is at zero. `DeliveredUnlessLate` says that nothing else
  does, `NothingForgotten` that it is not lost.
- `MetaCognition.SessionOutlivesWorkers` with `RestartCycles = TRUE` and
  `Copies = {1, 2}` in `MetaCognition.cfg`: a cycle that is stopped and started
  again overwrites the pointer to its first thread, and `session_destroy` joins
  the second one only.

## 4. Proofs

`QofEventProofs`, for any values of the bounds. `CursorInList` alone is not
inductive: that a run which ends does not free the node an outer walk stands on
needs that only the outermost run purges, and nodes are unlinked only when no run
is on. `IInv` adds `PendingInv` (`pending_deletes` is zero only when no node
waits to be deleted), `FreshInv` (ids in use, and those a run remembers, are
older than the next id, so an id is never taken for another handler's) and
`AheadInv` (of the handlers a run started with, those still registered have been
called or lie ahead of the saved node). From it: `TypeCorrect`,
`CursorsAreSafe`, `NoTombstones`, `NobodySkipped` (an action property).

`XmlStoreProofs`, for any number of processes, versions, faults and crashes:

- `MutualExclusion` assumes `~BreakLive`. `LockExclusive` is inductive given types.
- `CleanIsStored` also assumes `~ShortWrites`. It needs `Discipline` (which
  steps a session without the lock can be in; what the temporary file holds at
  each step) and `CleanInv`, which extends the property to the last step of a
  save. The argument: only the owner of the lock writes the data file, so nobody
  else's belief about it is at stake.
- `SavedIsDurable`, same assumptions, adds `VersionInv` (dirty memory is the
  newest version), `TmpInv` and `KeptInv`: a good copy is in the data file, a
  temporary file, or a file left behind, never only in a backup, so that
  `remove_old_files` may remove any backup at any time.
- `SavedByName` also assumes that backups are kept for ever. `NameInv`: from the
  backup to the end of a save there is a good one.
- `SavingIsAtomic`, assumptions of `CleanIsStored`: the refinement of
  `AtomicStore`. It needs that nothing on the disk or in memory is newer than the
  last version made (`BoundInv`), and `CoverInv`: while the data file is not
  whole, a temporary file is as new as any backup, so that what `Newest` finds
  does not change when backups are removed. That `Newest` exists is `Greatest`
  (a bounded set of numbers has a greatest element). A save is the store's at the
  step from which the last version is in the data file, or is on the disk while
  the data file is not whole; if it was that before, the step is a stutter.

`SqlStoreProofs`, for any number of processes, tables, failing statements and
crashes; the model assumes that there is a table (`TablesAssumption`).
`TypeCorrect` needs nothing else. `MutualExclusion` assumes `~BreakLive`; its
`LockInv` says of whoever has the lock that nobody else has it or is about to.
The other theorems assume `Solo`: besides, no session is read-only, because one
that is recovers without a lock (see above). `DataInv` says what each process
knows of the tables by where it is (`Knows` and its parts) and, for all tables,
that the rows are either in place or in a backup that the next recovery restores
(`Sound`); it holds up to the first slip that is not `commit`. From it
`NothingIsLost` and `WhatIsLoadedIsSaved`. `SavingIsAtomic`, the refinement of
`PartsStore`, is about servers whose transactions cover table definitions;
`AtomicInv` says that then, up to the first slip, every table the next user finds
is of one version, and that a session knows which.

`MetaCognitionProofs`, for any threads and any number of directives and
shutdowns. `LoopsInv` (what the pointers point to, and what `loop_mutex` and the
flag say by where its holder is) gives `ReportsAreTrue` with `PendingInv`.
`WorkersEndFirst` assumes `~RestartCycles` and adds `CyclesInv`: the only thread
of a session's cycle is the one that `cycleThread` points to.

`SaveAsProofs`, with no condition on the constants but those of the model.
`StackInv`: only the innermost call is saving, so it alone decides which sessions
there are and who has the book (`SessInv`). `StoredInv` says of a clean book what
its store holds. From them `SessionsStayInPlace`, `LocksHaveSessions`, `CleanIsStored`
and the action property `DiscardsAreAsked`.

`RefreshProofs`, likewise without conditions. `OrderInv` (ids grow with time, and
what opened a component is older than it), `RefreshInv` (a refresh counts as a
suspension), `PendingInv` (what is raised within one is late) and `CloseInv` (the
walk over a session comes to older components than the one it is at). From them
`NoneIsForgotten`, `AllIsDelivered` and `ClosedAreLive`.

`TransactionEditProofs`, for any transactions, splits (finitely many), accounts,
values and depth of nesting. `TypeCorrect` in every configuration. `Inv` is
inductive if splits are not both cleared and put back by a rollback
(`~(Rollbacks /\ Clears)`). Its parts: `OwnInv` (what a split's fields say of one
another and of the lists it is in), `ScrubInv` (a transaction that nobody edits
is in order, and so is the original of one that is edited), `FrontInv` (the list
of an open transaction begins with its original), `BalInv` (the balance of an
account none of whose splits is dirty or refused). Which splits the backend
refuses is left open in all of them. From it `ListsAgree` and `ClosedInOrder`.
`FrontStays` and `RollbacksRestore` assume `~Clears`, `BalancesAreSums` assumes
`~Rollbacks`: without these the properties do not hold of the code (see the known
divergences). A step changes one transaction, and splits that are its own or new
(`Confined`), so what it does to the others is proved once. A sum is unfolded one
split at a time; that it can be is an induction over the size of a set, done by
the least counterexample, for the provers have no induction rule to apply.

`SxInstancesProofs`, for any number of dialogs, occurrences, days of advance,
decisions and failures. What the properties need is mostly about lists, so the
inductive invariant `Inv` says of each dialog's list what its dates and states
have to do with the schedule and the history (`ListOk`, with a name for each
part): its dates are first some that were worked off and then consecutive
(`Shaped`), what was worked off is in it as created, exposed, failed or postponed
only (`WorkedKnown`), no date is in it twice unless exposed (`ListedOnce`),
reminders come last unless a date is exposed (`LastUnless`), and it has the dates
that the schedule would generate, unless other dialogs know of all postponed ones
(`AsGenerated`, which is what an unannounced change can break). `SxOk` is about the
schedule, `HistoryOk` about what was made, `TwoOpen` about postponing under two
dialogs, `NothingLost` about what was passed. A list is generated (`GeneratedOk`),
merged (`MergedOk`), changed (`ChangedFit`), or put into effect: `PassInv` is what
a pass has come to after the i-th instance, `StepInv` that the next one keeps it,
and `PassOk` the induction over the list. The other dialogs hear of a pass in
three steps, each keeping their lists right (`OthersOk`). From `Inv`:
`TypeCorrect`, `RemindersComeLast` and `CreatedOnlyOnce` without conditions, and
`NoneIsForgotten`, which assumes no limit on the number of occurrences and a book
in a file, since it does not hold of the code otherwise.

Inductions over a list or over the size of a set are done by the least
counterexample (`UpTo` in `SxInstancesProofs`), for the provers cannot use the
library's induction rules. The generation and the passes are therefore written
with functions, recursive ones where need be, and not as RECURSIVE operators.

Only model-checked: the liveness properties `RetrySucceeds`, `TombstonesFreed`
and `CallsReturn`, which rest on fairness and are out of the prover's reach. Every
other property of a passing run is a theorem.

## 5. Plan

Proofs: all safety properties of the runs are proved. What could be added is a
second look at the conditions: which weaker ones `MutualExclusion` and the
theorems that assume `Solo` could do with.

Not modelled, and what would come next: lots and gains (assignment of splits to
lots during a commit), moving a split between transactions, the virtual devices
(whose threads no program of the repository but the tests starts). Numbers and
dates are arithmetic beyond TLC's reach; prices, string cache, queries, hooks, options and
kvp are sequential data structures; scores, kernels, register, importers,
reports, bindings and vendored code are presentation, numeric code or the
environment of what is modelled. `PROJECT.json` has the reason for each.
