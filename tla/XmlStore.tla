------------------------------ MODULE XmlStore ------------------------------
(***************************************************************************)
(* One XML data file and the GnuCash processes that open it:               *)
(* libgnucash/backend/xml/gnc-xml-backend.cpp below QofSession's begin,    *)
(* load, save and end (libgnucash/engine/qofsession.cpp).                  *)
(*                                                                         *)
(* A step is one system call that another process can see, together with   *)
(* the code that depends on its result; processes interleave between any   *)
(* two, a call may fail (MaxFaults times), and a process may die between   *)
(* any two (MaxCrashes times), leaving its lock file and its temporary     *)
(* file behind.  Loss of power, where the order in which the kernel        *)
(* writes to the medium matters, is not modelled (the code never syncs).   *)
(*                                                                         *)
(* The contents of a file are abstracted to a version number: every edit   *)
(* of a book in memory makes a new, higher version.                        *)
(***************************************************************************)
EXTENDS Naturals

CONSTANTS
    Procs,        \* the GnuCash processes
    Modes,        \* the SessionOpenModes they use
    Retention,    \* the file retention preference: "NONE", "DAYS", "FOREVER"
    HardLinks,    \* whether the file system has link(2); else files are copied
    ShortWrites,  \* whether write(2) may write less than it was given
    BreakLive,    \* whether SESSION_BREAK_LOCK is used against a live session
    MaxVersion,   \* bound: versions made
    MaxFaults,    \* bound: system calls that fail
    MaxCrashes    \* bound: processes that die

ASSUME StoreAssumption ==
    /\ Modes \subseteq {"NORMAL_OPEN", "NEW_STORE", "NEW_OVERWRITE",
                        "READ_ONLY", "BREAK_LOCK"}
    /\ Retention \in {"NONE", "DAYS", "FOREVER"}
    /\ HardLinks \in BOOLEAN /\ ShortWrites \in BOOLEAN /\ BreakLive \in BOOLEAN
    /\ MaxVersion \in Nat /\ MaxFaults \in Nat /\ MaxCrashes \in Nat

NoProc == "none"
ASSUME NoProcAssumption == NoProc \notin Procs

VARIABLES
    datafile,   \* what the data file holds
    backups,    \* what the dated backup files hold
    leftover,   \* what temporary files hold that no save will clean up
    lock,       \* the process that created the .LCK file, or NoProc
    pc,         \* where in the code a process is
    mode,       \* the SessionOpenMode of its session
    lockfile,   \* whether its backend's m_lockfile is set
    mem,        \* the version of its book
    dirty,      \* qof_book_session_not_saved of its book
    tmp,        \* what its temporary file holds
    last,       \* the last version made
    saved,      \* history: the last version a session was told is saved
    faults, crashes

disk  == <<datafile, backups, leftover, lock>>
vars  == <<datafile, backups, leftover, lock, pc, mode, lockfile, mem, dirty,
           tmp, last, saved, faults, crashes>>

\* Contents: no file, a file written in part, or the version it holds.
Absent  == 0
Partial == 1
First   == 2
Content == Nat
IsWhole(c) == c >= First

\* Where a process is: outside a session, in session_begin, before load,
\* idle in an open session, and in the steps of sync.
PCs == {"closed", "checked", "begun", "open", "backup", "opentmp", "writetmp",
        "unlink", "link", "copy", "cleanup", "expire"}
Saving == {"backup", "opentmp", "writetmp", "unlink", "link", "copy",
           "cleanup", "expire"}
Creating == {"NEW_STORE", "NEW_OVERWRITE"}

\* A live session with m_lockfile set takes itself for the owner of the lock.
Holds(p) == lockfile[p]

Init ==
    /\ datafile = Absent /\ backups = {} /\ leftover = {}
    /\ lock = NoProc
    /\ pc = [p \in Procs |-> "closed"]
    /\ mode = [p \in Procs |-> "NORMAL_OPEN"]
    /\ lockfile = [p \in Procs |-> FALSE]
    /\ mem = [p \in Procs |-> Absent]
    /\ dirty = [p \in Procs |-> FALSE]
    /\ tmp = [p \in Procs |-> Absent]
    /\ last = Partial /\ saved = Absent
    /\ faults = 0 /\ crashes = 0

Fault == faults < MaxFaults /\ faults' = faults + 1
NoFault == UNCHANGED faults

\* copy_file looks only for a write that fails: one that is short leaves part
\* of a file, and is taken for success.
ShortCopy == ShortWrites /\ ~HardLinks /\ Fault

Goto(p, where) == pc' = [pc EXCEPT ![p] = where]

\* The backend and the book are gone, and with them the process's own state.
Closed(p) ==
    /\ Goto(p, "closed")
    /\ mode' = [mode EXCEPT ![p] = "NORMAL_OPEN"]
    /\ lockfile' = [lockfile EXCEPT ![p] = FALSE]
    /\ mem' = [mem EXCEPT ![p] = Absent]
    /\ dirty' = [dirty EXCEPT ![p] = FALSE]
    /\ tmp' = [tmp EXCEPT ![p] = Absent]

-----------------------------------------------------------------------------
(* session_begin.                                                          *)

\* The checks before the lock: NEW_STORE is refused if there is a file
\* (save_may_clobber_data), a mode that opens if there is none (check_path).
\* Refusal posts an error and leaves the process where it was: no step.
PathAllows(m) ==
    CASE m = "NEW_STORE"     -> datafile = Absent
      [] m = "NEW_OVERWRITE" -> TRUE
      [] OTHER               -> datafile # Absent

BeginCheck(p, m) ==
    /\ pc[p] = "closed"
    /\ PathAllows(m)
    /\ Goto(p, "checked")
    /\ mode' = [mode EXCEPT ![p] = m]
    /\ UNCHANGED <<disk, lockfile, mem, dirty, tmp, last, saved, faults,
                   crashes>>

BeginReadOnly(p) ==
    /\ pc[p] = "checked" /\ mode[p] = "READ_ONLY"
    /\ Goto(p, "begun")
    /\ UNCHANGED <<disk, mode, lockfile, mem, dirty, tmp, last, saved, faults,
                   crashes>>

\* Whom the environment lets break a lock: see BreakLive.
MayBreak == BreakLive \/ \A q \in Procs : ~Holds(q)

\* get_file_lock: open with O_CREAT | O_EXCL ...
MutLockNotExclusive == TRUE
LockFree == lock = NoProc

GetLock(p) ==
    /\ pc[p] = "checked" /\ mode[p] # "READ_ONLY"
    /\ LockFree
    /\ lock' = p
    /\ lockfile' = [lockfile EXCEPT ![p] = TRUE]
    /\ Goto(p, "begun")
    /\ UNCHANGED <<datafile, backups, leftover, mode, mem, dirty, tmp, last,
                   saved, faults, crashes>>

\* ... and if there is a lock file, BREAK_LOCK goes on all the same: the file
\* is left as it is and m_lockfile stays set.
BreakLock(p) ==
    /\ pc[p] = "checked" /\ mode[p] = "BREAK_LOCK"
    /\ ~LockFree /\ MayBreak
    /\ lockfile' = [lockfile EXCEPT ![p] = TRUE]
    /\ Goto(p, "begun")
    /\ UNCHANGED <<disk, mode, mem, dirty, tmp, last, saved, faults, crashes>>

\* The lock file is there, or cannot be made: the error is posted, m_lockfile
\* cleared, and nobody else's lock is touched.
GetLockFails(p) ==
    /\ pc[p] = "checked" /\ mode[p] # "READ_ONLY"
    /\ \/ ~LockFree /\ NoFault
       \/ Fault
    /\ Closed(p)
    /\ UNCHANGED <<disk, last, saved, crashes>>

-----------------------------------------------------------------------------
(* load, and what the user does with an open session.                      *)

\* session_end unlinks the lock file by its name if m_lockfile is set, but not
\* for a read-only book, which is what a READ_ONLY session loads.
ReadOnlyBook(p) == mode[p] = "READ_ONLY"
LockAfterEnd(p) == IF lockfile[p] /\ ~ReadOnlyBook(p) THEN NoProc ELSE lock

NewVersion == last < MaxVersion /\ last' = last + 1

\* load reads a whole file, and the book is clean ...
Load(p) ==
    /\ pc[p] = "begun" /\ mode[p] \notin Creating
    /\ IsWhole(datafile)
    /\ mem' = [mem EXCEPT ![p] = datafile]
    /\ Goto(p, "open")
    /\ UNCHANGED <<disk, mode, lockfile, dirty, tmp, last, saved, faults,
                   crashes>>

\* ... or fails; QofSessionImpl::load then destroys the backend, whose
\* destructor ends the session.
LoadFails(p) ==
    /\ pc[p] = "begun" /\ mode[p] \notin Creating
    /\ \/ ~IsWhole(datafile) /\ NoFault
       \/ Fault
    /\ lock' = LockAfterEnd(p)
    /\ Closed(p)
    /\ UNCHANGED <<datafile, backups, leftover, last, saved, crashes>>

\* A session that creates its store brings the book of another session (Save
\* As swaps the books and marks the book dirty).
NewBook(p) ==
    /\ pc[p] = "begun" /\ mode[p] \in Creating
    /\ NewVersion
    /\ mem' = [mem EXCEPT ![p] = last + 1]
    /\ dirty' = [dirty EXCEPT ![p] = TRUE]
    /\ Goto(p, "open")
    /\ UNCHANGED <<disk, mode, lockfile, tmp, saved, faults, crashes>>

\* A book opened READ_ONLY is marked so, and is not edited.
Edit(p) ==
    /\ pc[p] = "open" /\ mode[p] # "READ_ONLY"
    /\ NewVersion
    /\ mem' = [mem EXCEPT ![p] = last + 1]
    /\ dirty' = [dirty EXCEPT ![p] = TRUE]
    /\ UNCHANGED <<disk, pc, mode, lockfile, tmp, saved, faults, crashes>>

End(p) ==
    /\ pc[p] = "open"
    /\ lock' = LockAfterEnd(p)
    /\ Closed(p)
    /\ UNCHANGED <<datafile, backups, leftover, last, saved, faults, crashes>>

-----------------------------------------------------------------------------
(* save: QofSessionImpl::save, then sync, which is write_to_file and       *)
(* remove_old_files, whether the first succeeded or not.                   *)

\* A book that is not dirty is not saved.
Save(p) ==
    /\ pc[p] = "open" /\ dirty[p]
    /\ Goto(p, "backup")
    /\ UNCHANGED <<disk, mode, lockfile, mem, dirty, tmp, last, saved, faults,
                   crashes>>

\* backup_file: link the data file to a dated name.  It fails too if that
\* name is taken: the date is in seconds.
MutNoBackup(p) ==
    /\ pc[p] = "backup"
    /\ Goto(p, "opentmp")
    /\ UNCHANGED <<disk, mode, lockfile, mem, dirty, tmp, last, saved, faults,
                   crashes>>
MutBackupNothing(p) ==
    /\ pc[p] = "backup"
    /\ backups' = backups \cup {datafile}
    /\ Goto(p, "opentmp")
    /\ UNCHANGED <<datafile, leftover, lock, mode, lockfile, mem, dirty, tmp,
                   last, saved, faults, crashes>>
Backup(p) ==
    /\ pc[p] = "backup"
    /\ \/ datafile = Absent /\ NoFault /\ UNCHANGED backups
       \/ datafile # Absent /\ NoFault /\ backups' = backups \cup {datafile}
       \/ datafile # Absent /\ ShortCopy /\ backups' = backups \cup {Partial}
    /\ Goto(p, "opentmp")
    /\ UNCHANGED <<datafile, leftover, lock, mode, lockfile, mem, dirty, tmp,
                   last, saved, crashes>>

\* A copy that fails may leave part of the file under the backup's name.
BackupFails(p) ==
    /\ pc[p] = "backup" /\ datafile # Absent
    /\ Fault
    /\ \/ UNCHANGED backups
       \/ ~HardLinks /\ backups' = backups \cup {Partial}
    /\ Goto(p, "expire")
    /\ UNCHANGED <<datafile, leftover, lock, mode, lockfile, mem, dirty, tmp,
                   last, saved, crashes>>

\* Leave write_to_file with an error; the temporary file stays behind.
MutFailRemovingTmp(p) ==
    /\ Goto(p, "expire")
    /\ tmp' = [tmp EXCEPT ![p] = Absent]
    /\ UNCHANGED leftover
FailLeavingTmp(p) ==
    /\ Goto(p, "expire")
    /\ leftover' = leftover \cup {tmp[p]}
    /\ tmp' = [tmp EXCEPT ![p] = Absent]

OpenTmp(p) ==
    /\ pc[p] = "opentmp"
    /\ \/ /\ tmp' = [tmp EXCEPT ![p] = Partial]
          /\ Goto(p, "writetmp")
          /\ NoFault
       \/ Fault /\ Goto(p, "expire") /\ UNCHANGED tmp
    /\ UNCHANGED <<disk, mode, lockfile, mem, dirty, last, saved, crashes>>

WriteTmp(p) ==
    /\ pc[p] = "writetmp"
    /\ tmp' = [tmp EXCEPT ![p] = mem[p]]
    /\ Goto(p, "unlink")
    /\ UNCHANGED <<disk, mode, lockfile, mem, dirty, last, saved, faults,
                   crashes>>

\* Writing fails; the temporary file is unlinked, and that may fail too.
WriteTmpFails(p) ==
    /\ pc[p] = "writetmp"
    /\ Fault
    /\ \/ /\ tmp' = [tmp EXCEPT ![p] = Absent]
          /\ Goto(p, "expire")
          /\ UNCHANGED leftover
       \/ FailLeavingTmp(p)
    /\ UNCHANGED <<datafile, backups, lock, mode, lockfile, mem, dirty, last,
                   saved, crashes>>

\* unlink(datafile); that there is none (ENOENT) is no error.
MutNoFileIsAnError(p) ==
    /\ pc[p] = "unlink"
    /\ \/ /\ datafile # Absent /\ datafile' = Absent
          /\ Goto(p, "link")
          /\ NoFault /\ UNCHANGED <<tmp, leftover>>
       \/ datafile = Absent /\ NoFault /\ FailLeavingTmp(p) /\ UNCHANGED datafile
    /\ UNCHANGED <<backups, lock, mode, lockfile, mem, dirty, last, saved,
                   crashes>>
Unlink(p) ==
    /\ pc[p] = "unlink"
    /\ \/ /\ datafile' = Absent
          /\ Goto(p, "link")
          /\ NoFault /\ UNCHANGED <<tmp, leftover>>
       \/ Fault /\ FailLeavingTmp(p) /\ UNCHANGED datafile
    /\ UNCHANGED <<backups, lock, mode, lockfile, mem, dirty, last, saved,
                   crashes>>

\* link_or_make_backup(tmp, datafile): link(2) in one step, or a copy in two.
\* Both refuse to replace a file.
Link(p) ==
    /\ pc[p] = "link" /\ datafile = Absent
    /\ \/ HardLinks /\ datafile' = tmp[p] /\ Goto(p, "cleanup")
       \/ ~HardLinks /\ datafile' = Partial /\ Goto(p, "copy")
    /\ UNCHANGED <<backups, leftover, lock, mode, lockfile, mem, dirty, tmp,
                   last, saved, faults, crashes>>

Copied(p) ==
    /\ pc[p] = "copy"
    /\ \/ datafile' = tmp[p] /\ NoFault
       \/ datafile' = Partial /\ ShortCopy
    /\ Goto(p, "cleanup")
    /\ UNCHANGED <<backups, leftover, lock, mode, lockfile, mem, dirty, tmp,
                   last, saved, crashes>>

LinkFails(p) ==
    /\ pc[p] \in {"link", "copy"}
    /\ \/ pc[p] = "link" /\ datafile # Absent /\ NoFault
       \/ Fault
    /\ FailLeavingTmp(p)
    /\ UNCHANGED <<datafile, backups, lock, mode, lockfile, mem, dirty, last,
                   saved, crashes>>

\* unlink(tmp); only then is the book marked saved.
Cleanup(p) ==
    /\ pc[p] = "cleanup"
    /\ \/ /\ tmp' = [tmp EXCEPT ![p] = Absent]
          /\ dirty' = [dirty EXCEPT ![p] = FALSE]
          /\ saved' = mem[p]
          /\ Goto(p, "expire")
          /\ NoFault /\ UNCHANGED leftover
       \/ Fault /\ FailLeavingTmp(p) /\ UNCHANGED <<dirty, saved>>
    /\ UNCHANGED <<datafile, backups, lock, mode, lockfile, mem, last,
                   crashes>>

\* remove_old_files: nothing without a lock file.  A backup's age is the time
\* its contents were written, so "DAYS" may remove any of them.
Kept ==
    CASE lock = NoProc         -> {backups}
      [] Retention = "NONE"    -> {{}}
      [] Retention = "DAYS"    -> SUBSET backups
      [] Retention = "FOREVER" -> {backups}

MutAlwaysMarkSaved(p) ==
    /\ pc[p] = "expire"
    /\ backups' \in Kept
    /\ dirty' = [dirty EXCEPT ![p] = FALSE]
    /\ Goto(p, "open")
    /\ UNCHANGED <<datafile, leftover, lock, mode, lockfile, mem, tmp, last,
                   saved, faults, crashes>>
Expire(p) ==
    /\ pc[p] = "expire"
    /\ backups' \in Kept
    /\ Goto(p, "open")
    /\ UNCHANGED <<datafile, leftover, lock, mode, lockfile, mem, dirty, tmp,
                   last, saved, faults, crashes>>

-----------------------------------------------------------------------------

Crash(p) ==
    /\ pc[p] # "closed"
    /\ crashes < MaxCrashes /\ crashes' = crashes + 1
    /\ leftover' = leftover \cup ({tmp[p]} \ {Absent})
    /\ Closed(p)
    /\ UNCHANGED <<datafile, backups, lock, last, saved, faults>>

\* The steps a save goes through once it is begun.
SaveStep(p) ==
    \/ Backup(p) \/ BackupFails(p) \/ OpenTmp(p) \/ WriteTmp(p)
    \/ WriteTmpFails(p) \/ Unlink(p) \/ Link(p) \/ Copied(p) \/ LinkFails(p)
    \/ Cleanup(p) \/ Expire(p)

Next == \E p \in Procs :
    \/ \E m \in Modes : BeginCheck(p, m)
    \/ BeginReadOnly(p) \/ GetLock(p) \/ BreakLock(p) \/ GetLockFails(p)
    \/ Load(p) \/ LoadFails(p) \/ NewBook(p) \/ Edit(p) \/ End(p)
    \/ Save(p) \/ SaveStep(p)
    \/ Crash(p)

\* A process that runs finishes the save it has begun, and a user with unsaved
\* changes saves, again if need be.
Fairness == \A p \in Procs : WF_vars(SaveStep(p)) /\ WF_vars(Save(p))

Spec == Init /\ [][Next]_vars
FairSpec == Spec /\ Fairness

-----------------------------------------------------------------------------
(* Properties.                                                             *)

TypeOK ==
    /\ datafile \in Content /\ backups \subseteq Content \ {Absent}
    /\ leftover \subseteq Content
    /\ lock \in Procs \cup {NoProc}
    /\ pc \in [Procs -> PCs]
    /\ mode \in [Procs -> Modes \cup {"NORMAL_OPEN"}]
    /\ lockfile \in [Procs -> BOOLEAN] /\ dirty \in [Procs -> BOOLEAN]
    /\ mem \in [Procs -> Content] /\ tmp \in [Procs -> Content]
    /\ last \in Nat /\ saved \in Nat /\ faults \in Nat /\ crashes \in Nat

\* At most one live session takes itself for the owner of the data file's
\* lock, and the lock file is there as long as it does: nobody else's end,
\* failed attempt or crash takes it away.
LockExclusive ==
    \A p \in Procs : Holds(p) =>
        /\ lock # NoProc
        /\ \A q \in Procs : Holds(q) => p = q

\* A session whose book says there is nothing to save has the data file's
\* contents in memory: "Since we successfully saved the book, we should mark it
\* clean", as a comment in write_to_file has it.
CleanMeansStored ==
    \A p \in Procs :
        Holds(p) /\ pc[p] = "open" /\ ~dirty[p] => datafile = mem[p]

\* Every file that could be recovered by hand.
OnDisk == {datafile} \cup backups \cup leftover \cup {tmp[p] : p \in Procs}

\* What a session was told is saved is on the disk in some whole file, that
\* version or a later one, at every point of a later save, whatever call
\* fails in it, wherever the process dies, whatever backups are kept.
SavedSurvives ==
    saved # Absent => \E c \in OnDisk : IsWhole(c) /\ c >= saved

\* With backups kept, a file that GnuCash offers to open (the data file or a
\* dated backup, not a temporary file) holds it.
SavedSurvivesByName ==
    saved # Absent =>
        \E c \in {datafile} \cup backups : IsWhole(c) /\ c >= saved

\* A failed save does not stand in the way of later ones: a user who has
\* changes and goes on saving gets them saved (or the session ends).
RetrySucceeds ==
    \A p \in Procs :
        pc[p] = "open" /\ dirty[p] ~> pc[p] \in {"open", "closed"} /\ ~dirty[p]

\* The newest version found on the disk.
Newest ==
    LET whole == {c \in OnDisk : IsWhole(c)}
    IN  IF whole = {} THEN Absent
        ELSE CHOOSE c \in whole : \A d \in whole : d <= c

\* As long as the data file is whole, what is stored is what it holds; while it
\* is not, the newest version on the disk.
Stored == IF IsWhole(datafile) THEN datafile ELSE Newest

\* A save is atomic.
Atomic == INSTANCE AtomicStore WITH
    None <- Absent, store <- Stored, working <- mem
SavesAreAtomic == Atomic!Spec

\* Two promises the code does not keep (see the README); no run checks them.

\* qofsession.h says of SESSION_NEW_STORE that it "will fail if the store
\* already exists and is found to contain data that would be overwritten".
NewStoreIsNew ==
    \A p \in Procs :
        pc[p] = "begun" /\ mode[p] = "NEW_STORE" => ~IsWhole(datafile)

\* qofsession.h says of SESSION_BREAK_LOCK "if there is already a lock replace
\* it with a new one for this session": a session that has begun owns the lock
\* file that it will remove.
BegunOwnsLock ==
    \A p \in Procs : pc[p] = "begun" /\ Holds(p) => lock = p
=============================================================================
