--------------------------- MODULE XmlStoreProofs ---------------------------
(***************************************************************************)
(* The locking of the XML data file, what a save keeps on the disk, and    *)
(* that it is atomic, for any number of processes, faults and crashes.     *)
(*                                                                         *)
(* Given types, LockExclusive is inductive.  On it rests BeliefInv, what a *)
(* session knows of the data file and of its temporary file by where it is *)
(* in the code: only the owner of the lock writes the data file.  The rest *)
(* follows, each from an invariant of its own: VersionInv, TmpInv and      *)
(* KeptInv for what survives, NameInv for what survives under a name, and  *)
(* AtomicInv for the refinement of AtomicStore.                            *)
(***************************************************************************)
EXTENDS XmlStore, TLAPS, WellFoundedInduction

LEMMA InitTypeOK == Init => TypeOK
BY StoreAssumption
   DEF Init, TypeOK, Content, PCs, Absent, Partial

\* A step that gives up with the temporary file left behind keeps the types of
\* what it changes.
LEMMA FailLeavingTmpTypes ==
    ASSUME TypeOK, NEW p \in Procs, FailLeavingTmp(p)
    PROVE  /\ pc' \in [Procs -> PCs]
           /\ leftover' \subseteq Content
           /\ tmp' \in [Procs -> Content]
<1>1. pc' \in [Procs -> PCs]
    BY DEF TypeOK, FailLeavingTmp, Goto, PCs
<1>2. leftover' \subseteq Content
    <2>1. tmp[p] \in Content
        BY DEF TypeOK
    <2> QED BY <2>1 DEF TypeOK, FailLeavingTmp
<1>3. tmp' \in [Procs -> Content]
    BY DEF TypeOK, FailLeavingTmp, Content, Absent
<1> QED BY <1>1, <1>2, <1>3

LEMMA NextTypeOK == TypeOK /\ [Next]_vars => TypeOK'
<1> SUFFICES ASSUME TypeOK, [Next]_vars PROVE TypeOK'
    OBVIOUS
<1> USE StoreAssumption DEF TypeOK, Content, PCs, Absent, Partial, disk, Goto,
                            NoFault, Fault, Closed
<1>1. ASSUME NEW p \in Procs, NEW m \in Modes, BeginCheck(p, m) PROVE TypeOK'
    BY <1>1 DEF BeginCheck
<1>2. ASSUME NEW p \in Procs, BeginReadOnly(p) PROVE TypeOK'
    BY <1>2 DEF BeginReadOnly
<1>3. ASSUME NEW p \in Procs, GetLock(p) PROVE TypeOK'
    BY <1>3 DEF GetLock
<1>4. ASSUME NEW p \in Procs, BreakLock(p) PROVE TypeOK'
    BY <1>4 DEF BreakLock
<1>5. ASSUME NEW p \in Procs, GetLockFails(p) PROVE TypeOK'
    BY <1>5 DEF GetLockFails
<1>6. ASSUME NEW p \in Procs, Load(p) PROVE TypeOK'
    BY <1>6 DEF Load
<1>7. ASSUME NEW p \in Procs, LoadFails(p) PROVE TypeOK'
    BY <1>7 DEF LoadFails, LockAfterEnd
<1>8. ASSUME NEW p \in Procs, NewBook(p) PROVE TypeOK'
    BY <1>8 DEF NewBook, NewVersion
<1>9. ASSUME NEW p \in Procs, Edit(p) PROVE TypeOK'
    BY <1>9 DEF Edit, NewVersion
<1>10. ASSUME NEW p \in Procs, End(p) PROVE TypeOK'
    BY <1>10 DEF End, LockAfterEnd
<1>11. ASSUME NEW p \in Procs, Save(p) PROVE TypeOK'
    BY <1>11 DEF Save
<1>12. ASSUME NEW p \in Procs, Backup(p) PROVE TypeOK'
    <2>1. faults' \in Nat
        BY <1>12 DEF Backup, ShortCopy
    <2>2. backups' \subseteq Content \ {Absent}
        <3>1. CASE UNCHANGED backups
            BY <3>1
        <3>2. CASE datafile # Absent /\ backups' = backups \cup {datafile}
            BY <3>2
        <3>3. CASE backups' = backups \cup {Partial}
            BY <3>3
        <3> QED BY <1>12, <3>1, <3>2, <3>3 DEF Backup
    <2> QED BY <1>12, <2>1, <2>2 DEF Backup
<1>13. ASSUME NEW p \in Procs, BackupFails(p) PROVE TypeOK'
    <2>1. CASE UNCHANGED backups
        BY <1>13, <2>1 DEF BackupFails
    <2>2. CASE backups' = backups \cup {Partial}
        BY <1>13, <2>2 DEF BackupFails
    <2> QED BY <1>13, <2>1, <2>2 DEF BackupFails
<1>14. ASSUME NEW p \in Procs, OpenTmp(p) PROVE TypeOK'
    BY <1>14 DEF OpenTmp
<1>15. ASSUME NEW p \in Procs, WriteTmp(p) PROVE TypeOK'
    BY <1>15 DEF WriteTmp
<1>16. ASSUME NEW p \in Procs, WriteTmpFails(p) PROVE TypeOK'
    <2>1. CASE FailLeavingTmp(p)
        BY <1>16, <2>1, FailLeavingTmpTypes DEF WriteTmpFails
    <2>2. CASE /\ tmp' = [tmp EXCEPT ![p] = Absent]
               /\ Goto(p, "expire")
               /\ UNCHANGED leftover
        BY <1>16, <2>2 DEF WriteTmpFails
    <2> QED BY <1>16, <2>1, <2>2 DEF WriteTmpFails
<1>17. ASSUME NEW p \in Procs, Unlink(p) PROVE TypeOK'
    <2>1. CASE FailLeavingTmp(p) /\ Fault /\ UNCHANGED datafile
        BY <1>17, <2>1, FailLeavingTmpTypes DEF Unlink
    <2>2. CASE /\ datafile' = Absent
               /\ Goto(p, "link")
               /\ NoFault /\ UNCHANGED <<tmp, leftover>>
        BY <1>17, <2>2 DEF Unlink
    <2> QED BY <1>17, <2>1, <2>2 DEF Unlink
<1>18. ASSUME NEW p \in Procs, Link(p) PROVE TypeOK'
    BY <1>18 DEF Link
<1>19. ASSUME NEW p \in Procs, Copied(p) PROVE TypeOK'
    <2>1. datafile' \in Content /\ faults' \in Nat
        BY <1>19 DEF Copied, ShortCopy
    <2> QED BY <1>19, <2>1 DEF Copied
<1>20. ASSUME NEW p \in Procs, LinkFails(p) PROVE TypeOK'
    BY <1>20, FailLeavingTmpTypes DEF LinkFails
<1>21. ASSUME NEW p \in Procs, Cleanup(p) PROVE TypeOK'
    <2>1. CASE FailLeavingTmp(p) /\ Fault /\ UNCHANGED <<dirty, saved>>
        BY <1>21, <2>1, FailLeavingTmpTypes DEF Cleanup
    <2>2. CASE /\ tmp' = [tmp EXCEPT ![p] = Absent]
               /\ dirty' = [dirty EXCEPT ![p] = FALSE]
               /\ saved' = mem[p]
               /\ Goto(p, "expire")
               /\ NoFault /\ UNCHANGED leftover
        BY <1>21, <2>2 DEF Cleanup
    <2> QED BY <1>21, <2>1, <2>2 DEF Cleanup
<1>22. ASSUME NEW p \in Procs, Expire(p) PROVE TypeOK'
    BY <1>22 DEF Expire, Kept
<1>23. ASSUME NEW p \in Procs, Crash(p) PROVE TypeOK'
    <2>1. leftover' \subseteq Content
        <3>1. tmp[p] \in Content
            OBVIOUS
        <3> QED BY <1>23, <3>1 DEF Crash
    <2> QED BY <1>23, <2>1 DEF Crash
<1>24. CASE UNCHANGED vars
    BY <1>24 DEF vars
<1> QED
    BY <1>1, <1>2, <1>3, <1>4, <1>5, <1>6, <1>7, <1>8, <1>9, <1>10, <1>11,
       <1>12, <1>13, <1>14, <1>15, <1>16, <1>17, <1>18, <1>19, <1>20, <1>21,
       <1>22, <1>23, <1>24 DEF Next, SaveStep

\* The disk and the processes keep their types.
THEOREM TypeCorrect == Spec => []TypeOK
BY InitTypeOK, NextTypeOK, PTL DEF Spec

-----------------------------------------------------------------------------
(* Mutual exclusion.  LockExclusive is inductive by itself, given types.   *)

\* Taking the lock: nobody has it before.
LEMMA AcquireExclusive ==
    ASSUME ~BreakLive, TypeOK, LockExclusive, NEW p \in Procs,
           GetLock(p) \/ BreakLock(p)
    PROVE  LockExclusive'
<1>1. \A q \in Procs : ~lockfile[q]
    <2>1. CASE GetLock(p)
        BY <2>1 DEF GetLock, LockFree, LockExclusive, Holds
    <2>2. CASE BreakLock(p)
        BY <2>2 DEF BreakLock, MayBreak, Holds
    <2> QED BY <2>1, <2>2
<1>2. lockfile' = [lockfile EXCEPT ![p] = TRUE]
    BY DEF GetLock, BreakLock
<1>3. lock' # NoProc
    <2>1. CASE GetLock(p)
        BY <2>1, NoProcAssumption DEF GetLock
    <2>2. CASE BreakLock(p)
        BY <2>2 DEF BreakLock, LockFree, disk
    <2> QED BY <2>1, <2>2
<1> QED BY <1>1, <1>2, <1>3 DEF LockExclusive, Holds, TypeOK

\* Ending a session, or failing to begin one, removes one's own lock only.
LEMMA ReleaseExclusive ==
    ASSUME TypeOK, LockExclusive, NEW p \in Procs,
           GetLockFails(p) \/ LoadFails(p) \/ End(p) \/ Crash(p)
    PROVE  LockExclusive'
<1>1. lockfile' = [lockfile EXCEPT ![p] = FALSE]
    BY DEF GetLockFails, LoadFails, End, Crash, Closed
<1>2. \/ lock' = lock
      \/ lockfile[p]
    BY DEF GetLockFails, LoadFails, End, Crash, LockAfterEnd, disk
<1> QED BY <1>1, <1>2 DEF LockExclusive, Holds, TypeOK

\* All other steps leave the lock file and m_lockfile alone.
LEMMA OthersExclusive ==
    ASSUME NEW p \in Procs,
           \/ \E m \in Modes : BeginCheck(p, m)
           \/ BeginReadOnly(p) \/ Load(p) \/ NewBook(p) \/ Edit(p) \/ Save(p)
           \/ SaveStep(p)
    PROVE  UNCHANGED <<lock, lockfile>>
BY DEF BeginCheck, BeginReadOnly, Load, NewBook, Edit, Save, SaveStep, Backup,
       BackupFails, OpenTmp, WriteTmp, WriteTmpFails, Unlink, Link, Copied,
       LinkFails, Cleanup, Expire, disk

LEMMA NextExclusive ==
    ASSUME ~BreakLive, TypeOK, LockExclusive, [Next]_vars
    PROVE  LockExclusive'
<1>1. ASSUME NEW p \in Procs, GetLock(p) \/ BreakLock(p) PROVE LockExclusive'
    BY <1>1, AcquireExclusive
<1>2. ASSUME NEW p \in Procs,
             GetLockFails(p) \/ LoadFails(p) \/ End(p) \/ Crash(p)
      PROVE  LockExclusive'
    BY <1>2, ReleaseExclusive
<1>3. CASE UNCHANGED <<lock, lockfile>>
    BY <1>3 DEF LockExclusive, Holds
<1>4. CASE UNCHANGED vars
    BY <1>3, <1>4 DEF vars
<1> QED BY <1>1, <1>2, <1>3, <1>4, OthersExclusive DEF Next

\* If locks are broken only when no live session holds them, at most one live
\* session owns the data file, through every failure and crash.
THEOREM MutualExclusion == ~BreakLive => (Spec => []LockExclusive)
<1> SUFFICES ASSUME ~BreakLive PROVE Spec => []LockExclusive
    OBVIOUS
<1>1. Init => LockExclusive
    BY DEF Init, LockExclusive, Holds
<1>2. TypeOK /\ LockExclusive /\ [Next]_vars => LockExclusive'
    BY NextExclusive
<1> QED BY <1>1, <1>2, TypeCorrect, PTL DEF Spec

-----------------------------------------------------------------------------
(* What a session believes of the data file.                               *)

\* Which steps a session with the lock, or without it, can be in, and what it
\* knows of its temporary file and of the data file there.
Discipline ==
    \A p \in Procs :
        /\ dirty[p] => lockfile[p]
        /\ pc[p] \in {"closed", "checked"} => ~lockfile[p]
        /\ pc[p] = "begun" => ~dirty[p]
        /\ pc[p] \in Saving \ {"expire"} => dirty[p]
        /\ pc[p] = "expire" => lockfile[p]
        /\ pc[p] \in {"begun", "open"} /\ ~lockfile[p] => mode[p] = "READ_ONLY"
        /\ pc[p] \in {"unlink", "link", "copy", "cleanup"} => tmp[p] = mem[p]
        /\ pc[p] = "cleanup" => datafile = mem[p]

CleanInv ==
    \A p \in Procs :
        lockfile[p] /\ pc[p] \in {"open", "expire"} /\ ~dirty[p] =>
            datafile = mem[p]

BeliefInv == LockExclusive /\ Discipline /\ CleanInv

\* A session that writes the data file has the lock: nobody else's belief
\* about the file is at stake.
LEMMA WriterHolds ==
    ASSUME BeliefInv, NEW p \in Procs, pc[p] \in Saving \ {"expire"},
           NEW q \in Procs, q # p
    PROVE  ~lockfile[q] /\ ~dirty[q] /\ pc[q] \notin Saving
BY DEF BeliefInv, LockExclusive, Discipline, Holds

LEMMA NextBelief ==
    ASSUME ~BreakLive, ~ShortWrites, TypeOK, BeliefInv, [Next]_vars
    PROVE  BeliefInv'
<1>1. LockExclusive'
    BY NextExclusive DEF BeliefInv
<1> SUFFICES Discipline' /\ CleanInv'
    BY <1>1 DEF BeliefInv
<1> USE DEF BeliefInv, Discipline, CleanInv, TypeOK, disk, Goto, Closed,
            Saving
<1>2. ASSUME NEW p \in Procs, NEW m \in Modes, BeginCheck(p, m)
      PROVE  Discipline' /\ CleanInv'
    BY <1>2 DEF BeginCheck
<1>3. ASSUME NEW p \in Procs, BeginReadOnly(p) PROVE Discipline' /\ CleanInv'
    BY <1>3 DEF BeginReadOnly
<1>4. ASSUME NEW p \in Procs, GetLock(p) PROVE Discipline' /\ CleanInv'
    BY <1>4 DEF GetLock
<1>5. ASSUME NEW p \in Procs, BreakLock(p) PROVE Discipline' /\ CleanInv'
    BY <1>5 DEF BreakLock
<1>6. ASSUME NEW p \in Procs, GetLockFails(p) \/ LoadFails(p) \/ End(p) \/ Crash(p)
      PROVE  Discipline' /\ CleanInv'
    BY <1>6 DEF GetLockFails, LoadFails, End, Crash
<1>7. ASSUME NEW p \in Procs, Load(p) PROVE Discipline' /\ CleanInv'
    BY <1>7 DEF Load
<1>8. ASSUME NEW p \in Procs, NewBook(p) PROVE Discipline' /\ CleanInv'
    BY <1>8 DEF NewBook, Creating
<1>9. ASSUME NEW p \in Procs, Edit(p) PROVE Discipline' /\ CleanInv'
    BY <1>9 DEF Edit
<1>10. ASSUME NEW p \in Procs, Save(p) PROVE Discipline' /\ CleanInv'
    BY <1>10 DEF Save
<1>11. ASSUME NEW p \in Procs, Backup(p) \/ BackupFails(p)
       PROVE  Discipline' /\ CleanInv'
    BY <1>11 DEF Backup, BackupFails
<1>12. ASSUME NEW p \in Procs, OpenTmp(p) PROVE Discipline' /\ CleanInv'
    BY <1>12 DEF OpenTmp
<1>13. ASSUME NEW p \in Procs, WriteTmp(p) PROVE Discipline' /\ CleanInv'
    BY <1>13 DEF WriteTmp
<1>14. ASSUME NEW p \in Procs, WriteTmpFails(p)
       PROVE  Discipline' /\ CleanInv'
    BY <1>14 DEF WriteTmpFails, FailLeavingTmp
<1>15. ASSUME NEW p \in Procs, Unlink(p) PROVE Discipline' /\ CleanInv'
    BY <1>15, WriterHolds DEF Unlink, FailLeavingTmp
<1>16. ASSUME NEW p \in Procs, Link(p) PROVE Discipline' /\ CleanInv'
    BY <1>16, WriterHolds DEF Link
<1>17. ASSUME NEW p \in Procs, Copied(p) PROVE Discipline' /\ CleanInv'
    BY <1>17, WriterHolds DEF Copied, ShortCopy
<1>18. ASSUME NEW p \in Procs, LinkFails(p) PROVE Discipline' /\ CleanInv'
    BY <1>18 DEF LinkFails, FailLeavingTmp
<1>19. ASSUME NEW p \in Procs, Cleanup(p) PROVE Discipline' /\ CleanInv'
    BY <1>19 DEF Cleanup, FailLeavingTmp
<1>20. ASSUME NEW p \in Procs, Expire(p) PROVE Discipline' /\ CleanInv'
    BY <1>20 DEF Expire
<1>21. CASE UNCHANGED vars
    BY <1>21 DEF vars
<1> QED
    BY <1>2, <1>3, <1>4, <1>5, <1>6, <1>7, <1>8, <1>9, <1>10, <1>11, <1>12,
       <1>13, <1>14, <1>15, <1>16, <1>17, <1>18, <1>19, <1>20, <1>21
       DEF Next, SaveStep

\* If locks are broken only when no live session holds them, and write(2) writes
\* all it is given, a book that is not dirty is the book in the data file: no failed call, crash or other
\* process lets a session believe its work is stored when it is not.
THEOREM CleanIsStored ==
    ~BreakLive /\ ~ShortWrites => (Spec => []CleanMeansStored)
<1> SUFFICES ASSUME ~BreakLive, ~ShortWrites PROVE Spec => []CleanMeansStored
    OBVIOUS
<1>1. Init => BeliefInv
    BY DEF Init, BeliefInv, LockExclusive, Holds, Discipline, CleanInv, Saving
<1>2. TypeOK /\ BeliefInv /\ [Next]_vars => BeliefInv'
    BY NextBelief
<1>3. BeliefInv => CleanMeansStored
    BY DEF BeliefInv, CleanInv, CleanMeansStored, Holds
<1> QED BY <1>1, <1>2, <1>3, TypeCorrect, PTL DEF Spec

-----------------------------------------------------------------------------
(* What is saved stays on the disk.                                        *)

\* Versions only grow, and a book with unsaved changes is the last version.
VersionInv ==
    /\ saved <= last /\ last >= Partial
    /\ \A p \in Procs : dirty[p] => mem[p] = last /\ IsWhole(last)

\* When a process has a temporary file.
TmpInv ==
    \A p \in Procs :
        /\ pc[p] \notin {"writetmp", "unlink", "link", "copy", "cleanup"} =>
              tmp[p] = Absent
        /\ pc[p] = "writetmp" => tmp[p] = Partial

\* A whole copy of what was saved, or of something later.
Good(c) == IsWhole(c) /\ c >= saved

\* There is one, and it is none of those remove_old_files may remove.
KeptInv ==
    saved # Absent =>
        \/ Good(datafile)
        \/ \E c \in leftover : Good(c)
        \/ \E p \in Procs : Good(tmp[p])

DurableInv == VersionInv /\ TmpInv /\ KeptInv

LEMMA NextVersion ==
    ASSUME TypeOK, BeliefInv, VersionInv, [Next]_vars
    PROVE  VersionInv'
<1> USE DEF VersionInv, TypeOK, IsWhole, First, Partial, Content
<1>1. ASSUME NEW p \in Procs, NewBook(p) \/ Edit(p) PROVE VersionInv'
    <2>1. last' = last + 1 /\ saved' = saved
          /\ mem' = [mem EXCEPT ![p] = last + 1]
          /\ dirty' = [dirty EXCEPT ![p] = TRUE]
        BY <1>1 DEF NewBook, Edit, NewVersion
    <2>2. \A q \in Procs : q # p => ~dirty[q]
        <3>1. pc[p] \in {"begun", "open"} /\ mode[p] # "READ_ONLY"
            BY <1>1 DEF NewBook, Edit, Creating
        <3>2. lockfile[p]
            BY <3>1 DEF BeliefInv, Discipline
        <3> QED BY <3>2 DEF BeliefInv, Discipline, LockExclusive, Holds
    <2> QED BY <2>1, <2>2
<1>2. ASSUME NEW p \in Procs, Cleanup(p) PROVE VersionInv'
    <2>1. dirty[p]
        BY <1>2 DEF Cleanup, BeliefInv, Discipline, Saving
    <2> QED BY <1>2, <2>1 DEF Cleanup
<1>3. ASSUME NEW p \in Procs, Load(p) PROVE VersionInv'
    <2>1. ~dirty[p]
        BY <1>3 DEF Load, BeliefInv, Discipline
    <2> QED BY <1>3, <2>1 DEF Load
<1>4. ASSUME NEW p \in Procs,
             GetLockFails(p) \/ LoadFails(p) \/ End(p) \/ Crash(p)
      PROVE  VersionInv'
    BY <1>4 DEF GetLockFails, LoadFails, End, Crash, Closed
<1>5. ASSUME NEW p \in Procs,
             \/ \E m \in Modes : BeginCheck(p, m)
             \/ BeginReadOnly(p) \/ GetLock(p) \/ BreakLock(p) \/ Save(p)
             \/ Backup(p) \/ BackupFails(p) \/ OpenTmp(p) \/ WriteTmp(p)
             \/ WriteTmpFails(p) \/ Unlink(p) \/ Link(p) \/ Copied(p)
             \/ LinkFails(p) \/ Expire(p)
      PROVE  UNCHANGED <<saved, last, mem, dirty>>
    BY <1>5 DEF BeginCheck, BeginReadOnly, GetLock, BreakLock, Save, Backup,
       BackupFails, OpenTmp, WriteTmp, WriteTmpFails, Unlink, Link, Copied,
       LinkFails, Expire
<1>6. CASE UNCHANGED <<saved, last, mem, dirty>>
    BY <1>6
<1>7. CASE UNCHANGED vars
    BY <1>6, <1>7 DEF vars
<1> QED BY <1>1, <1>2, <1>3, <1>4, <1>5, <1>6, <1>7 DEF Next, SaveStep

LEMMA NextTmp == ASSUME TypeOK, TmpInv, [Next]_vars PROVE TmpInv'
<1> USE DEF TypeOK, TmpInv, Goto
<1>1. ASSUME NEW p \in Procs,
             GetLockFails(p) \/ LoadFails(p) \/ End(p) \/ Crash(p)
      PROVE  TmpInv'
    BY <1>1 DEF GetLockFails, LoadFails, End, Crash, Closed
<1>2. ASSUME NEW p \in Procs, NEW m \in Modes, BeginCheck(p, m) PROVE TmpInv'
    BY <1>2 DEF BeginCheck
<1>3. ASSUME NEW p \in Procs,
             \/ BeginReadOnly(p) \/ GetLock(p) \/ BreakLock(p) \/ Load(p)
             \/ NewBook(p) \/ Edit(p) \/ Save(p)
      PROVE  TmpInv'
    BY <1>3 DEF BeginReadOnly, GetLock, BreakLock, Load, NewBook, Edit, Save
<1>4. ASSUME NEW p \in Procs, Backup(p) \/ BackupFails(p) \/ Expire(p)
      PROVE  TmpInv'
    BY <1>4 DEF Backup, BackupFails, Expire
<1>5. ASSUME NEW p \in Procs, OpenTmp(p) \/ WriteTmp(p) PROVE TmpInv'
    BY <1>5 DEF OpenTmp, WriteTmp
<1>6. ASSUME NEW p \in Procs, FailLeavingTmp(p) PROVE TmpInv'
    BY <1>6 DEF FailLeavingTmp
<1>7. ASSUME NEW p \in Procs,
             WriteTmpFails(p) \/ Unlink(p) \/ LinkFails(p) \/ Cleanup(p)
      PROVE  TmpInv'
    BY <1>6, <1>7 DEF WriteTmpFails, Unlink, LinkFails, Cleanup
<1>8. ASSUME NEW p \in Procs, Link(p) \/ Copied(p) PROVE TmpInv'
    BY <1>8 DEF Link, Copied
<1>9. CASE UNCHANGED vars
    BY <1>9 DEF vars
<1> QED BY <1>1, <1>2, <1>3, <1>4, <1>5, <1>7, <1>8, <1>9 DEF Next, SaveStep

LEMMA NextKept ==
    ASSUME TypeOK, BeliefInv, VersionInv, TmpInv, KeptInv, [Next]_vars
    PROVE  KeptInv'
<1> SUFFICES ASSUME saved' # Absent PROVE KeptInv'
    BY DEF KeptInv
<1> USE DEF KeptInv, Good, IsWhole, First, TypeOK, Content
\* Where the temporary file holds the book in memory, it is a good copy.
<1>1. ASSUME NEW p \in Procs, pc[p] \in {"unlink", "link", "copy", "cleanup"}
      PROVE  tmp[p] = mem[p] /\ Good(tmp[p]) /\ Good(mem[p])
    BY <1>1 DEF BeliefInv, Discipline, VersionInv, Saving
<1>2. ASSUME NEW p \in Procs, FailLeavingTmp(p),
             UNCHANGED <<datafile, saved>>
      PROVE  KeptInv'
    BY <1>2 DEF FailLeavingTmp
<1>3. ASSUME NEW p \in Procs, GetLockFails(p) \/ LoadFails(p) \/ End(p)
      PROVE  KeptInv'
    <2>1. tmp[p] = Absent
        BY <1>3 DEF GetLockFails, LoadFails, End, TmpInv
    <2>2. tmp' = tmp
        BY <1>3, <2>1 DEF GetLockFails, LoadFails, End, Closed
    <2> QED BY <1>3, <2>2 DEF GetLockFails, LoadFails, End, disk
<1>4. ASSUME NEW p \in Procs, Crash(p) PROVE KeptInv'
    <2>1. \A c : c \in leftover \/ (c = tmp[p] /\ c # Absent) => c \in leftover'
        BY <1>4 DEF Crash
    <2>2. \A q \in Procs : q # p => tmp'[q] = tmp[q]
        BY <1>4 DEF Crash, Closed
    <2> QED BY <1>4, <2>1, <2>2 DEF Crash, Absent
<1>5. ASSUME NEW p \in Procs, OpenTmp(p) PROVE KeptInv'
    BY <1>5 DEF OpenTmp, TmpInv, disk, Absent
<1>6. ASSUME NEW p \in Procs, WriteTmp(p) PROVE KeptInv'
    BY <1>6 DEF WriteTmp, TmpInv, disk, Partial
<1>7. ASSUME NEW p \in Procs, WriteTmpFails(p) PROVE KeptInv'
    BY <1>2, <1>7 DEF WriteTmpFails, TmpInv, Partial
<1>8. ASSUME NEW p \in Procs, Unlink(p) PROVE KeptInv'
    <2>1. pc[p] = "unlink"
        BY <1>8 DEF Unlink
    <2> QED BY <1>1, <1>2, <1>8, <2>1 DEF Unlink
<1>9. ASSUME NEW p \in Procs, Link(p) \/ Copied(p) PROVE KeptInv'
    <2>1. pc[p] \in {"link", "copy"} /\ UNCHANGED <<tmp, leftover, saved>>
        BY <1>9 DEF Link, Copied
    <2> QED BY <1>1, <2>1
<1>10. ASSUME NEW p \in Procs, LinkFails(p) PROVE KeptInv'
    BY <1>2, <1>10 DEF LinkFails
<1>11. ASSUME NEW p \in Procs, Cleanup(p) PROVE KeptInv'
    <2>1. pc[p] = "cleanup" /\ datafile' = datafile
        BY <1>11 DEF Cleanup
    <2>2. Good(mem[p]) /\ datafile = mem[p]
        BY <1>1, <2>1 DEF BeliefInv, Discipline
    <2>3. CASE saved' = mem[p]
        BY <2>1, <2>2, <2>3
    <2>4. CASE FailLeavingTmp(p) /\ UNCHANGED saved
        BY <1>2, <2>1, <2>4
    <2> QED BY <1>11, <2>3, <2>4 DEF Cleanup
<1>12. ASSUME NEW p \in Procs,
              \/ \E m \in Modes : BeginCheck(p, m)
              \/ BeginReadOnly(p) \/ GetLock(p) \/ BreakLock(p) \/ Load(p)
              \/ NewBook(p) \/ Edit(p) \/ Save(p) \/ Backup(p)
              \/ BackupFails(p) \/ Expire(p)
       PROVE  UNCHANGED <<datafile, leftover, tmp, saved>>
    BY <1>12 DEF BeginCheck, BeginReadOnly, GetLock, BreakLock, Load, NewBook,
       Edit, Save, Backup, BackupFails, Expire, disk
<1>13. CASE UNCHANGED <<datafile, leftover, tmp, saved>>
    BY <1>13
<1>14. CASE UNCHANGED vars
    BY <1>13, <1>14 DEF vars
<1> QED
    BY <1>3, <1>4, <1>5, <1>6, <1>7, <1>8, <1>9, <1>10, <1>11, <1>12, <1>13,
       <1>14 DEF Next, SaveStep

\* If locks are broken only when no live session holds them, and write(2) writes
\* all it is given, then whatever calls fail and whichever processes die, wherever they are in a save, and
\* whatever backups the retention preference removes, the disk holds a whole
\* copy of what was saved last or of something later.
THEOREM SavedIsDurable ==
    ~BreakLive /\ ~ShortWrites => (Spec => []SavedSurvives)
<1> SUFFICES ASSUME ~BreakLive, ~ShortWrites PROVE Spec => []SavedSurvives
    OBVIOUS
<1>1. Init => BeliefInv /\ DurableInv
    BY DEF Init, BeliefInv, LockExclusive, Holds, Discipline, CleanInv, Saving,
           DurableInv, VersionInv, TmpInv, KeptInv, Absent, Partial
<1>2. TypeOK /\ BeliefInv /\ [Next]_vars => BeliefInv'
    BY NextBelief
<1>3. TypeOK /\ BeliefInv /\ DurableInv /\ [Next]_vars => DurableInv'
    BY NextVersion, NextTmp, NextKept DEF DurableInv
<1>4. DurableInv => SavedSurvives
    BY DEF DurableInv, KeptInv, Good, SavedSurvives, OnDisk
<1> QED BY <1>1, <1>2, <1>3, <1>4, TypeCorrect, PTL DEF Spec

-----------------------------------------------------------------------------
(* What is saved is in a file that GnuCash offers to open.                 *)

\* Between the backup and the end of a save there is a good backup.
NameInv ==
    saved # Absent =>
        /\ Good(datafile) \/ \E c \in backups : Good(c)
        /\ \A p \in Procs :
             pc[p] \in {"opentmp", "writetmp", "unlink", "link", "copy"} =>
                 \E c \in backups : Good(c)

LEMMA NextName ==
    ASSUME Retention = "FOREVER", ~ShortWrites, TypeOK, BeliefInv, VersionInv, NameInv,
           [Next]_vars
    PROVE  NameInv'
<1> SUFFICES ASSUME saved' # Absent PROVE NameInv'
    BY DEF NameInv
<1> USE DEF NameInv, Good, TypeOK, Goto
\* Steps that leave the files as they are, or add a backup, and do not come
\* to the steps between.
<1>1. ASSUME UNCHANGED <<datafile, saved>>, backups \subseteq backups', NEW p \in Procs,
             \/ pc' = pc
             \/ \E w \in PCs \ {"opentmp", "writetmp", "unlink", "link", "copy"} :
                    pc' = [pc EXCEPT ![p] = w]
             \/ pc[p] \in {"opentmp", "writetmp", "unlink", "link", "copy"}
                    /\ \E w \in PCs : pc' = [pc EXCEPT ![p] = w]
      PROVE  NameInv'
    BY <1>1
<1>2. ASSUME NEW p \in Procs,
             \/ \E m \in Modes : BeginCheck(p, m)
             \/ BeginReadOnly(p) \/ GetLock(p) \/ BreakLock(p) \/ GetLockFails(p)
             \/ Load(p) \/ LoadFails(p) \/ NewBook(p) \/ Edit(p) \/ End(p) \/ Save(p)
             \/ Crash(p)
      PROVE  NameInv'
    <2>1. UNCHANGED <<datafile, saved, backups>>
        BY <1>2 DEF BeginCheck, BeginReadOnly, GetLock, BreakLock, GetLockFails, Load,
           LoadFails, NewBook, Edit, End, Save, Crash, disk
    <2>2. \E w \in PCs \ {"opentmp", "writetmp", "unlink", "link", "copy"} :
              pc' = [pc EXCEPT ![p] = w] \/ pc' = pc
        BY <1>2 DEF BeginCheck, BeginReadOnly, GetLock, BreakLock, GetLockFails, Load,
           LoadFails, NewBook, Edit, End, Save, Crash, Closed, PCs
    <2> QED BY <1>1, <2>1, <2>2
<1>3. ASSUME NEW p \in Procs, Backup(p) PROVE NameInv'
    <2>1. \E c \in backups' : Good(c)
        <3>1. CASE datafile = Absent /\ UNCHANGED backups
            BY <1>3, <3>1 DEF Backup, Absent, IsWhole, First
        <3>2. CASE datafile # Absent /\ backups' = backups \cup {datafile}
            BY <1>3, <3>2 DEF Backup
        <3>3. CASE ShortCopy
            BY <1>3, <3>3 DEF Backup, ShortCopy
        <3> QED BY <1>3, <3>1, <3>2, <3>3 DEF Backup
    <2> QED BY <1>3, <2>1 DEF Backup
<1>4. ASSUME NEW p \in Procs, BackupFails(p) PROVE NameInv'
    <2>1. backups \subseteq backups' /\ pc' = [pc EXCEPT ![p] = "expire"]
          /\ UNCHANGED <<datafile, saved>>
        BY <1>4 DEF BackupFails
    <2> QED BY <1>1, <2>1 DEF PCs
<1>5. ASSUME NEW p \in Procs, OpenTmp(p) \/ WriteTmp(p) \/ WriteTmpFails(p) \/ LinkFails(p)
      PROVE  NameInv'
    <2>1. pc[p] \in {"opentmp", "writetmp", "unlink", "link", "copy"}
          /\ UNCHANGED <<datafile, saved, backups>>
        BY <1>5 DEF OpenTmp, WriteTmp, WriteTmpFails, LinkFails, disk
    <2>2. \E w \in PCs : pc' = [pc EXCEPT ![p] = w]
        BY <1>5 DEF OpenTmp, WriteTmp, WriteTmpFails, LinkFails, FailLeavingTmp, PCs
    <2> QED BY <1>1, <2>1, <2>2
<1>6. ASSUME NEW p \in Procs, Unlink(p) \/ Link(p) \/ Copied(p) PROVE NameInv'
    <2>1. pc[p] \in {"unlink", "link", "copy"} /\ UNCHANGED <<saved, backups>>
        BY <1>6 DEF Unlink, Link, Copied
    <2> QED BY <2>1
<1>7. ASSUME NEW p \in Procs, Cleanup(p) PROVE NameInv'
    <2>1. pc[p] = "cleanup" /\ datafile = mem[p] /\ dirty[p] /\ IsWhole(mem[p])
        BY <1>7 DEF Cleanup, BeliefInv, Discipline, VersionInv, Saving
    <2>2. UNCHANGED <<datafile, backups>> /\ pc' = [pc EXCEPT ![p] = "expire"]
        BY <1>7 DEF Cleanup, FailLeavingTmp
    <2>3. CASE saved' = mem[p]
        <3>1. \A q \in Procs : q # p =>
                pc'[q] \notin {"opentmp", "writetmp", "unlink", "link", "copy"}
            BY <2>1, <2>2, WriterHolds DEF Saving
        <3>2. Good(datafile)'
            BY <2>1, <2>2, <2>3 DEF Content
        <3> QED BY <2>2, <3>1, <3>2
    <2>4. CASE UNCHANGED saved
        BY <1>1, <2>2, <2>4 DEF PCs
    <2> QED BY <1>7, <2>3, <2>4 DEF Cleanup
<1>8. ASSUME NEW p \in Procs, Expire(p) PROVE NameInv'
    <2>1. UNCHANGED <<datafile, saved, backups>> /\ pc' = [pc EXCEPT ![p] = "open"]
        BY <1>8 DEF Expire, Kept
    <2> QED BY <1>1, <2>1 DEF PCs
<1>9. CASE UNCHANGED vars
    BY <1>9 DEF vars
<1> QED BY <1>2, <1>3, <1>4, <1>5, <1>6, <1>7, <1>8, <1>9 DEF Next, SaveStep

\* If besides all backups are kept, what was saved is in the data file or in a
\* dated backup, at every point of a later save (backup_file comes first).
THEOREM SavedByName ==
    ~BreakLive /\ ~ShortWrites /\ Retention = "FOREVER" => (Spec => []SavedSurvivesByName)
<1> SUFFICES ASSUME ~BreakLive, ~ShortWrites, Retention = "FOREVER"
             PROVE  Spec => []SavedSurvivesByName
    OBVIOUS
<1>1. Init => BeliefInv /\ VersionInv /\ NameInv
    BY DEF Init, BeliefInv, LockExclusive, Holds, Discipline, CleanInv, Saving,
           VersionInv, NameInv, Absent, Partial
<1>2. TypeOK /\ BeliefInv /\ [Next]_vars => BeliefInv'
    BY NextBelief
<1>3. TypeOK /\ BeliefInv /\ VersionInv /\ NameInv /\ [Next]_vars
        => VersionInv' /\ NameInv'
    BY NextVersion, NextName
<1>4. NameInv => SavedSurvivesByName
    BY DEF NameInv, Good, SavedSurvivesByName
<1> QED BY <1>1, <1>2, <1>3, <1>4, TypeCorrect, PTL DEF Spec

-----------------------------------------------------------------------------
(* A save is atomic.                                                       *)

\* Nothing newer than the last version made is anywhere.
BoundInv == (\A c \in OnDisk : c <= last) /\ \A p \in Procs : mem[p] <= last

\* A process has a book from the time its session is open.
Bookless == {"closed", "checked", "begun"}
MemInv == \A p \in Procs : pc[p] \in Bookless <=> mem[p] = Absent

\* While the data file is not whole, a temporary file is as new as any backup:
\* remove_old_files, which looks at backups only, does not take the newest.
Temps == leftover \cup {tmp[p] : p \in Procs}
CoverInv ==
    ~IsWhole(datafile) =>
        \A c \in backups : IsWhole(c) => \E d \in Temps : d >= c

AtomicInv == BoundInv /\ MemInv /\ CoverInv

\* A bounded set of numbers that is not empty has a greatest element: the one
\* farthest from the top is the least of the distances.
Less == {pair \in Nat \X Nat : pair[1] < pair[2]}

LEMMA Greatest ==
    ASSUME NEW top \in Nat, NEW T \in SUBSET Nat, T # {}, \A k \in T : k <= top
    PROVE  \E m \in T : \A k \in T : k <= m
<1> DEFINE D == {top - k : k \in T}
<1>1. IsWellFoundedOn(Less, Nat)
    BY NatLessThanWellFounded DEF OpToRel, Less
<1>2. D \in SUBSET Nat /\ D # {}
    <2>1. \A k \in T : top - k \in Nat
        OBVIOUS
    <2> QED BY <2>1
<1>3. PICK m \in D : \A k \in D : ~(<<k, m>> \in Less)
    <2> HIDE DEF D
    <2> QED BY <1>1, <1>2, WFMin
<1>4. \A k \in D : ~(k < m)
    BY <1>2, <1>3 DEF Less
<1>5. PICK g \in T : m = top - g
    BY <1>3
<1>6. \A k \in T : ~(top - k < top - g)
    BY <1>4, <1>5
<1> QED BY <1>5, <1>6

Whole == {c \in OnDisk : IsWhole(c)}

LEMMA DiskTypes == TypeOK => OnDisk \subseteq Nat /\ datafile \in OnDisk
BY DEF TypeOK, OnDisk, Content

\* What Newest is.
LEMMA NewestIs ==
    ASSUME TypeOK, BoundInv
    PROVE  /\ Whole = {} => Newest = Absent
           /\ Whole # {} => Newest \in Whole /\ \A c \in Whole : c <= Newest
<1>1. Whole # {} => \E m \in Whole : \A c \in Whole : c <= m
    BY DiskTypes, Greatest DEF Whole, BoundInv, TypeOK
<1> QED BY <1>1 DEF Newest, Whole

LEMMA NewestOf ==
    ASSUME TypeOK, BoundInv, NEW c \in Whole, \A d \in Whole : d <= c
    PROVE  Newest = c
<1>1. Newest \in Whole /\ c <= Newest
    BY NewestIs
<1>2. Newest <= c /\ c \in Nat /\ Newest \in Nat
    BY <1>1, DiskTypes DEF Whole
<1> QED BY <1>1, <1>2

LEMMA StoredBounded ==
    ASSUME TypeOK, BoundInv
    PROVE  Stored \in Nat /\ Stored <= last
BY NewestIs, DiskTypes DEF Stored, BoundInv, Whole, TypeOK, Absent

\* The store shows nothing of a step that changes neither the data file nor
\* what is whole.
LEMMA StoredStays ==
    ASSUME UNCHANGED datafile, Whole' = Whole
    PROVE  Stored' = Stored
<1>1. Newest = IF Whole = {} THEN Absent ELSE CHOOSE c \in Whole : \A d \in Whole : d <= c
    BY DEF Newest, Whole
<1>2. Newest' =
        IF Whole' = {} THEN Absent ELSE CHOOSE c \in Whole' : \A d \in Whole' : d <= c
    BY DEF Newest, Whole
<1> QED BY <1>1, <1>2 DEF Stored

\* The last version made is what is stored, if it is in the data file, or on
\* the disk when the data file is not whole.
LEMMA StoredLast ==
    ASSUME TypeOK, BoundInv, IsWhole(last), last \in OnDisk,
           datafile = last \/ ~IsWhole(datafile)
    PROVE  Stored = last
<1>1. CASE datafile = last
    BY <1>1 DEF Stored
<1>2. CASE ~IsWhole(datafile)
    <2>1. last \in Whole /\ \A c \in Whole : c <= last
        BY DEF Whole, BoundInv
    <2> QED BY <1>2, <2>1, NewestOf DEF Stored
<1> QED BY <1>1, <1>2

LEMMA NextMem == ASSUME TypeOK, BeliefInv, VersionInv, MemInv, [Next]_vars PROVE MemInv'
<1> USE DEF TypeOK, MemInv, Bookless, Goto
<1>1. ASSUME NEW p \in Procs,
             GetLockFails(p) \/ LoadFails(p) \/ End(p) \/ Crash(p)
      PROVE  MemInv'
    BY <1>1 DEF GetLockFails, LoadFails, End, Crash, Closed
<1>2. ASSUME NEW p \in Procs, Load(p) \/ NewBook(p) \/ Edit(p) PROVE MemInv'
    <2>1. PICK v \in Nat : v # Absent /\ mem' = [mem EXCEPT ![p] = v]
        <3>1. CASE Load(p)
            <4>1. datafile \in Nat /\ datafile # Absent /\ mem' = [mem EXCEPT ![p] = datafile]
                BY <3>1 DEF Load, IsWhole, First, Absent, Content
            <4> QED BY <4>1
        <3>2. CASE NewBook(p) \/ Edit(p)
            BY <3>2 DEF NewBook, Edit, NewVersion, Absent
        <3> QED BY <1>2, <3>1, <3>2
    <2>2. pc'[p] = "open" /\ \A q \in Procs : q # p => pc'[q] = pc[q]
        BY <1>2 DEF Load, NewBook, Edit
    <2> QED BY <2>1, <2>2
\* All other steps leave the books, and whether there is one.
<1>3. ASSUME NEW p \in Procs,
             \/ \E m \in Modes : BeginCheck(p, m)
             \/ BeginReadOnly(p) \/ GetLock(p) \/ BreakLock(p)
      PROVE  MemInv'
    <2>1. mem' = mem /\ pc[p] \in Bookless /\ \E w \in Bookless : pc' = [pc EXCEPT ![p] = w]
        BY <1>3 DEF BeginCheck, BeginReadOnly, GetLock, BreakLock
    <2> QED BY <2>1
<1>4. ASSUME NEW p \in Procs, Save(p) \/ SaveStep(p) PROVE MemInv'
    <2>1. mem' = mem /\ pc[p] \notin Bookless
        BY <1>4 DEF Save, SaveStep, Backup, BackupFails, OpenTmp, WriteTmp, WriteTmpFails,
           Unlink, Link, Copied, LinkFails, Cleanup, Expire
    <2>2. \E w \in PCs \ Bookless : pc' = [pc EXCEPT ![p] = w]
        BY <1>4 DEF Save, SaveStep, Backup, BackupFails, OpenTmp, WriteTmp, WriteTmpFails,
           Unlink, Link, Copied, LinkFails, Cleanup, Expire, FailLeavingTmp, PCs
    <2> QED BY <2>1, <2>2
<1>5. CASE UNCHANGED vars
    BY <1>5 DEF vars
<1> QED BY <1>1, <1>2, <1>3, <1>4, <1>5 DEF Next

\* What a step writes is a copy of something on the disk, a part of a file or a
\* book in memory.
LEMMA NothingNew ==
    ASSUME TypeOK, [Next]_vars
    PROVE  OnDisk' \subseteq OnDisk \cup {Absent, Partial} \cup {mem[p] : p \in Procs}
<1> DEFINE Written == OnDisk \cup {Absent, Partial} \cup {mem[p] : p \in Procs}
<1>1. SUFFICES /\ datafile' \in Written
               /\ backups' \subseteq Written
               /\ leftover' \subseteq Written
               /\ \A q \in Procs : tmp'[q] \in Written
    BY DEF OnDisk
<1>2. /\ datafile \in Written /\ backups \subseteq Written /\ leftover \subseteq Written
      /\ \A q \in Procs : tmp[q] \in Written /\ mem[q] \in Written
      /\ Absent \in Written /\ Partial \in Written
    BY DEF OnDisk
<1> HIDE DEF Written
<1> USE DEF TypeOK, disk
<1>3. ASSUME NEW p \in Procs, FailLeavingTmp(p)
      PROVE  leftover' \subseteq Written /\ \A q \in Procs : tmp'[q] \in Written
    BY <1>2, <1>3 DEF FailLeavingTmp
<1>4. ASSUME NEW p \in Procs, Closed(p)
      PROVE  \A q \in Procs : tmp'[q] \in Written
    BY <1>2, <1>4 DEF Closed
<1>5. ASSUME NEW p \in Procs, GetLockFails(p) \/ LoadFails(p) \/ End(p) PROVE <1>1!1
    BY <1>2, <1>4, <1>5 DEF GetLockFails, LoadFails, End
<1>6. ASSUME NEW p \in Procs, Crash(p) PROVE <1>1!1
    BY <1>2, <1>4, <1>6 DEF Crash
<1>7. ASSUME NEW p \in Procs, Backup(p) \/ BackupFails(p) \/ Expire(p) PROVE <1>1!1
    <2>1. UNCHANGED <<datafile, leftover, tmp>>
        BY <1>7 DEF Backup, BackupFails, Expire
    <2>2. backups' \subseteq backups \cup {datafile, Partial}
        <3>1. CASE Backup(p) \/ BackupFails(p)
            BY <3>1 DEF Backup, BackupFails
        <3>2. CASE Expire(p)
            BY <3>2, StoreAssumption DEF Expire, Kept
        <3> QED BY <1>7, <3>1, <3>2
    <2> QED BY <1>2, <2>1, <2>2
<1>8. ASSUME NEW p \in Procs, OpenTmp(p) \/ WriteTmp(p) PROVE <1>1!1
    BY <1>2, <1>8 DEF OpenTmp, WriteTmp
<1>9. ASSUME NEW p \in Procs,
             WriteTmpFails(p) \/ Unlink(p) \/ LinkFails(p) \/ Cleanup(p)
      PROVE  <1>1!1
    <2>1. datafile' \in {datafile, Absent} /\ backups' = backups
        BY <1>9 DEF WriteTmpFails, Unlink, LinkFails, Cleanup
    <2>2. FailLeavingTmp(p) \/ (leftover' = leftover /\ tmp' \in {tmp, [tmp EXCEPT ![p] = Absent]})
        BY <1>9 DEF WriteTmpFails, Unlink, LinkFails, Cleanup
    <2> QED BY <1>2, <1>3, <2>1, <2>2
<1>10. ASSUME NEW p \in Procs, Link(p) \/ Copied(p) PROVE <1>1!1
    <2>1. datafile' \in {tmp[p], Partial} /\ UNCHANGED <<backups, leftover, tmp>>
        BY <1>10 DEF Link, Copied
    <2> QED BY <1>2, <2>1
<1>11. ASSUME NEW p \in Procs,
              \/ \E m \in Modes : BeginCheck(p, m)
              \/ BeginReadOnly(p) \/ GetLock(p) \/ BreakLock(p) \/ Load(p)
              \/ NewBook(p) \/ Edit(p) \/ Save(p)
       PROVE  UNCHANGED <<datafile, backups, leftover, tmp>>
    BY <1>11 DEF BeginCheck, BeginReadOnly, GetLock, BreakLock, Load, NewBook, Edit, Save
<1>12. CASE UNCHANGED <<datafile, backups, leftover, tmp>>
    BY <1>2, <1>12
<1>13. CASE UNCHANGED vars
    BY <1>12, <1>13 DEF vars
<1> QED
    BY <1>5, <1>6, <1>7, <1>8, <1>9, <1>10, <1>11, <1>12, <1>13 DEF Next, SaveStep

LEMMA NextBound ==
    ASSUME TypeOK, VersionInv, BoundInv, [Next]_vars, TypeOK'
    PROVE  BoundInv'
<1>1. last <= last'
    BY DEF Next, BeginCheck, BeginReadOnly, GetLock, BreakLock, GetLockFails, Load,
       LoadFails, NewBook, NewVersion, Edit, End, Save, SaveStep, Backup, BackupFails,
       OpenTmp, WriteTmp, WriteTmpFails, Unlink, Link, Copied, LinkFails, Cleanup, Expire,
       Crash, vars, TypeOK
<1>2. \A c \in OnDisk' : c <= last'
    <2>1. ASSUME NEW c \in OnDisk' PROVE c <= last
        BY <2>1, NothingNew DEF BoundInv, VersionInv, Absent, Partial, TypeOK
    <2>2. \A c \in OnDisk' : c \in Nat
        BY DEF TypeOK, OnDisk, Content
    <2> QED BY <1>1, <2>1, <2>2 DEF TypeOK
<1>3. \A q \in Procs : mem'[q] <= last'
    <2>1. ASSUME NEW q \in Procs
          PROVE  mem'[q] \in {mem[q], Absent} \/ mem'[q] = datafile \/ mem'[q] = last'
        BY DEF Next, BeginCheck, BeginReadOnly, GetLock, BreakLock, GetLockFails, Load,
           LoadFails, NewBook, NewVersion, Edit, End, Save, SaveStep, Backup, BackupFails,
           OpenTmp, WriteTmp, WriteTmpFails, Unlink, Link, Copied, LinkFails, Cleanup,
           Expire, Crash, Closed, vars, TypeOK
    <2>2. datafile <= last
        BY DiskTypes DEF BoundInv
    <2> QED BY <1>1, <2>1, <2>2 DEF BoundInv, TypeOK, Absent, Content
<1> QED BY <1>2, <1>3 DEF BoundInv

\* Where a save has its temporary file written, that file and the book are the
\* last version.
LEMMA WrittenIsLast ==
    ASSUME BeliefInv, VersionInv, NEW p \in Procs,
           pc[p] \in {"unlink", "link", "copy", "cleanup"}
    PROVE  tmp[p] = last /\ mem[p] = last /\ IsWhole(last)
BY DEF BeliefInv, Discipline, VersionInv, Saving

LEMMA NextCover ==
    ASSUME ~ShortWrites, TypeOK, BeliefInv, VersionInv, TmpInv, BoundInv, CoverInv,
           [Next]_vars, TypeOK'
    PROVE  CoverInv'
<1> SUFFICES ASSUME ~IsWhole(datafile'), NEW c \in backups', IsWhole(c)
             PROVE  \E d \in Temps' : d >= c
    BY DEF CoverInv, IsWhole
<1>1. c \in Nat /\ Partial # c /\ Absent # c
    BY DEF IsWhole, First, Partial, Absent, TypeOK, Content
\* The temporary files stay, or are the parts of files; no backup is added.
<1>2. ASSUME ~IsWhole(datafile), c \in backups, \A d \in Temps : d \in Temps' \/ ~IsWhole(d)
      PROVE  \E d \in Temps' : d >= c
    <2>1. PICK d \in Temps : d >= c
        BY <1>2 DEF CoverInv
    <2>2. d \in Nat
        BY DEF Temps, TypeOK, Content
    <2>3. IsWhole(d)
        BY <1>1, <2>1, <2>2 DEF IsWhole, First
    <2> QED BY <1>2, <2>1, <2>3
<1> USE DEF Temps, disk
<1>3. ASSUME NEW p \in Procs, FailLeavingTmp(p) PROVE Temps \subseteq Temps'
    BY <1>3 DEF FailLeavingTmp, TypeOK
<1>4. ASSUME NEW p \in Procs, GetLockFails(p) \/ LoadFails(p) \/ End(p)
      PROVE  UNCHANGED <<datafile, backups, leftover, tmp>>
    BY <1>4 DEF GetLockFails, LoadFails, End, Closed, TmpInv, TypeOK
<1>5. CASE UNCHANGED <<datafile, backups, leftover, tmp>>
    BY <1>2, <1>5
<1>6. ASSUME NEW p \in Procs, Crash(p) PROVE \E d \in Temps' : d >= c
    <2>1. \A d \in Temps : d \in Temps' \/ d = Absent
        BY <1>6 DEF Crash, Closed, TypeOK
    <2> QED BY <1>2, <1>6, <2>1 DEF Crash, IsWhole, First, Absent
<1>7. ASSUME NEW p \in Procs, Backup(p) \/ BackupFails(p) PROVE \E d \in Temps' : d >= c
    <2>1. UNCHANGED <<datafile, leftover, tmp>> /\ backups' \subseteq backups \cup {datafile, Partial}
        BY <1>7 DEF Backup, BackupFails
    <2>2. c \in backups
        BY <1>1, <2>1
    <2> QED BY <1>2, <2>1, <2>2
<1>8. ASSUME NEW p \in Procs, Expire(p) PROVE \E d \in Temps' : d >= c
    <2>1. UNCHANGED <<datafile, leftover, tmp>>
        BY <1>8 DEF Expire
    <2>2. c \in backups
        BY <1>8, StoreAssumption DEF Expire, Kept
    <2> QED BY <1>2, <2>1, <2>2
<1>9. ASSUME NEW p \in Procs, OpenTmp(p) \/ WriteTmp(p) PROVE \E d \in Temps' : d >= c
    <2>1. UNCHANGED <<datafile, backups, leftover>> /\ tmp[p] \in {Absent, Partial}
          /\ \A q \in Procs : q # p => tmp'[q] = tmp[q]
        BY <1>9 DEF OpenTmp, WriteTmp, TmpInv, TypeOK
    <2>2. \A d \in Temps : d \in Temps' \/ ~IsWhole(d)
        BY <2>1 DEF IsWhole, First, Absent, Partial
    <2> QED BY <1>2, <2>1, <2>2
<1>10. ASSUME NEW p \in Procs, WriteTmpFails(p) PROVE \E d \in Temps' : d >= c
    <2>1. UNCHANGED <<datafile, backups>> /\ tmp[p] = Partial
        BY <1>10 DEF WriteTmpFails, TmpInv
    <2>2. \A d \in Temps : d \in Temps' \/ d = Partial
        BY <1>3, <1>10, <2>1 DEF WriteTmpFails, TypeOK
    <2> QED BY <1>2, <2>1, <2>2 DEF IsWhole, First, Partial
<1>11. ASSUME NEW p \in Procs, LinkFails(p) PROVE \E d \in Temps' : d >= c
    BY <1>2, <1>3, <1>11 DEF LinkFails
<1>12. ASSUME NEW p \in Procs, Cleanup(p) PROVE \E d \in Temps' : d >= c
    <2>1. IsWhole(datafile) /\ datafile' = datafile
        BY <1>12, WrittenIsLast DEF Cleanup, BeliefInv, Discipline
    <2> QED BY <2>1
\* The file is unlinked, or being linked anew: the temporary file is the last
\* version there is.
<1>13. ASSUME NEW p \in Procs, Unlink(p) \/ Link(p) \/ Copied(p)
       PROVE  \E d \in Temps' : d >= c
    <2>1. tmp[p] = last /\ backups' = backups
        BY <1>13, WrittenIsLast DEF Unlink, Link, Copied
    <2>2. Temps \subseteq Temps'
        <3>1. FailLeavingTmp(p) \/ UNCHANGED <<leftover, tmp>>
            BY <1>13 DEF Unlink, Link, Copied
        <3> QED BY <1>3, <3>1
    <2>3. c <= last
        BY <2>1 DEF BoundInv, OnDisk
    <2>4. last \in Temps' /\ last >= c
        BY <1>1, <2>1, <2>2, <2>3 DEF TypeOK
    <2> QED BY <2>4
<1>14. ASSUME NEW p \in Procs,
              \/ \E m \in Modes : BeginCheck(p, m)
              \/ BeginReadOnly(p) \/ GetLock(p) \/ BreakLock(p) \/ Load(p)
              \/ NewBook(p) \/ Edit(p) \/ Save(p)
       PROVE  UNCHANGED <<datafile, backups, leftover, tmp>>
    BY <1>14 DEF BeginCheck, BeginReadOnly, GetLock, BreakLock, Load, NewBook, Edit, Save
<1>15. CASE UNCHANGED vars
    BY <1>5, <1>15 DEF vars
<1> QED
    BY <1>4, <1>5, <1>6, <1>7, <1>8, <1>9, <1>10, <1>11, <1>12, <1>13, <1>14, <1>15
    DEF Next, SaveStep

\* The same of the state after a step.
LEMMA NextNewest ==
    (TypeOK /\ BoundInv =>
        /\ Whole = {} => Newest = Absent
        /\ Whole # {} => Newest \in Whole /\ \A c \in Whole : c <= Newest)'
<1>1. TypeOK /\ BoundInv =>
        /\ Whole = {} => Newest = Absent
        /\ Whole # {} => Newest \in Whole /\ \A c \in Whole : c <= Newest
    BY NewestIs
<1> QED BY <1>1, PTL

LEMMA NextStored ==
    (TypeOK /\ BoundInv /\ IsWhole(last) /\ last \in OnDisk
        /\ (datafile = last \/ ~IsWhole(datafile)) => Stored = last)'
<1>1. TypeOK /\ BoundInv /\ IsWhole(last) /\ last \in OnDisk
        /\ (datafile = last \/ ~IsWhole(datafile)) => Stored = last
    BY StoredLast
<1> QED BY <1>1, PTL

AtomicStep == [Atomic!Next]_(Atomic!vars)

\* A save that comes to have its version stored: an instant of the store, or
\* the version was stored already.
LEMMA StoresLast ==
    ASSUME TypeOK, BoundInv, Stored' = last, NEW p \in Procs, mem[p] = last, mem' = mem
    PROVE  AtomicStep
<1>1. CASE Stored = last
    BY <1>1 DEF AtomicStep, Atomic!vars
<1>2. CASE Stored # last
    <2>1. mem[p] > Stored
        BY <1>2, StoredBounded DEF TypeOK
    <2>2. Atomic!Save(p)
        BY <2>1 DEF Atomic!Save
    <2> QED BY <2>2 DEF AtomicStep, Atomic!Next
<1> QED BY <1>1, <1>2

\* A temporary file that a save gives up is on the disk still.
LEMMA LeavingKeeps ==
    ASSUME TypeOK, NEW p \in Procs, FailLeavingTmp(p), UNCHANGED <<datafile, backups>>
    PROVE  Whole' = Whole
<1>1. /\ leftover' = leftover \cup {tmp[p]} /\ tmp'[p] = Absent
      /\ \A q \in Procs : q # p => tmp'[q] = tmp[q]
    BY DEF FailLeavingTmp, TypeOK
<1>2. \A c : c # Absent => (c \in OnDisk' <=> c \in OnDisk)
    BY <1>1 DEF OnDisk
<1> QED BY <1>2 DEF Whole, IsWhole, First, Absent

\* A session that ends without a temporary file, or a process that dies and
\* leaves its own, leaves the store.
LEMMA LeaveAtomic ==
    ASSUME TypeOK, TmpInv, NEW p \in Procs,
           GetLockFails(p) \/ LoadFails(p) \/ End(p) \/ Crash(p)
    PROVE  AtomicStep
<1>1. Closed(p) /\ UNCHANGED <<datafile, backups>>
    BY DEF GetLockFails, LoadFails, End, Crash, disk
<1>2. Whole' = Whole
    <2>1. tmp'[p] = Absent /\ \A q \in Procs : q # p => tmp'[q] = tmp[q]
        BY <1>1 DEF Closed, TypeOK
    <2>2. leftover' \ {Absent} = (leftover \cup {tmp[p]}) \ {Absent}
        <3>1. CASE Crash(p)
            BY <3>1 DEF Crash
        <3>2. CASE GetLockFails(p) \/ LoadFails(p) \/ End(p)
            <4>1. tmp[p] = Absent /\ leftover' = leftover
                BY <3>2 DEF GetLockFails, LoadFails, End, TmpInv, disk
            <4> QED BY <4>1
        <3> QED BY <3>1, <3>2
    <2>3. \A c : c # Absent => (c \in OnDisk' <=> c \in OnDisk)
        BY <1>1, <2>1, <2>2 DEF OnDisk
    <2> QED BY <2>3 DEF Whole, IsWhole, First, Absent
<1>3. Stored' = Stored
    BY <1>1, <1>2, StoredStays
<1>4. mem' = [mem EXCEPT ![p] = Absent]
    BY <1>1 DEF Closed
<1>5. Atomic!Leave(p)
    BY <1>3, <1>4 DEF Atomic!Leave, Atomic!Works
<1> QED BY <1>5 DEF AtomicStep, Atomic!Next

\* A session gets its book, and changes it.
LEMMA BookAtomic ==
    ASSUME TypeOK, BoundInv, MemInv, NEW p \in Procs, Load(p) \/ NewBook(p) \/ Edit(p)
    PROVE  AtomicStep
<1>1. Whole' = Whole /\ datafile' = datafile
    BY DEF Load, NewBook, Edit, disk, Whole, OnDisk
<1>2. Stored' = Stored
    BY <1>1, StoredStays
<1>3. CASE Load(p)
    <2>1. mem' = [mem EXCEPT ![p] = Stored] /\ mem[p] = Absent /\ Stored # Absent
        BY <1>3 DEF Load, Stored, MemInv, Bookless, IsWhole, First, Absent, TypeOK, Content
    <2>2. mem'[p] = Stored
        BY <2>1 DEF TypeOK
    <2>3. Atomic!Open(p)
        BY <1>2, <2>1, <2>2 DEF Atomic!Open, Atomic!Works
    <2> QED BY <2>3 DEF AtomicStep, Atomic!Next
<1>4. CASE NewBook(p) \/ Edit(p)
    <2>1. mem' = [mem EXCEPT ![p] = last + 1] /\ last \in Nat
        BY <1>4 DEF NewBook, Edit, TypeOK
    <2>2. mem'[p] = last + 1 /\ last + 1 # Absent
        BY <2>1 DEF TypeOK, Absent
    <2>3. last + 1 > Stored /\ \A q \in Procs : last + 1 > mem[q]
        BY <2>1, StoredBounded DEF BoundInv, TypeOK, Content
    <2>4. Atomic!IsNew(mem'[p])
        BY <2>1, <2>2, <2>3 DEF Atomic!IsNew, Atomic!Version
    <2>5. Atomic!Works(p, mem'[p])
        BY <2>1, <2>2 DEF Atomic!Works
    <2>6. CASE mem[p] = Absent
        BY <1>2, <2>2, <2>4, <2>5, <2>6 DEF Atomic!Open, AtomicStep, Atomic!Next
    <2>7. CASE mem[p] # Absent
        BY <1>2, <2>4, <2>5, <2>7 DEF Atomic!Edit, AtomicStep, Atomic!Next
    <2> QED BY <2>6, <2>7
<1> QED BY <1>3, <1>4

\* The steps of a save.
LEMMA SaveAtomic ==
    ASSUME ~ShortWrites, TypeOK, BeliefInv, VersionInv, TmpInv, BoundInv, CoverInv,
           TypeOK', BoundInv', NEW p \in Procs, SaveStep(p)
    PROVE  AtomicStep
<1> USE DEF disk
<1>1. mem' = mem /\ last' = last
    BY DEF SaveStep, Backup, BackupFails, OpenTmp, WriteTmp, WriteTmpFails, Unlink, Link,
       Copied, LinkFails, Cleanup, Expire
\* What is whole, and the data file, stay.
<1>2. CASE UNCHANGED datafile /\ Whole' = Whole
    BY <1>1, <1>2, StoredStays DEF AtomicStep, Atomic!vars
<1>3. CASE FailLeavingTmp(p) /\ UNCHANGED <<datafile, backups>>
    BY <1>2, <1>3, LeavingKeeps
\* The last version is on the disk, and in the data file if that is whole.
<1>4. ASSUME mem[p] = last, IsWhole(last), last \in OnDisk',
             datafile' = last \/ ~IsWhole(datafile')
      PROVE  AtomicStep
    <2>1. Stored' = last'
        BY <1>1, <1>4, NextStored DEF IsWhole
    <2> QED BY <1>1, <1>4, <2>1, StoresLast
<1>5. CASE IsWhole(datafile) /\ datafile' = datafile
    BY <1>1, <1>5 DEF Stored, IsWhole, AtomicStep, Atomic!vars
<1>6. CASE Backup(p) \/ BackupFails(p)
    <2>1. \/ backups' = backups
          \/ backups' = backups \cup {datafile}
          \/ backups' = backups \cup {Partial}
        BY <1>6 DEF Backup, BackupFails
    <2>2. UNCHANGED <<datafile, leftover, tmp>>
        BY <1>6 DEF Backup, BackupFails
    <2>3. \A c : c # Partial => (c \in OnDisk' <=> c \in OnDisk)
        BY <2>1, <2>2 DEF OnDisk
    <2> QED BY <1>2, <2>2, <2>3 DEF Whole, IsWhole, First, Partial
<1>7. CASE OpenTmp(p)
    <2>1. tmp[p] = Absent /\ tmp'[p] \in {Absent, Partial} /\ UNCHANGED <<datafile, backups, leftover>>
          /\ \A q \in Procs : q # p => tmp'[q] = tmp[q]
        BY <1>7 DEF OpenTmp, TmpInv, TypeOK
    <2>2. \A c : c \notin {Absent, Partial} => (c \in OnDisk' <=> c \in OnDisk)
        BY <2>1 DEF OnDisk
    <2> QED BY <1>2, <2>1, <2>2 DEF Whole, IsWhole, First, Absent, Partial
<1>8. CASE WriteTmp(p)
    <2>1. tmp'[p] = mem[p] /\ datafile' = datafile
        BY <1>8 DEF WriteTmp, TypeOK
    <2>2. mem[p] = last /\ IsWhole(last)
        BY <1>8 DEF WriteTmp, BeliefInv, Discipline, VersionInv, Saving
    <2>3. last \in OnDisk'
        BY <2>1, <2>2 DEF OnDisk
    <2> QED BY <1>4, <1>5, <2>1, <2>2, <2>3 DEF IsWhole
<1>9. CASE WriteTmpFails(p)
    <2>1. CASE FailLeavingTmp(p)
        BY <1>3, <1>9, <2>1 DEF WriteTmpFails
    <2>2. CASE tmp' = [tmp EXCEPT ![p] = Absent] /\ UNCHANGED leftover
        <3>1. tmp[p] = Partial /\ tmp'[p] = Absent /\ UNCHANGED <<datafile, backups, leftover>>
              /\ \A q \in Procs : q # p => tmp'[q] = tmp[q]
            BY <1>9, <2>2 DEF WriteTmpFails, TmpInv, TypeOK
        <3>2. \A c : c \notin {Absent, Partial} => (c \in OnDisk' <=> c \in OnDisk)
            BY <3>1 DEF OnDisk
        <3> QED BY <1>2, <3>1, <3>2 DEF Whole, IsWhole, First, Absent, Partial
    <2> QED BY <1>9, <2>1, <2>2 DEF WriteTmpFails
<1>10. CASE Unlink(p)
    <2>1. tmp[p] = last /\ mem[p] = last /\ IsWhole(last)
        BY <1>10, WrittenIsLast DEF Unlink
    <2>2. CASE FailLeavingTmp(p) /\ UNCHANGED datafile
        BY <1>3, <1>10, <2>2 DEF Unlink
    <2>3. CASE datafile' = Absent /\ UNCHANGED <<tmp, leftover>>
        BY <1>4, <2>1, <2>3 DEF OnDisk, IsWhole, First, Absent
    <2> QED BY <1>10, <2>2, <2>3 DEF Unlink
<1>11. CASE Link(p) \/ Copied(p)
    <2>1. tmp[p] = last /\ mem[p] = last /\ IsWhole(last)
        BY <1>11, WrittenIsLast DEF Link, Copied
    <2>2. datafile' \in {last, Partial} /\ tmp' = tmp
        BY <1>11, <2>1 DEF Link, Copied
    <2> QED BY <1>4, <2>1, <2>2 DEF OnDisk, IsWhole, First, Partial
<1>12. CASE LinkFails(p)
    BY <1>3, <1>12 DEF LinkFails
<1>13. CASE Cleanup(p)
    <2>1. IsWhole(datafile) /\ datafile' = datafile
        BY <1>13, WrittenIsLast DEF Cleanup, BeliefInv, Discipline
    <2> QED BY <1>5, <2>1
<1>14. CASE Expire(p)
    <2>1. UNCHANGED <<datafile, leftover, tmp>> /\ backups' \subseteq backups
        BY <1>14, StoreAssumption DEF Expire, Kept
    <2>2. CASE IsWhole(datafile)
        BY <1>5, <2>1, <2>2
    <2>3. CASE ~IsWhole(datafile)
        <3>1. Whole' \subseteq Whole
            BY <2>1 DEF Whole, OnDisk
        <3>2. ASSUME NEW c \in Whole PROVE \E d \in Whole' : d >= c
            <4>1. CASE c \in backups
                <5>1. PICK d \in Temps : d >= c
                    BY <2>3, <3>2, <4>1 DEF CoverInv, Whole
                <5>2. c \in Nat /\ d \in Nat
                    BY <4>1 DEF Temps, TypeOK, Content
                <5>3. IsWhole(d)
                    BY <3>2, <5>1, <5>2 DEF Whole, IsWhole, First
                <5> QED BY <2>1, <5>1, <5>3 DEF Temps, Whole, OnDisk
            <4>2. CASE c \notin backups
                <5>1. c \in Whole' /\ c \in Nat
                    BY <2>1, <3>2, <4>2, DiskTypes DEF Whole, OnDisk
                <5> QED BY <5>1
            <4> QED BY <4>1, <4>2
        <3>3. Newest' = Newest
            <4>1. CASE Whole = {}
                BY <3>1, <4>1, NewestIs, NextNewest
            <4>2. CASE Whole # {}
                <5>1. Newest \in Whole /\ \A c \in Whole : c <= Newest
                    BY <4>2, NewestIs
                <5>2. PICK d \in Whole' : d >= Newest
                    BY <3>2, <5>1
                <5>3. d = Newest
                    BY <3>1, <5>1, <5>2, DiskTypes DEF Whole
                <5>4. Newest \in Whole' /\ \A c \in Whole' : c <= Newest
                    BY <3>1, <5>1, <5>2, <5>3
                <5>5. Newest' \in Whole' /\ \A c \in Whole' : c <= Newest'
                    BY <5>4, NextNewest
                <5> QED BY <3>1, <5>1, <5>4, <5>5, DiskTypes DEF Whole
            <4> QED BY <4>1, <4>2
        <3>4. Stored' = Stored
            BY <2>1, <3>3 DEF Stored
        <3> QED BY <1>1, <3>4 DEF AtomicStep, Atomic!vars
    <2> QED BY <2>2, <2>3
<1> QED
    BY <1>6, <1>7, <1>8, <1>9, <1>10, <1>11, <1>12, <1>13, <1>14 DEF SaveStep

LEMMA NextAtomic ==
    ASSUME ~ShortWrites, TypeOK, BeliefInv, VersionInv, TmpInv, AtomicInv,
           TypeOK', BoundInv', [Next]_vars
    PROVE  AtomicStep
<1>1. CASE UNCHANGED <<datafile, backups, leftover, tmp, mem>>
    <2>1. Whole' = Whole
        BY <1>1 DEF Whole, OnDisk
    <2> QED BY <1>1, <2>1, StoredStays DEF AtomicStep, Atomic!vars
<1>2. ASSUME NEW p \in Procs,
             \/ \E m \in Modes : BeginCheck(p, m)
             \/ BeginReadOnly(p) \/ GetLock(p) \/ BreakLock(p) \/ Save(p)
      PROVE  UNCHANGED <<datafile, backups, leftover, tmp, mem>>
    BY <1>2 DEF BeginCheck, BeginReadOnly, GetLock, BreakLock, Save, disk
<1>3. CASE UNCHANGED vars
    BY <1>1, <1>3 DEF vars
<1> QED
    BY <1>1, <1>2, <1>3, LeaveAtomic, BookAtomic, SaveAtomic DEF Next, AtomicInv

\* If locks are broken only when no live session holds them, and write(2) writes
\* all it is given, a save is atomic: what a user finds in the data file or, while
\* that is being replaced, in the newest file there is, goes from one whole
\* version to a later one in a single step of a save, and no failed call, no
\* death of a process and no removal of old files brings an older one back.
THEOREM SavingIsAtomic ==
    ~BreakLive /\ ~ShortWrites => (Spec => SavesAreAtomic)
<1> SUFFICES ASSUME ~BreakLive, ~ShortWrites PROVE Spec => SavesAreAtomic
    OBVIOUS
<1> DEFINE I == BeliefInv /\ VersionInv /\ TmpInv /\ AtomicInv
<1>1. Init => TypeOK /\ I /\ Atomic!Init
    <2> SUFFICES ASSUME Init PROVE TypeOK /\ I /\ Atomic!Init
        OBVIOUS
    <2>1. TypeOK
        BY InitTypeOK
    <2>2. BeliefInv /\ VersionInv /\ TmpInv
        BY DEF Init, BeliefInv, LockExclusive, Holds, Discipline, CleanInv, Saving,
           VersionInv, TmpInv, Absent, Partial
    <2>3. AtomicInv
        BY DEF Init, AtomicInv, BoundInv, MemInv, CoverInv, OnDisk, Temps, Bookless,
           Absent, Partial
    <2>4. Stored \in Nat
        BY <2>1, <2>3, StoredBounded DEF AtomicInv
    <2>5. Atomic!Init
        BY <2>4 DEF Init, Atomic!Init, Atomic!Version
    <2> QED BY <2>1, <2>2, <2>3, <2>5
<1>2. TypeOK /\ TypeOK' /\ I /\ [Next]_vars => I' /\ [Atomic!Next]_(Atomic!vars)
    <2> SUFFICES ASSUME TypeOK, TypeOK', I, [Next]_vars
                 PROVE  I' /\ [Atomic!Next]_(Atomic!vars)
        OBVIOUS
    <2>1. BeliefInv' /\ VersionInv' /\ TmpInv'
        BY NextBelief, NextVersion, NextTmp
    <2>2. AtomicInv'
        BY NextBound, NextMem, NextCover DEF AtomicInv
    <2>3. AtomicStep
        BY <2>2, NextAtomic DEF AtomicInv
    <2> QED BY <2>1, <2>2, <2>3 DEF AtomicStep
<1>3. TypeOK /\ [Next]_vars => TypeOK'
    BY NextTypeOK
<1> QED BY <1>1, <1>2, <1>3, PTL DEF Spec, SavesAreAtomic, Atomic!Spec
=============================================================================
