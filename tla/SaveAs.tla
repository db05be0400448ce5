------------------------------- MODULE SaveAs -------------------------------
(***************************************************************************)
(* Save, Save As, autosave, opening another file and quitting:             *)
(* gnome-utils/gnc-file.c and what it uses of qofsession.cpp, qofbook.cpp, *)
(* gnc-autosave.c and gnc-main-window.cpp.                                 *)
(*                                                                         *)
(* One thread runs all of it, but a dialog or a progress bar runs the main *)
(* loop, and the timers that fire there call into the same code: a stack   *)
(* of calls, each waiting in a dialog or a write.  A data store is its     *)
(* contents and its lock; a write changes it as a whole or not at all      *)
(* (AtomicStore).  The contents of a book is a version number.             *)
(***************************************************************************)
EXTENDS Naturals, Sequences, FiniteSets

CONSTANTS
    None, Other,     \* no session, no URI; another program
    Orphan,          \* a lock that no session is going to take back
    Sessions,        \* names for QofSession objects
    Uris,            \* data stores
    Sql,             \* those that are databases
    MaxVersion,      \* bound: versions of the book
    MaxDepth         \* bound: calls that wait on one another

ASSUME SaveAsAssumption ==
    /\ Sql \subseteq Uris
    /\ {None, Other, Orphan} \cap (Sessions \cup Uris) = {}
    /\ None # Other /\ Orphan \notin {None, Other}
    /\ MaxVersion \in Nat \ {0} /\ MaxDepth \in Nat \ {0}

Version == 0..MaxVersion
Empty == 0           \* the contents of a new book

VARIABLES
    store,    \* store[u]: the version in store u, or None
    lock,     \* lock[u]: the session that has locked u, Other, Orphan or None
    sess,     \* sess[s]: a QofSession
    cur,      \* current_session
    book,     \* the user's book
    stack,    \* the calls under way, the innermost last
    been,     \* been_here_before
    quit,     \* "no", "timed" (gnc_main_window_timed_quit is set), "over"
    last,     \* number of the last version
    asked,    \* history: the version the user has agreed to discard
    detached  \* history: a failed Save As left a database's book without backend

stores == <<store, lock>>
vars == <<stores, sess, cur, book, stack, been, quit, last, asked, detached>>

\* uri is m_uri, be the store of m_backend, book whether m_book is the book.
Dead == [live |-> FALSE, uri |-> None, be |-> None, book |-> FALSE]
\* be is the session whose backend is book->backend.
Book == [mem : Version, be : Sessions \cup {None}, dirty : BOOLEAN,
         readonly : BOOLEAN, timer : BOOLEAN]

\* A call: what it waits in, and for Save As its session, new_session and newfile.
Call(pc) == [pc |-> pc, session |-> None, new |-> None, to |-> None]
Top == stack[Len(stack)]
Below == SubSeq(stack, 1, Len(stack) - 1)
In(pc) == stack # <<>> /\ Top.pc = pc
Goto(pc) == stack' = Append(Below, [Top EXCEPT !.pc = pc])
Return == stack' = Below

\* gnc_file_save_in_progress: between save_in_progress++ and --.
SavingAt == {"writing", "exists", "locked", "writing_new", "new_error"}
MutSaving == FALSE
Saving == \E i \in 1..Len(stack) : stack[i].pc \in SavingAt

Init ==
    /\ store \in [Uris -> {None, 1}]
    /\ lock \in [Uris -> {None, Other}]
    /\ cur \in Sessions
    /\ sess = [s \in Sessions |-> [Dead EXCEPT !.live = (s = cur), !.book = (s = cur)]]
    /\ book = [mem |-> Empty, be |-> None, dirty |-> FALSE,
               readonly |-> FALSE, timer |-> FALSE]
    /\ stack = <<>> /\ been = FALSE /\ quit = "no"
    /\ last = 1 /\ asked = None /\ detached = FALSE

-----------------------------------------------------------------------------
(* The book and the sessions.                                              *)

\* qof_book_mark_session_dirty and _saved with gnc_autosave_dirty_handler.
MarkDirty(b, saving) ==
    IF b.dirty THEN b
    ELSE [b EXCEPT !.dirty = TRUE, !.timer = IF b.readonly THEN @ ELSE ~saving]
MarkSaved(b) == IF b.dirty THEN [b EXCEPT !.dirty = FALSE, !.timer = FALSE] ELSE b

\* A change is committed (qof_commit_edit_part2).  A database backend writes it
\* and marks the whole book saved, or refuses it, and then it is rolled back;
\* with another one, or none, the book is dirty.
Edit ==
    /\ stack = <<>> /\ quit = "no" /\ ~book.readonly
    /\ last < MaxVersion /\ last' = last + 1
    /\ LET changed == MarkDirty([book EXCEPT !.mem = last + 1], Saving) IN
       IF book.be # None /\ sess[book.be].be \in Sql
       THEN \/ /\ store' = [store EXCEPT ![sess[book.be].be] = last + 1]
               /\ book' = MarkSaved(changed)
            \/ book' = MarkDirty(book, Saving) /\ UNCHANGED store
       ELSE book' = changed /\ UNCHANGED store
    /\ UNCHANGED <<lock, sess, cur, stack, been, quit, asked, detached>>

\* qof_session_destroy: end() ends the session of the book's backend, which a
\* swap has taken from it; the destructor of the session's own backend unlocks.
MutUnlocks(s, u) == book.be = s /\ lock[u] = s
Unlocks(s, u) == lock[u] = s

\* But GncXmlBackend::session_end returns early if its m_book, which load or
\* sync has set, is read-only: the lock file stays.
ReadOnlyFile(u) == u \notin Sql /\ book.readonly
Unlocked(s) ==
    [u \in Uris |-> IF ~Unlocks(s, u) THEN lock[u]
                    ELSE IF ReadOnlyFile(u) THEN Orphan ELSE None]

\* Other programs lock, breaking a lock that has no session, and unlock a store
\* that this one does not have.
OtherProgram(u) ==
    /\ lock[u] \in {None, Other, Orphan} /\ \A s \in Sessions : sess[s].be # u
    /\ lock' = [lock EXCEPT ![u] = IF @ = Other THEN None ELSE Other]
    /\ UNCHANGED <<store, sess, cur, book, stack, been, quit, last, asked, detached>>

-----------------------------------------------------------------------------
(* gnc_file_save.                                                          *)

\* gnc_file_save is called on top of base: it goes on to Save As, has nothing to
\* do, or writes the book.
SaveFrom(base, b) ==
    \/ /\ sess[cur].uri = None \/ b.readonly
       /\ stack' = Append(base, Call("choosing")) /\ book' = b
    \/ /\ sess[cur].uri # None /\ (b.readonly \/ ~b.dirty)
       /\ stack' = base /\ book' = b
    \/ /\ sess[cur].uri # None /\ ~b.readonly /\ b.dirty
       /\ stack' = Append(base, Call("writing")) /\ book' = [b EXCEPT !.be = cur]

\* File > Save; nothing else is being saved and no dialog is up.
Save ==
    /\ stack = <<>> /\ quit = "no"
    /\ SaveFrom(<<>>, book)
    /\ UNCHANGED <<stores, sess, cur, been, quit, last, asked, detached>>

\* qof_session_save returns.
Written ==
    /\ In("writing") /\ Return
    /\ store' = [store EXCEPT ![sess[cur].be] = book.mem]
    /\ book' = MarkSaved(book)
    /\ detached' = FALSE
    /\ UNCHANGED <<lock, sess, cur, been, quit, last, asked>>

NotWritten ==
    /\ In("writing") /\ Goto("save_error")
    /\ UNCHANGED <<stores, sess, cur, book, been, quit, last, asked, detached>>

\* After the error dialog comes Save As, unless that is where the call is from.
SaveErrorRead ==
    /\ In("save_error")
    /\ IF been THEN Return /\ UNCHANGED been
       ELSE /\ been' = TRUE
            /\ stack' = Below \o <<Call("saved_as"), Call("choosing")>>
    /\ UNCHANGED <<stores, sess, cur, book, quit, last, asked, detached>>

SavedAs ==
    /\ In("saved_as") /\ Return
    /\ been' = FALSE
    /\ UNCHANGED <<stores, sess, cur, book, quit, last, asked, detached>>

-----------------------------------------------------------------------------
(* gnc_file_do_save_as.                                                    *)

\* File > Save As.
ChooseFile ==
    /\ stack = <<>> /\ quit = "no"
    /\ stack' = <<Call("choosing")>>
    /\ UNCHANGED <<stores, sess, cur, book, been, quit, last, asked, detached>>

\* The dialog is closed, or the file is the current one.
ChooseNone ==
    /\ In("choosing")
    /\ \/ Return /\ UNCHANGED book
       \/ sess[cur].uri # None /\ SaveFrom(Below, book)
    /\ UNCHANGED <<stores, sess, cur, been, quit, last, asked, detached>>

\* qof_session_ensure_all_data_loaded: the backend of a database loads all
\* transactions and ends by marking the book saved (GncSqlBackend::load).
AllLoaded ==
    IF sess[cur].be = None THEN book
    ELSE IF sess[cur].be \in Sql THEN MarkSaved([book EXCEPT !.be = cur])
    ELSE [book EXCEPT !.be = cur]

\* new_session has begun, with the lock of u: the books are swapped (new_session
\* had none), which takes the backend from the book; the book is marked dirty
\* so that it is saved, and the new session starts to write it.
MutMarked(b) == b
Marked(b) == MarkDirty(b, TRUE)
MutBackendLeft(b) == b
BackendLeft(b) == [b EXCEPT !.be = None]

Begun(n, u, b) ==
    LET swapped == Marked(BackendLeft(b)) IN
    /\ lock' = [lock EXCEPT ![u] = n]
    /\ sess' = [sess EXCEPT ![n] = [live |-> TRUE, uri |-> u, be |-> u, book |-> TRUE],
                            ![cur].book = FALSE]
    /\ book' = IF swapped.dirty THEN [swapped EXCEPT !.be = n] ELSE swapped
    /\ stack' = Append(Below, [pc |-> "writing_new", session |-> cur, new |-> n,
                               to |-> u])

\* qof_session_begin with SESSION_NEW_STORE: it succeeds, asks, or fails; then
\* new_session is destroyed.
Choose(n, u) ==
    /\ In("choosing") /\ quit # "over"
    /\ u # sess[cur].uri /\ ~sess[n].live
    /\ LET ask(pc) ==
             /\ stack' = Append(Below, [pc |-> pc, session |-> cur, new |-> n, to |-> u])
             /\ sess' = [sess EXCEPT ![n] = [Dead EXCEPT !.live = TRUE]]
             /\ book' = AllLoaded /\ UNCHANGED lock
       IN \/ store[u] # None /\ ask("exists")
          \/ store[u] = None /\ lock[u] \in {Other, Orphan} /\ ask("locked")
          \/ store[u] = None /\ lock[u] = None /\ Begun(n, u, AllLoaded)
          \/ Return /\ book' = AllLoaded /\ UNCHANGED <<sess, lock>>
    /\ UNCHANGED <<store, cur, been, quit, last, asked, detached>>

\* The answer: begin again with SESSION_NEW_OVERWRITE or SESSION_BREAK_LOCK, ...
Replace ==
    /\ \/ In("exists") /\ lock[Top.to] = None
       \/ In("locked")
    /\ Begun(Top.new, Top.to, book)
    /\ UNCHANGED <<store, cur, been, quit, last, asked, detached>>

\* ... or, on a refusal or another error, new_session is destroyed.
GiveUp ==
    /\ In("exists") \/ In("locked")
    /\ Return
    /\ sess' = [sess EXCEPT ![Top.new] = Dead]
    /\ lock' = Unlocked(Top.new)
    /\ UNCHANGED <<store, cur, book, been, quit, last, asked, detached>>

\* The write has succeeded, which GncXmlBackend::sync refuses to do for a
\* read-only book: the old session is destroyed.
WrittenNew ==
    /\ In("writing_new") /\ ~ReadOnlyFile(Top.to) /\ Return
    /\ store' = IF book.dirty THEN [store EXCEPT ![Top.to] = book.mem] ELSE store
    /\ book' = MarkSaved(book)
    /\ sess' = [sess EXCEPT ![cur] = Dead]
    /\ lock' = Unlocked(cur)
    /\ cur' = Top.new
    /\ detached' = FALSE
    /\ UNCHANGED <<been, quit, last, asked>>

NotWrittenNew ==
    /\ In("writing_new") /\ book.dirty /\ Goto("new_error")
    /\ UNCHANGED <<stores, sess, cur, book, been, quit, last, asked, detached>>

\* It has failed, and the error dialog is closed: the books are swapped again,
\* and the book is left without a backend.
Restored(s) == [sess EXCEPT ![Top.new] = Dead, ![s].book = TRUE]

NewErrorRead ==
    /\ In("new_error") /\ Return
    /\ sess' = Restored(Top.session)
    /\ lock' = Unlocked(Top.new)
    /\ book' = BackendLeft(book)
    /\ detached' = (detached \/ sess[Top.session].be \in Sql)
    /\ UNCHANGED <<store, cur, been, quit, last, asked>>

-----------------------------------------------------------------------------
(* Timers, which fire in a dialog and under a progress bar as well.        *)

\* No call is on its way from one dialog to the next.
Waiting == ~In("saved_as") /\ ~In("prompt_saved") /\ Len(stack) < MaxDepth

NoTimer(b) == [b EXCEPT !.timer = FALSE]

\* autosave_timeout_cb: the timer is gone, whether or not the book is saved.
Autosave ==
    /\ book.timer /\ quit # "over" /\ Waiting
    /\ \/ /\ Saving \/ book.readonly
          /\ book' = NoTimer(book) /\ UNCHANGED stack
       \/ /\ ~Saving /\ ~book.readonly
          /\ SaveFrom(stack, NoTimer(book))
    /\ UNCHANGED <<stores, sess, cur, been, quit, last, asked, detached>>

-----------------------------------------------------------------------------
(* Quitting and opening another file.                                      *)

\* gnc_main_window_quit, also when the window is closed under a progress bar:
\* it does not ask while a save is in progress.
Quit ==
    /\ quit = "no"
    /\ stack = <<>> \/ In("writing") \/ In("writing_new")
    /\ \/ /\ book.dirty /\ ~Saving
          /\ stack' = Append(stack, Call("prompt")) /\ book' = NoTimer(book)
          /\ UNCHANGED quit
       \/ /\ ~book.dirty \/ Saving
          /\ quit' = "timed" /\ UNCHANGED <<stack, book>>
    /\ UNCHANGED <<stores, sess, cur, been, last, asked, detached>>

\* gnc_main_window_prompt_for_save: cancel, close without saving, or save.
Prompted ==
    /\ In("prompt")
    /\ \/ Return /\ UNCHANGED <<book, quit, asked>>
       \/ /\ Return /\ book' = MarkSaved(book)
          /\ quit' = "timed" /\ asked' = book.mem
       \/ /\ SaveFrom(Append(Below, Call("prompt_saved")), book)
          /\ UNCHANGED <<quit, asked>>
    /\ UNCHANGED <<stores, sess, cur, been, last, detached>>

\* However that went, the windows are closed and a timer is set ...
PromptSaved ==
    /\ In("prompt_saved") /\ Return
    /\ quit' = "timed"
    /\ UNCHANGED <<stores, sess, cur, book, been, last, asked, detached>>

\* ... in which gnc_main_window_timed_quit calls gnc_shutdown, which asks
\* (gnc_file_query_save), when no save is in progress any more.
TimedQuit ==
    /\ quit = "timed" /\ ~Saving /\ Waiting
    /\ quit' = "asking"
    /\ stack' = Append(stack, Call("query_quit")) /\ book' = NoTimer(book)
    /\ UNCHANGED <<stores, sess, cur, been, last, asked, detached>>

\* gnc_file_open.
OpenFile ==
    /\ stack = <<>> /\ quit = "no"
    /\ stack' = <<Call("query_open")>> /\ book' = NoTimer(book)
    /\ UNCHANGED <<stores, sess, cur, been, quit, last, asked, detached>>

\* The answers of gnc_file_query_save that do not go on: to save, after which
\* it asks again, and to cancel, which a shutdown takes for "continue".
QueryAnswered ==
    /\ book.dirty
    /\ \/ /\ In("query_quit") \/ In("query_open")
          /\ Len(stack) < MaxDepth /\ SaveFrom(stack, book)
       \/ In("query_open") /\ Return /\ UNCHANGED book
    /\ UNCHANGED <<stores, sess, cur, been, quit, last, asked, detached>>

\* There is nothing to save, or the user goes on without saving.
Answered(pc) == In(pc) /\ asked' = IF book.dirty THEN book.mem ELSE asked

\* gnc_file_quit.
Shutdown ==
    /\ Answered("query_quit")
    /\ quit' = "over" /\ stack' = <<>>
    /\ sess' = [sess EXCEPT ![cur] = Dead]
    /\ lock' = Unlocked(cur)
    /\ UNCHANGED <<store, cur, book, been, last, detached>>

MutExists(u) == TRUE
Exists(u) == store[u] # None

\* gnc_post_file_open: the current session is destroyed, then a new one begins
\* and loads the file: with its lock, broken if another program has it, or
\* read-only, as is a database of another version although it is locked.  If
\* that fails there is an empty book.
Opened(s, u, locks, readonly) ==
    /\ Exists(u)
    /\ ~locks => readonly
    /\ locks /\ readonly => u \in Sql
    /\ sess' = [sess EXCEPT ![cur] = Dead,
                            ![s] = [live |-> TRUE, uri |-> u, be |-> u, book |-> TRUE]]
    /\ lock' = IF locks THEN [Unlocked(cur) EXCEPT ![u] = s] ELSE Unlocked(cur)
    /\ book' = [mem |-> store[u], be |-> s, dirty |-> FALSE,
                readonly |-> readonly, timer |-> FALSE]

OpenFails(s) ==
    /\ sess' = [sess EXCEPT ![cur] = Dead,
                            ![s] = [Dead EXCEPT !.live = TRUE, !.book = TRUE]]
    /\ lock' = Unlocked(cur)
    /\ book' = [mem |-> Empty, be |-> None, dirty |-> FALSE,
                readonly |-> FALSE, timer |-> FALSE]

Open(s) ==
    /\ Answered("query_open") /\ ~sess[s].live
    /\ Return
    /\ \/ OpenFails(s)
       \/ \E u \in Uris, locks, readonly \in BOOLEAN : Opened(s, u, locks, readonly)
    /\ cur' = s /\ detached' = FALSE
    /\ UNCHANGED <<store, been, quit, last>>

-----------------------------------------------------------------------------

Next ==
    \/ Edit \/ Save \/ Written \/ NotWritten \/ SaveErrorRead \/ SavedAs
    \/ ChooseFile \/ ChooseNone \/ Replace \/ GiveUp
    \/ WrittenNew \/ NotWrittenNew \/ NewErrorRead
    \/ Autosave \/ Quit \/ Prompted \/ PromptSaved \/ TimedQuit
    \/ OpenFile \/ QueryAnswered \/ Shutdown
    \/ \E s \in Sessions : Open(s) \/ \E u \in Uris : Choose(s, u)
    \/ \E u \in Uris : OtherProgram(u)

Spec == Init /\ [][Next]_vars

-----------------------------------------------------------------------------
(* Properties.                                                             *)

TypeOK ==
    /\ store \in [Uris -> Version \cup {None}]
    /\ lock \in [Uris -> Sessions \cup {None, Other, Orphan}]
    /\ sess \in [Sessions -> [live : BOOLEAN, uri : Uris \cup {None},
                              be : Uris \cup {None}, book : BOOLEAN]]
    /\ cur \in Sessions /\ book \in Book
    /\ been \in BOOLEAN /\ detached \in BOOLEAN
    /\ quit \in {"no", "timed", "asking", "over"}
    /\ last \in Version /\ asked \in Version \cup {None}

\* The session that a Save As took for the current one when it began is the
\* current one, and alive, for as long as the Save As uses it, in spite of the
\* timers and questions that call into saving and quitting meanwhile.
CapturedIsCurrent ==
    \A i \in 1..Len(stack) :
        stack[i].session # None =>
            /\ stack[i].session = cur /\ sess[cur].live
            /\ sess[stack[i].new].live

\* The user's book is in one session: the new one of a Save As that is writing
\* it, else the current one, also after a Save As that failed.  Commits go to
\* the backend of that session, if to any: never to the one of a session that
\* Save As has replaced or given up.
Moved == {stack[i].new : i \in {j \in 1..Len(stack) :
                                stack[j].pc \in {"writing_new", "new_error"}}}

BookHasItsSession ==
    quit # "over" =>
        /\ {s \in Sessions : sess[s].live /\ sess[s].book}
              = IF Moved = {} THEN {cur} ELSE Moved
        /\ book.be # None => sess[book.be].live /\ sess[book.be].book

\* So the sessions are where the code under way believes them to be.
SessionsInPlace == CapturedIsCurrent /\ BookHasItsSession

\* This program has locked a store only for a live session that uses it, so no
\* Save As, given up, done or failed, leaves a store locked; and a store it may
\* write to is locked.  The exception is a Save As of a read-only book: the lock
\* it leaves is then no session's, and it is that of a file, not of a database.
LocksAreUsed ==
    /\ \A u \in Uris :
         /\ lock[u] \in Sessions => sess[lock[u]].live /\ sess[lock[u]].be = u
         /\ lock[u] = Orphan => u \notin Sql
    /\ \A s \in Sessions : sess[s].be # None /\ ~book.readonly =>
            lock[sess[s].be] = s

\* What the session's store holds, the user's agreement to discard, or a new
\* book account for what is in memory.
Kept(discard) ==
    \/ sess[cur].uri # None /\ store[sess[cur].uri] = book.mem
    \/ discard = book.mem \/ book.mem = Empty

\* qof_book_session_not_saved returns FALSE only if the backend has written out
\* what was committed (engine/qofbook.h).
CleanIsSaved == ~book.dirty /\ quit # "over" => Kept(asked)

\* The same, but for the time after a Save As from a database has failed.
CleanUnlessDetached == ~detached => CleanIsSaved

\* The current session is destroyed with the book in it only if the book is
\* stored or the user has agreed to discard this very version of it, whatever
\* saves and questions were under way when that was decided (with the same
\* exception).
DiscardsAsked ==
    [][sess[cur].book /\ ~sess'[cur].live /\ ~detached => Kept(asked')]_vars
=============================================================================
