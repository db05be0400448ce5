---------------------------- MODULE SaveAsProofs ----------------------------
(***************************************************************************)
(* Save As, autosave, open and quit, for any number of sessions and data   *)
(* stores, versions of the book and calls that wait on one another.        *)
(*                                                                         *)
(* A call that is saving is the innermost one (StackInv): a timer that     *)
(* fires meanwhile finds a save in progress.  So it alone decides which    *)
(* sessions there are and which of them has the book (SessInv), and with   *)
(* that which stores are locked and what they hold.                        *)
(***************************************************************************)
EXTENDS SaveAs, SequenceTheorems, TLAPS

\* Save As between qof_session_begin and its end, and while it has the book in
\* the new session.
Captured == {"exists", "locked", "writing_new", "new_error"}
Moving   == {"writing_new", "new_error"}
Pcs == SavingAt \cup {"choosing", "save_error", "saved_as", "prompt",
                      "prompt_saved", "query_quit", "query_open"}

CallType == [pc : Pcs, session : Sessions \cup {None}, new : Sessions \cup {None},
             to : Uris \cup {None}]

\* Calls on which another can be made: none of them is saving.
Quiet(calls) ==
    /\ calls \in Seq(CallType)
    /\ \A i \in 1 .. Len(calls) : calls[i].pc \notin SavingAt /\ calls[i].session = None

StackInv ==
    /\ stack \in Seq(CallType)
    /\ stack # <<>> => Quiet(Below) /\ (Top.pc \notin Captured => Top.session = None)

\* The innermost call.
Idle == Call("idle")
Now  == IF stack = <<>> THEN Idle ELSE Top

SessInv ==
    /\ \A s \in Sessions : /\ ~sess[s].live => sess[s] = Dead
                           /\ sess[s].uri = sess[s].be
    /\ quit = "over" => stack = <<>> /\ \A s \in Sessions : ~sess[s].live
    /\ quit # "over" =>
         /\ \A s \in Sessions :
              sess[s].live <=> s = cur \/ (Now.pc \in Captured /\ s = Now.new)
         /\ Now.pc \in Captured =>
              /\ Now.session = cur /\ Now.new \in Sessions /\ Now.new # cur
              /\ Now.to \in Uris /\ Now.to # sess[cur].be
         /\ Now.pc \in {"exists", "locked"} => sess[Now.new] = [Dead EXCEPT !.live = TRUE]
         /\ Now.pc \in Moving =>
              /\ sess[Now.new].be = Now.to /\ sess[Now.new].book /\ ~sess[cur].book
              /\ book.be = Now.new /\ book.dirty
         /\ Now.pc \notin Moving => sess[cur].book /\ book.be \in {cur, None}
         /\ Now.pc = "writing" => sess[cur].be # None /\ book.be = cur

\* What the data stores hold.
StoredInv == quit # "over" /\ ~detached =>
    /\ ~book.dirty => Kept(asked)
    /\ Now.pc \notin Moving /\ sess[cur].be \in Sql =>
         book.be = cur /\ store[sess[cur].be] = book.mem

-----------------------------------------------------------------------------
(* Calls that wait on one another.                                         *)

\* A step leaves base with the call c, or nothing, on it.
Pushed(base, c) ==
    /\ Quiet(base) /\ c \in CallType /\ (c.pc \notin Captured => c.session = None)
    /\ stack' = Append(base, c)
Popped(base) == Quiet(base) /\ stack' = base

LEMMA CallTyped ==
    ASSUME NEW pc \in Pcs
    PROVE  Call(pc) \in CallType /\ Call(pc).pc = pc /\ Call(pc).session = None
BY DEF Call, CallType

LEMMA Inner ==
    ASSUME StackInv, NEW pc, In(pc)
    PROVE  /\ Now = Top /\ Now.pc = pc /\ Now \in CallType /\ stack # <<>>
           /\ Quiet(Below)
BY DEF StackInv, In, Now, Top

LEMMA QuietNil == Quiet(<<>>)
BY DEF Quiet

LEMMA QuietAppend ==
    ASSUME NEW base, Quiet(base), NEW c \in CallType,
           c.pc \notin SavingAt, c.session = None
    PROVE  Quiet(Append(base, c))
BY DEF Quiet

\* All calls but the innermost.
LEMMA Outer ==
    ASSUME NEW calls \in Seq(CallType), calls # <<>>
    PROVE  LET outer == SubSeq(calls, 1, Len(calls) - 1) IN
           /\ outer \in Seq(CallType) /\ Len(outer) = Len(calls) - 1
           /\ Len(calls) \in Nat \ {0}
           /\ \A i \in 1 .. Len(calls) - 1 : outer[i] = calls[i]
<1> DEFINE n == Len(calls) - 1
<1>1. n \in Nat /\ Len(calls) \in Nat \ {0} /\ \A i \in 1 .. n : calls[i] \in CallType
  OBVIOUS
<1> HIDE DEF n
<1>2. /\ SubSeq(calls, 1, n) \in Seq(CallType) /\ Len(SubSeq(calls, 1, n)) = n
      /\ \A i \in 1 .. n : SubSeq(calls, 1, n)[i] = calls[i]
  BY <1>1, SubSeqProperties
<1> QED BY <1>1, <1>2 DEF n

\* Nothing is saving, so another call can be made.
LEMMA QuietStack ==
    ASSUME StackInv, Now.pc \notin SavingAt
    PROVE  Quiet(stack)
<1>1. CASE stack = <<>>
  BY <1>1 DEF Quiet
<1>2. CASE stack # <<>>
  <2>1. /\ Len(stack) \in Nat \ {0} /\ Len(Below) = Len(stack) - 1
        /\ \A i \in 1 .. Len(stack) - 1 : Below[i] = stack[i]
    BY <1>2, Outer DEF StackInv, Below
  <2>2. \A i \in 1 .. Len(stack) - 1 : stack[i].pc \notin SavingAt /\ stack[i].session = None
    BY <1>2, <2>1 DEF StackInv, Quiet
  <2>3. stack[Len(stack)].pc \notin SavingAt /\ stack[Len(stack)].session = None
    BY <1>2 DEF StackInv, Now, Top, Captured, SavingAt
  <2> QED BY <2>1, <2>2, <2>3 DEF Quiet, StackInv
<1> QED BY <1>1, <1>2

LEMMA SavingNow ==
    ASSUME StackInv
    PROVE  Saving <=> Now.pc \in SavingAt
<1>1. CASE Now.pc \in SavingAt
  BY <1>1 DEF StackInv, Now, Top, Idle, Call, SavingAt, Saving
<1>2. CASE Now.pc \notin SavingAt
  BY <1>2, QuietStack DEF Quiet, Saving
<1> QED BY <1>1, <1>2

LEMMA Push ==
    ASSUME NEW base, NEW c, Pushed(base, c)
    PROVE  StackInv' /\ Now' = c /\ stack' # <<>>
<1>1. /\ base \in Seq(CallType) /\ stack' = Append(base, c) /\ c \in CallType
      /\ Len(stack') = Len(base) + 1 /\ Len(base) \in Nat
  BY DEF Pushed, Quiet
<1>2. stack' \in Seq(CallType) /\ stack' # <<>> /\ stack'[Len(stack')] = c
  BY <1>1
<1>3. SubSeq(stack', 1, Len(stack') - 1) = base
  BY <1>1
<1> QED BY <1>2, <1>3 DEF StackInv, Now, Top, Below, Pushed

LEMMA Pop ==
    ASSUME NEW base, Popped(base)
    PROVE  StackInv' /\ Now'.pc \notin SavingAt /\ Now'.session = None
<1>1. CASE base = <<>>
  BY <1>1 DEF Popped, Quiet, StackInv, Now, Idle, Call, SavingAt
<1>2. CASE base # <<>>
  <2>1. /\ base \in Seq(CallType) /\ Len(base) \in Nat \ {0} /\ stack' = base
        /\ \A i \in 1 .. Len(base) : base[i].pc \notin SavingAt /\ base[i].session = None
    BY <1>2 DEF Popped, Quiet
  <2>2. /\ SubSeq(base, 1, Len(base) - 1) \in Seq(CallType)
        /\ Len(SubSeq(base, 1, Len(base) - 1)) = Len(base) - 1
        /\ \A i \in 1 .. Len(base) - 1 : SubSeq(base, 1, Len(base) - 1)[i] = base[i]
    BY <1>2, <2>1, Outer
  <2>3. Quiet(SubSeq(base, 1, Len(base) - 1))
    BY <2>1, <2>2 DEF Quiet
  <2> QED BY <1>2, <2>1, <2>3 DEF StackInv, Now, Top, Below
<1> QED BY <1>1, <1>2

\* gnc_file_save called on top of base.
Resting(b) == Now'.pc \notin SavingAt /\ book' = b
Writing(b) ==
    /\ Now'.pc = "writing"
    /\ sess[cur].uri # None /\ ~b.readonly /\ b.dirty
    /\ book' = [b EXCEPT !.be = cur]

LEMMA SaveStep ==
    ASSUME NEW base, Quiet(base), NEW b, SaveFrom(base, b)
    PROVE  StackInv' /\ (Resting(b) \/ Writing(b))
<1>1. CASE stack' = Append(base, Call("choosing")) /\ book' = b
  <2>1. Pushed(base, Call("choosing"))
    BY <1>1, CallTyped DEF Pushed, Pcs
  <2> QED BY <1>1, <2>1, Push, CallTyped DEF Resting, Pcs, SavingAt
<1>2. CASE stack' = base /\ book' = b
  BY <1>2, Pop DEF Popped, Resting
<1>3. CASE /\ sess[cur].uri # None /\ ~b.readonly /\ b.dirty
           /\ stack' = Append(base, Call("writing")) /\ book' = [b EXCEPT !.be = cur]
  <2>1. Pushed(base, Call("writing"))
    BY <1>3, CallTyped DEF Pushed, Pcs, SavingAt
  <2> QED BY <1>3, <2>1, Push, CallTyped DEF Writing, Pcs, SavingAt
<1> QED BY <1>1, <1>2, <1>3 DEF SaveFrom

-----------------------------------------------------------------------------
(* Steps that change neither the sessions nor what is stored: the dialogs, *)
(* the timers and the calls they make.                                     *)

Aside ==
    /\ UNCHANGED <<stores, sess, cur, last, detached>>
    /\ quit # "over" /\ quit' # "over"
    /\ \/ Now' = Now /\ book' \in {book, NoTimer(book)} /\ UNCHANGED asked
       \/ /\ Now.pc \notin Captured /\ Now'.pc \notin SavingAt
          /\ book' \in {book, NoTimer(book)} /\ UNCHANGED asked
       \/ /\ Now.pc \notin Captured /\ Now'.pc \notin SavingAt
          /\ book' = MarkSaved(book) /\ asked' = book.mem
       \/ /\ Now.pc \notin SavingAt /\ UNCHANGED asked
          /\ \E b \in {book, NoTimer(book)} : Writing(b)

AsideTypes ==
    /\ been \in BOOLEAN => been' \in BOOLEAN
    /\ quit \in {"no", "timed", "asking", "over"} => quit' \in {"no", "timed", "asking"}

Calls == NotWritten \/ SaveErrorRead \/ SavedAs \/ ChooseFile \/ ChooseNone \/ Save
         \/ Autosave \/ Quit \/ Prompted \/ PromptSaved \/ TimedQuit \/ OpenFile
         \/ QueryAnswered

\* The program is not over while a call is under way.
Running == quit = "over" => stack = <<>>

\* Calls made from the main loop, on no other one.
LEMMA FirstCalls ==
    ASSUME StackInv, Running, Save \/ ChooseFile \/ OpenFile
    PROVE  StackInv' /\ Aside /\ AsideTypes
<1> USE DEF Aside, AsideTypes
<1>0. stack = <<>> /\ quit = "no" /\ Now.pc \notin SavingAt
  BY DEF Save, ChooseFile, OpenFile, Now, Idle, Call, SavingAt
<1>1. CASE Save
  <2>1. StackInv' /\ (Resting(book) \/ Writing(book))
    BY <1>1, QuietNil, SaveStep DEF Save
  <2> QED BY <1>0, <1>1, <2>1 DEF Save, Resting, Captured, SavingAt
<1>2. CASE ChooseFile
  <2>1. stack' = Append(<<>>, Call("choosing")) /\ Pushed(<<>>, Call("choosing"))
    BY <1>2, QuietNil, CallTyped DEF ChooseFile, Pushed, Pcs
  <2> QED BY <1>0, <1>2, <2>1, Push, CallTyped DEF ChooseFile, Captured, SavingAt, Pcs
<1>3. CASE OpenFile
  <2>1. stack' = Append(<<>>, Call("query_open")) /\ Pushed(<<>>, Call("query_open"))
    BY <1>3, QuietNil, CallTyped DEF OpenFile, Pushed, Pcs
  <2> QED BY <1>0, <1>3, <2>1, Push, CallTyped DEF OpenFile, Captured, SavingAt, Pcs
<1> QED BY <1>1, <1>2, <1>3

LEMMA Returns ==
    ASSUME StackInv, Running, NEW pc \in Pcs, In(pc), Return
    PROVE  StackInv' /\ Now'.pc \notin SavingAt /\ quit # "over"
BY Inner, Pop DEF Return, Popped, Running

\* Calls that return or go on to another question.
LEMMA InnerCalls ==
    ASSUME StackInv, Running,
           NotWritten \/ SaveErrorRead \/ SavedAs \/ ChooseNone \/ PromptSaved
    PROVE  StackInv' /\ Aside /\ AsideTypes
<1> USE DEF Aside, AsideTypes
<1>1. CASE NotWritten
  <2>1. Pushed(Below, [Top EXCEPT !.pc = "save_error"])
    BY <1>1, Inner, SMTT(30) DEF NotWritten, Goto, Pushed, CallType, StackInv, Captured, Pcs
  <2>2. Now'.pc = "save_error" /\ StackInv'
    BY <1>1, <2>1, Push, Inner DEF NotWritten, CallType
  <2> QED BY <1>1, <2>2, Inner DEF NotWritten, Captured, SavingAt, Running
<1>2. CASE SaveErrorRead
  <2>1. Now.pc = "save_error" /\ Quiet(Below) /\ quit # "over"
    BY <1>2, Inner DEF SaveErrorRead, Running
  <2>2. CASE been
    BY <1>2, <2>1, <2>2, Returns DEF SaveErrorRead, Captured, Pcs
  <2>3. CASE ~been
    <3>1. stack' = Append(Append(Below, Call("saved_as")), Call("choosing"))
      <4>1. Below \in Seq(CallType) /\ Call("saved_as") \in CallType /\ Call("choosing") \in CallType
        BY <2>1, CallTyped DEF Quiet, Pcs
      <4> QED BY <1>2, <2>3, <4>1 DEF SaveErrorRead
    <3>2. Pushed(Append(Below, Call("saved_as")), Call("choosing"))
      BY <2>1, <3>1, QuietAppend, CallTyped DEF Pushed, Pcs, SavingAt
    <3> QED BY <1>2, <2>1, <2>3, <3>2, Push, CallTyped DEF SaveErrorRead, Captured, Pcs, SavingAt
  <2> QED BY <2>2, <2>3
<1>3. CASE SavedAs
  <2>1. Now.pc = "saved_as" /\ Return /\ been' = FALSE /\ UNCHANGED <<book, quit, asked>>
    BY <1>3, Inner DEF SavedAs
  <2>2. StackInv' /\ Now'.pc \notin SavingAt /\ quit # "over"
    BY <1>3, Returns DEF SavedAs, Pcs
  <2> QED BY <1>3, <2>1, <2>2 DEF SavedAs, Captured
<1>4. CASE ChooseNone
  <2>1. Now.pc = "choosing" /\ Quiet(Below) /\ quit # "over"
    BY <1>4, Inner DEF ChooseNone, Running
  <2>2. CASE Return /\ UNCHANGED book
    BY <1>4, <2>1, <2>2, Returns DEF ChooseNone, Captured, Pcs
  <2>3. CASE SaveFrom(Below, book)
    <3>1. StackInv' /\ (Resting(book) \/ Writing(book))
      BY <2>1, <2>3, SaveStep
    <3> QED BY <1>4, <2>1, <3>1 DEF ChooseNone, Resting, Captured, SavingAt
  <2> QED BY <1>4, <2>2, <2>3 DEF ChooseNone
<1>5. CASE PromptSaved
  BY <1>5, Inner, Returns DEF PromptSaved, Captured, Pcs
<1> QED BY <1>1, <1>2, <1>3, <1>4, <1>5

\* Timers.
LEMMA TimerCalls ==
    ASSUME StackInv, Running, Autosave \/ TimedQuit
    PROVE  StackInv' /\ Aside /\ AsideTypes
<1> USE DEF Aside, AsideTypes
<1>1. CASE Autosave
  <2>1. CASE book' = NoTimer(book) /\ UNCHANGED stack
    BY <1>1, <2>1 DEF Autosave, StackInv, Now, Top, Below
  <2>2. CASE ~Saving /\ SaveFrom(stack, NoTimer(book))
    <3>1. Now.pc \notin SavingAt
      BY <2>2, SavingNow
    <3>2. StackInv' /\ (Resting(NoTimer(book)) \/ Writing(NoTimer(book)))
      BY <2>2, <3>1, QuietStack, SaveStep
    <3> QED BY <1>1, <3>1, <3>2 DEF Autosave, Resting, Captured, SavingAt
  <2> QED BY <1>1, <2>1, <2>2 DEF Autosave
<1>2. CASE TimedQuit
  <2>1. Now.pc \notin SavingAt /\ Quiet(stack)
    BY <1>2, SavingNow, QuietStack DEF TimedQuit
  <2>2. Pushed(stack, Call("query_quit"))
    BY <1>2, <2>1, CallTyped DEF TimedQuit, Pushed, Pcs
  <2> QED BY <1>2, <2>1, <2>2, Push, CallTyped DEF TimedQuit, Captured, SavingAt, Pcs
<1> QED BY <1>1, <1>2

\* Quitting, and the questions.
LEMMA QuitCalls ==
    ASSUME StackInv, Running, Quit \/ Prompted \/ QueryAnswered
    PROVE  StackInv' /\ Aside /\ AsideTypes
<1> USE DEF Aside, AsideTypes
<1>1. CASE Quit
  <2>1. CASE /\ ~Saving
             /\ stack' = Append(stack, Call("prompt")) /\ book' = NoTimer(book)
             /\ UNCHANGED quit
    <3>1. Now.pc \notin SavingAt /\ Quiet(stack)
      BY <2>1, SavingNow, QuietStack
    <3>2. Pushed(stack, Call("prompt"))
      BY <2>1, <3>1, CallTyped DEF Pushed, Pcs
    <3> QED BY <1>1, <2>1, <3>1, <3>2, Push, CallTyped DEF Quit, Captured, SavingAt, Pcs
  <2>2. CASE quit' = "timed" /\ UNCHANGED <<stack, book>>
    BY <1>1, <2>2 DEF Quit, StackInv, Now, Top, Below
  <2> QED BY <1>1, <2>1, <2>2 DEF Quit
<1>2. CASE Prompted
  <2>1. Now.pc = "prompt" /\ Quiet(Below) /\ quit # "over"
    BY <1>2, Inner DEF Prompted, Running
  <2>2. CASE Return /\ UNCHANGED <<book, quit, asked>>
    BY <1>2, <2>1, <2>2, Returns DEF Prompted, Captured, Pcs
  <2>3. CASE Return /\ book' = MarkSaved(book) /\ quit' = "timed" /\ asked' = book.mem
    BY <1>2, <2>1, <2>3, Returns DEF Prompted, Captured, Pcs
  <2>4. CASE SaveFrom(Append(Below, Call("prompt_saved")), book) /\ UNCHANGED <<quit, asked>>
    <3>1. Quiet(Append(Below, Call("prompt_saved")))
      BY <2>1, QuietAppend, CallTyped DEF Pcs, SavingAt
    <3>2. StackInv' /\ (Resting(book) \/ Writing(book))
      BY <2>4, <3>1, SaveStep
    <3> QED BY <1>2, <2>1, <2>4, <3>2 DEF Prompted, Resting, Captured, SavingAt
  <2> QED BY <1>2, <2>2, <2>3, <2>4 DEF Prompted
<1>3. CASE QueryAnswered
  <2>1. Now.pc \in {"query_quit", "query_open"} /\ Now.pc \notin SavingAt /\ quit # "over"
    BY <1>3, Inner DEF QueryAnswered, Running, SavingAt
  <2>2. CASE SaveFrom(stack, book)
    <3>1. StackInv' /\ (Resting(book) \/ Writing(book))
      BY <2>1, <2>2, QuietStack, SaveStep
    <3> QED BY <1>3, <2>1, <3>1 DEF QueryAnswered, Resting, Captured, SavingAt
  <2>3. CASE In("query_open") /\ Return /\ UNCHANGED book
    BY <1>3, <2>1, <2>3, Returns DEF QueryAnswered, Captured, SavingAt, Pcs
  <2> QED BY <1>3, <2>2, <2>3 DEF QueryAnswered
<1> QED BY <1>1, <1>2, <1>3

LEMMA CallsAside ==
    ASSUME StackInv, Running, Calls
    PROVE  StackInv' /\ Aside /\ AsideTypes
BY FirstCalls, InnerCalls, TimerCalls, QuitCalls DEF Calls

-----------------------------------------------------------------------------
(* What the helpers do to a book.                                          *)

\* The same contents in the same backend.
Same(b, c) == b.mem = c.mem /\ b.be = c.be /\ b.readonly = c.readonly

LEMMA BookFields ==
    ASSUME NEW b \in Book
    PROVE  /\ b.mem \in Version /\ b.be \in Sessions \cup {None}
           /\ b.dirty \in BOOLEAN /\ b.readonly \in BOOLEAN /\ b.timer \in BOOLEAN
           /\ b = [mem |-> b.mem, be |-> b.be, dirty |-> b.dirty,
                   readonly |-> b.readonly, timer |-> b.timer]
BY DEF Book

LEMMA NoTimerBook ==
    ASSUME NEW b \in Book
    PROVE  NoTimer(b) \in Book /\ Same(NoTimer(b), b) /\ NoTimer(b).dirty = b.dirty
BY DEF Book, NoTimer, Same

LEMMA SavedBook ==
    ASSUME NEW b \in Book
    PROVE  MarkSaved(b) \in Book /\ Same(MarkSaved(b), b) /\ ~MarkSaved(b).dirty
<1>1. CASE b.dirty
  BY <1>1 DEF Book, MarkSaved, Same
<1>2. CASE ~b.dirty
  BY <1>2 DEF Book, MarkSaved, Same
<1> QED BY <1>1, <1>2

LEMMA DirtyBook ==
    ASSUME NEW b \in Book, NEW saving \in BOOLEAN
    PROVE  /\ MarkDirty(b, saving) \in Book /\ Same(MarkDirty(b, saving), b)
           /\ MarkDirty(b, saving).dirty
<1>1. CASE b.dirty
  BY <1>1 DEF Book, MarkDirty, Same
<1>2. CASE ~b.dirty /\ b.readonly
  BY <1>2 DEF Book, MarkDirty, Same
<1>3. CASE ~b.dirty /\ ~b.readonly
  BY <1>3 DEF Book, MarkDirty, Same
<1> QED BY <1>1, <1>2, <1>3

LEMMA BackendBook ==
    ASSUME NEW b \in Book, NEW s \in Sessions \cup {None}
    PROVE  LET c == [b EXCEPT !.be = s] IN
           /\ c \in Book /\ c.be = s
           /\ c.mem = b.mem /\ c.dirty = b.dirty /\ c.readonly = b.readonly
BY DEF Book

\* A session in use; the book goes to another session and is dirty there.
Sess == [live : BOOLEAN, uri : Uris \cup {None}, be : Uris \cup {None}, book : BOOLEAN]

Swapped(n, b) ==
    /\ book' \in Book /\ book'.dirty /\ book'.be = n
    /\ book'.mem = b.mem /\ book'.readonly = b.readonly

LEMMA SwappedBook ==
    ASSUME NEW n \in Sessions, NEW u, NEW b \in Book, Begun(n, u, b)
    PROVE  Swapped(n, b)
<1> DEFINE left == BackendLeft(b)
           swapped == Marked(left)
<1>1. left \in Book /\ left.mem = b.mem /\ left.readonly = b.readonly
  BY BackendBook DEF BackendLeft
<1> HIDE DEF left
<1>2. swapped \in Book /\ swapped.dirty /\ swapped.mem = b.mem /\ swapped.readonly = b.readonly
  BY <1>1, DirtyBook DEF Marked, Same
<1> HIDE DEF swapped
<1>3. book' = [swapped EXCEPT !.be = n]
  BY <1>2 DEF Begun, swapped, left
<1> QED BY <1>2, <1>3, BackendBook DEF Swapped

LEMMA LoadedBook ==
    ASSUME TypeOK
    PROVE  /\ AllLoaded \in Book /\ AllLoaded.mem = book.mem
           /\ AllLoaded.readonly = book.readonly /\ AllLoaded.be \in {book.be, cur}
           /\ \/ AllLoaded.dirty = book.dirty
              \/ sess[cur].be \in Sql /\ ~AllLoaded.dirty
           /\ sess[cur].be # None => AllLoaded.be = cur
<1>1. book \in Book /\ cur \in Sessions
  BY DEF TypeOK
<1> DEFINE c == [book EXCEPT !.be = cur]
<1>2. /\ c \in Book /\ c.be = cur
      /\ c.mem = book.mem /\ c.dirty = book.dirty /\ c.readonly = book.readonly
  BY <1>1, BackendBook
<1> HIDE DEF c
<1>3. CASE sess[cur].be = None
  BY <1>1, <1>3 DEF AllLoaded
<1>4. CASE sess[cur].be # None /\ sess[cur].be \in Sql
  BY <1>2, <1>4, SavedBook DEF AllLoaded, Same, c
<1>5. CASE sess[cur].be # None /\ sess[cur].be \notin Sql
  BY <1>2, <1>5 DEF AllLoaded, c
<1> QED BY <1>3, <1>4, <1>5

-----------------------------------------------------------------------------
(* The steps of Save As, as seen from the innermost call.                  *)

\* Now' is a call of Save As at pc, for session n and store u.
At(pc, n, u) == Now'.pc = pc /\ Now'.session = cur /\ Now'.new = n /\ Now'.to = u

Asks(n, u) ==
    /\ At("exists", n, u) \/ At("locked", n, u)
    /\ sess' = [sess EXCEPT ![n] = [Dead EXCEPT !.live = TRUE]]
    /\ book' = AllLoaded /\ UNCHANGED lock

Begins(n, u, b) ==
    /\ At("writing_new", n, u)
    /\ Swapped(n, b)
    /\ lock' = [lock EXCEPT ![u] = n]
    /\ sess' = [sess EXCEPT ![n] = [live |-> TRUE, uri |-> u, be |-> u, book |-> TRUE],
                            ![cur].book = FALSE]

LEMMA AskedCall ==
    ASSUME NEW pc \in Captured, NEW n \in Sessions, NEW u \in Uris, TypeOK,
           Quiet(Below),
           stack' = Append(Below, [pc |-> pc, session |-> cur, new |-> n, to |-> u])
    PROVE  StackInv' /\ At(pc, n, u)
<1> DEFINE c == [pc |-> pc, session |-> cur, new |-> n, to |-> u]
<1>1. c \in CallType
  BY DEF TypeOK, CallType, Pcs, Captured, SavingAt
<1>2. Pushed(Below, c)
  BY <1>1 DEF Pushed
<1>3. StackInv' /\ Now' = c
  BY <1>2, Push
<1> QED BY <1>3 DEF At

LEMMA BegunCall ==
    ASSUME NEW n \in Sessions, NEW u \in Uris, NEW b \in Book, TypeOK,
           Quiet(Below), Begun(n, u, b)
    PROVE  StackInv' /\ Begins(n, u, b)
<1>1. StackInv' /\ At("writing_new", n, u)
  BY AskedCall DEF Begun, Captured
<1> QED BY <1>1, SwappedBook DEF Begun, Begins

LEMMA ChooseCall ==
    ASSUME StackInv, TypeOK, NEW n \in Sessions, NEW u \in Uris, Choose(n, u)
    PROVE  /\ StackInv' /\ Now.pc = "choosing" /\ quit # "over"
           /\ u # sess[cur].uri /\ ~sess[n].live
           /\ UNCHANGED <<store, cur, been, quit, last, asked, detached>>
           /\ \/ Asks(n, u)
              \/ Begins(n, u, AllLoaded)
              \/ /\ Now'.pc \notin SavingAt
                 /\ book' = AllLoaded /\ UNCHANGED <<sess, lock>>
<1>1. In("choosing") /\ quit # "over" /\ u # sess[cur].uri /\ ~sess[n].live
      /\ UNCHANGED <<store, cur, been, quit, last, asked, detached>>
  BY DEF Choose
<1>2. Now.pc = "choosing" /\ Quiet(Below)
  BY <1>1, Inner
<1> DEFINE ask(pc) ==
             /\ stack' = Append(Below, [pc |-> pc, session |-> cur, new |-> n, to |-> u])
             /\ sess' = [sess EXCEPT ![n] = [Dead EXCEPT !.live = TRUE]]
             /\ book' = AllLoaded /\ UNCHANGED lock
<1>3. CASE ask("exists")
  BY <1>1, <1>2, <1>3, AskedCall DEF Asks, Captured
<1>4. CASE ask("locked")
  BY <1>1, <1>2, <1>4, AskedCall DEF Asks, Captured
<1>5. CASE Begun(n, u, AllLoaded)
  BY <1>1, <1>2, <1>5, BegunCall, LoadedBook
<1>6. CASE Return /\ book' = AllLoaded /\ UNCHANGED <<sess, lock>>
  BY <1>1, <1>2, <1>6, Pop DEF Return, Popped
<1> QED BY <1>3, <1>4, <1>5, <1>6 DEF Choose

LEMMA ReplaceCall ==
    ASSUME StackInv, TypeOK, Replace,
           Now.new \in Sessions, Now.to \in Uris
    PROVE  /\ StackInv' /\ Now.pc \in {"exists", "locked"} /\ Begins(Now.new, Now.to, book)
           /\ stack # <<>>
           /\ UNCHANGED <<store, cur, been, quit, last, asked, detached>>
<1>1. In("exists") \/ In("locked")
  BY DEF Replace
<1>2. Now.pc \in {"exists", "locked"} /\ Quiet(Below) /\ Now = Top /\ stack # <<>>
  BY <1>1, Inner
<1>3. book \in Book
  BY DEF TypeOK
<1> QED BY <1>2, <1>3, BegunCall DEF Replace

\* A call of Save As ends.
Ends(pc) ==
    /\ Now.pc = pc /\ Now = Top /\ stack # <<>>
    /\ StackInv' /\ Now'.pc \notin SavingAt

LEMMA EndCall ==
    ASSUME StackInv, NEW pc, In(pc), Return
    PROVE  Ends(pc)
BY Inner, Pop DEF Return, Popped, Ends

LEMMA NotWrittenNewCall ==
    ASSUME StackInv, NotWrittenNew, Running
    PROVE  /\ StackInv' /\ Now.pc = "writing_new" /\ Now' = [Now EXCEPT !.pc = "new_error"]
           /\ Now \in CallType /\ quit # "over"
<1>1. Now = Top /\ Now.pc = "writing_new" /\ Quiet(Below) /\ Now \in CallType /\ quit # "over"
  BY Inner DEF NotWrittenNew, Running
<1>2. [Top EXCEPT !.pc = "new_error"] \in CallType
      /\ [Top EXCEPT !.pc = "new_error"].pc \in Captured
  BY <1>1 DEF CallType, Captured, Pcs, SavingAt
<1>3. Pushed(Below, [Top EXCEPT !.pc = "new_error"])
  BY <1>1, <1>2 DEF NotWrittenNew, Goto, Pushed
<1> QED BY <1>1, <1>3, Push

-----------------------------------------------------------------------------
(* The invariant, one step at a time.                                      *)

Inv == TypeOK /\ StackInv /\ SessInv /\ LocksAreUsed

LEMMA AsideBook ==
    ASSUME TypeOK, Aside
    PROVE  /\ book' \in Book /\ book'.mem = book.mem /\ book'.readonly = book.readonly
           /\ \/ book'.be = book.be /\ (Now'.pc = "writing" => Now' = Now)
              \/ /\ book'.be = cur /\ sess[cur].uri # None
                 /\ Now.pc \notin SavingAt /\ Now'.pc = "writing"
           /\ \/ book'.dirty = book.dirty /\ asked' = asked
              \/ asked' = book.mem
           /\ Now' # Now => Now.pc \notin Captured /\ Now'.pc \notin Captured
           /\ Now.pc \in Moving => Now' = Now /\ book'.dirty = book.dirty
<1> USE DEF Captured, Moving, SavingAt
<1>0. book \in Book
  BY DEF TypeOK
<1>1. CASE Now' = Now /\ book' \in {book, NoTimer(book)} /\ UNCHANGED asked
  BY <1>0, <1>1, NoTimerBook DEF Same
<1>2. CASE /\ Now.pc \notin Captured /\ Now'.pc \notin SavingAt
           /\ book' \in {book, NoTimer(book)} /\ UNCHANGED asked
  BY <1>0, <1>2, NoTimerBook DEF Same
<1>3. CASE /\ Now.pc \notin Captured /\ Now'.pc \notin SavingAt
           /\ book' = MarkSaved(book) /\ asked' = book.mem
  BY <1>0, <1>3, SavedBook DEF Same
<1>4. CASE /\ Now.pc \notin SavingAt /\ UNCHANGED asked
           /\ \E b \in {book, NoTimer(book)} : Writing(b)
  <2>1. PICK b \in {book, NoTimer(book)} : Writing(b)
    BY <1>4
  <2>2. b \in Book /\ Same(b, book) /\ b.dirty = book.dirty
    BY <1>0, NoTimerBook DEF Same
  <2>3. book' = [b EXCEPT !.be = cur] /\ cur \in Sessions
    BY <2>1 DEF Writing, TypeOK
  <2>4. /\ book' \in Book /\ book'.be = cur
        /\ book'.mem = b.mem /\ book'.dirty = b.dirty /\ book'.readonly = b.readonly
    BY <2>2, <2>3, BackendBook
  <2> QED BY <1>4, <2>1, <2>2, <2>4 DEF Writing, Same
<1> QED BY <1>1, <1>2, <1>3, <1>4 DEF Aside

LEMMA AsideStep ==
    ASSUME Inv, Aside, AsideTypes
    PROVE  TypeOK' /\ SessInv' /\ LocksAreUsed'
<1> USE DEF Inv
<1>0. UNCHANGED <<store, lock, sess, cur, last, detached>> /\ quit # "over" /\ quit' # "over"
  BY DEF Aside, stores
<1>1. TypeOK'
  <2>1. book' \in Book /\ asked' \in Version \cup {None}
    BY AsideBook, BookFields DEF TypeOK
  <2>2. been' \in BOOLEAN /\ quit' \in {"no", "timed", "asking", "over"}
    BY DEF AsideTypes, TypeOK
  <2> QED BY <1>0, <2>1, <2>2 DEF TypeOK
<1>2. SessInv'
  <2> USE DEF Captured, Moving, SavingAt
  <2>1. CASE Now' = Now /\ book'.be = book.be
    <3>1. Now.pc \in Moving => book'.dirty = book.dirty
      BY AsideBook
    <3> QED BY <1>0, <2>1, <3>1 DEF SessInv
  <2>2. CASE Now' # Now /\ book'.be = book.be /\ (Now'.pc = "writing" => Now' = Now)
    <3>1. Now.pc \notin Captured /\ Now'.pc \notin Captured /\ Now'.pc # "writing"
      BY <2>2, AsideBook
    <3> QED BY <1>0, <2>2, <3>1 DEF SessInv
  <2>3. CASE /\ book'.be = cur /\ sess[cur].uri # None
             /\ Now.pc \notin SavingAt /\ Now'.pc = "writing"
    BY <1>0, <2>3 DEF SessInv, TypeOK
  <2> QED BY <2>1, <2>2, <2>3, AsideBook
<1>3. LocksAreUsed'
  BY <1>0, AsideBook DEF LocksAreUsed
<1> QED BY <1>1, <1>2, <1>3

LEMMA AsideStored ==
    ASSUME Inv, StoredInv, Aside
    PROVE  StoredInv'
<1>0. /\ UNCHANGED <<store, sess, cur, detached>> /\ quit # "over"
      /\ book'.mem = book.mem
  BY AsideBook DEF Aside, stores, Inv
<1> SUFFICES ASSUME ~detached
             PROVE  /\ ~book'.dirty => Kept(asked)'
                    /\ Now'.pc \notin Moving /\ sess[cur].be \in Sql =>
                         book'.be = cur /\ store[sess[cur].be] = book.mem
  BY <1>0 DEF StoredInv
<1>1. ~book'.dirty => Kept(asked)'
  BY <1>0, AsideBook DEF StoredInv, Kept, Inv
<1>2. ASSUME Now'.pc \notin Moving, sess[cur].be \in Sql
      PROVE  book'.be = cur /\ store[sess[cur].be] = book.mem
  <2>1. Now.pc \notin Moving
    BY <1>2, AsideBook DEF Inv
  <2> QED BY <1>0, <1>2, <2>1, AsideBook DEF StoredInv, Inv
<1> QED BY <1>1, <1>2

\* A commit: the book has a new version, which its database holds, or is dirty.
LEMMA EditBook ==
    ASSUME TypeOK, Edit
    PROVE  /\ last' \in Version /\ book' \in Book
           /\ book'.be = book.be /\ book'.readonly = book.readonly
           /\ \/ /\ book.be # None /\ sess[book.be].be \in Sql
                 /\ book'.mem = last' /\ store' = [store EXCEPT ![sess[book.be].be] = last']
              \/ /\ book.be # None /\ sess[book.be].be \in Sql
                 /\ book'.mem = book.mem /\ book'.dirty /\ UNCHANGED store
              \/ /\ ~(book.be # None /\ sess[book.be].be \in Sql)
                 /\ book'.mem = last' /\ book'.dirty /\ UNCHANGED store
<1> DEFINE new == [book EXCEPT !.mem = last + 1]
           changed == MarkDirty(new, Saving)
<1>1. last + 1 \in Version /\ last' = last + 1 /\ book \in Book /\ Saving \in BOOLEAN
  BY SaveAsAssumption DEF TypeOK, Edit, Version, Saving
<1>2. /\ new \in Book /\ new.mem = last + 1 /\ new.be = book.be
      /\ new.readonly = book.readonly
  BY <1>1 DEF Book
<1> HIDE DEF new
<1>3. /\ changed \in Book /\ changed.mem = last + 1 /\ changed.be = book.be
      /\ changed.readonly = book.readonly /\ changed.dirty
  BY <1>1, <1>2, DirtyBook DEF Same
<1> HIDE DEF changed
<1>4. CASE /\ book.be # None /\ sess[book.be].be \in Sql
           /\ store' = [store EXCEPT ![sess[book.be].be] = last + 1]
           /\ book' = MarkSaved(changed)
  BY <1>1, <1>3, <1>4, SavedBook DEF Same
<1>5. CASE /\ book.be # None /\ sess[book.be].be \in Sql
           /\ book' = MarkDirty(book, Saving) /\ UNCHANGED store
  BY <1>1, <1>5, DirtyBook DEF Same
<1>6. CASE /\ ~(book.be # None /\ sess[book.be].be \in Sql)
           /\ book' = changed /\ UNCHANGED store
  BY <1>1, <1>3, <1>6
<1>7. \/ /\ book.be # None /\ sess[book.be].be \in Sql
         /\ \/ /\ store' = [store EXCEPT ![sess[book.be].be] = last + 1]
               /\ book' = MarkSaved(changed)
            \/ book' = MarkDirty(book, Saving) /\ UNCHANGED store
      \/ /\ ~(book.be # None /\ sess[book.be].be \in Sql)
         /\ book' = changed /\ UNCHANGED store
  BY DEF Edit, changed, new
<1> QED BY <1>4, <1>5, <1>6, <1>7

LEMMA EditStep ==
    ASSUME Inv, Edit
    PROVE  Inv' /\ (StoredInv => StoredInv')
<1> USE DEF Inv
<1>0. /\ UNCHANGED <<lock, sess, cur, stack, been, quit, asked, detached>>
      /\ stack = <<>> /\ quit = "no" /\ Now = Idle /\ Now' = Now
      /\ Idle.pc = "idle"
  BY DEF Edit, Now, Idle, Call, Top
<1>1. TypeOK'
  <2>1. store' \in [Uris -> Version \cup {None}]
    BY EditBook DEF TypeOK
  <2> QED BY <1>0, <2>1, EditBook DEF TypeOK
<1>2. StackInv'
  BY <1>0 DEF StackInv, Below, Top
<1>3. SessInv'
  BY <1>0, EditBook DEF SessInv, Captured, Moving
<1>4. LocksAreUsed'
  BY <1>0, EditBook DEF LocksAreUsed
<1>5. ASSUME StoredInv
      PROVE  StoredInv'
  <2> SUFFICES ASSUME ~detached
               PROVE  /\ ~book'.dirty => Kept(asked)'
                      /\ sess[cur].be \in Sql =>
                           book'.be = cur /\ store'[sess[cur].be] = book'.mem
    BY <1>0 DEF StoredInv, Moving
  <2>1. /\ sess[cur].uri = sess[cur].be /\ book.be \in {cur, None} /\ cur \in Sessions
        /\ sess[cur].be \in Sql => book.be = cur /\ store[sess[cur].be] = book.mem
    BY <1>0, <1>5 DEF StoredInv, SessInv, Moving, TypeOK
  <2>2. CASE /\ book.be # None /\ sess[book.be].be \in Sql
             /\ book'.mem = last' /\ store' = [store EXCEPT ![sess[book.be].be] = last']
    <3>1. book.be = cur /\ sess[cur].be \in Uris /\ None \notin Uris
      BY <2>1, <2>2, SaveAsAssumption
    <3>2. store'[sess[cur].be] = book'.mem
      BY <2>2, <3>1 DEF TypeOK
    <3> QED BY <1>0, <2>1, <3>1, <3>2, EditBook DEF Kept
  <2>3. CASE /\ book.be # None /\ sess[book.be].be \in Sql
             /\ book'.mem = book.mem /\ book'.dirty /\ UNCHANGED store
    BY <1>0, <2>1, <2>3, EditBook
  <2>4. CASE /\ ~(book.be # None /\ sess[book.be].be \in Sql)
             /\ book'.mem = last' /\ book'.dirty /\ UNCHANGED store
    BY <1>0, <2>1, <2>4, SaveAsAssumption DEF TypeOK
  <2> QED BY <2>2, <2>3, <2>4, EditBook
<1> QED BY <1>1, <1>2, <1>3, <1>4, <1>5

\* The session's own backend has written the book.
LEMMA WrittenStep ==
    ASSUME Inv, Written
    PROVE  Inv' /\ StoredInv'
<1> USE DEF Inv
<1>0. /\ Ends("writing")
      /\ store' = [store EXCEPT ![sess[cur].be] = book.mem]
      /\ book' = MarkSaved(book) /\ ~detached'
      /\ UNCHANGED <<lock, sess, cur, been, quit, last, asked>>
  BY EndCall DEF Written
<1>1. quit # "over" /\ Now.pc = "writing" /\ Now'.pc \notin SavingAt
      /\ sess[cur].be # None /\ book.be = cur /\ sess[cur].book
      /\ sess[cur].uri = sess[cur].be /\ sess[cur].be \in Uris
  BY <1>0 DEF Ends, SessInv, Moving, TypeOK
<1>2. /\ book' \in Book /\ book'.mem = book.mem /\ book'.be = cur
      /\ book'.readonly = book.readonly /\ book.mem \in Version
  BY <1>0, <1>1, SavedBook, BookFields DEF Same, TypeOK
<1>3. TypeOK'
  <2>1. detached' \in BOOLEAN
    BY DEF Written
  <2>2. store' \in [Uris -> Version \cup {None}]
    BY <1>0, <1>2 DEF TypeOK
  <2> QED BY <1>0, <1>2, <2>1, <2>2 DEF TypeOK
<1>4. SessInv'
  BY <1>0, <1>1, <1>2 DEF SessInv, Captured, Moving, SavingAt
<1>5. LocksAreUsed'
  BY <1>0, <1>2 DEF LocksAreUsed
<1>6. StoredInv'
  <2>1. store'[sess'[cur'].be] = book'.mem
    BY <1>0, <1>1, <1>2 DEF TypeOK
  <2> QED BY <1>0, <1>1, <1>2, <2>1, SaveAsAssumption DEF StoredInv, Kept
<1> QED BY <1>0, <1>3, <1>4, <1>5, <1>6 DEF Ends

LEMMA NotWrittenNewStep ==
    ASSUME Inv, NotWrittenNew
    PROVE  Inv' /\ (StoredInv => StoredInv')
<1> USE DEF Inv
<1>0. /\ StackInv' /\ Now.pc = "writing_new" /\ quit # "over"
      /\ Now'.pc = "new_error" /\ Now'.session = Now.session
      /\ Now'.new = Now.new /\ Now'.to = Now.to
  BY NotWrittenNewCall DEF Running, SessInv, CallType
<1>1. UNCHANGED <<stores, sess, cur, book, been, quit, last, asked, detached>>
  BY DEF NotWrittenNew
<1>2. TypeOK'
  BY <1>1 DEF TypeOK, stores
<1>3. SessInv'
  BY <1>0, <1>1 DEF SessInv, Captured, Moving
<1>4. LocksAreUsed'
  BY <1>1 DEF LocksAreUsed, stores
<1>5. StoredInv => StoredInv'
  BY <1>0, <1>1 DEF StoredInv, Kept, Moving, stores
<1> QED BY <1>0, <1>2, <1>3, <1>4, <1>5

\* new_session begins to write the book.
LEMMA BeginStep ==
    ASSUME Inv, NEW n \in Sessions, NEW u \in Uris, NEW b \in Book, Begins(n, u, b),
           StackInv', quit # "over", Now.pc \notin Moving,
           n # cur, u # sess[cur].be, sess[n].be = None,
           \A s \in Sessions : sess[s].live => s \in {cur, n},
           b.readonly = book.readonly,
           UNCHANGED <<store, cur, been, quit, last, asked, detached>>
    PROVE  Inv' /\ StoredInv'
<1> USE DEF Inv
<1>0. /\ Now'.pc = "writing_new" /\ Now'.session = cur /\ Now'.new = n /\ Now'.to = u
      /\ book' \in Book /\ book'.dirty /\ book'.be = n /\ book'.readonly = book.readonly
      /\ lock' = [lock EXCEPT ![u] = n]
  BY DEF Begins, At, Swapped
<1>1. /\ sess' \in [Sessions -> Sess]
      /\ sess'[n] = [live |-> TRUE, uri |-> u, be |-> u, book |-> TRUE]
      /\ sess'[cur] = [sess[cur] EXCEPT !.book = FALSE]
      /\ \A s \in Sessions \ {cur, n} : sess'[s] = sess[s]
  <2>1. sess \in [Sessions -> Sess] /\ cur \in Sessions
    BY DEF TypeOK, Sess
  <2>2. /\ [live |-> TRUE, uri |-> u, be |-> u, book |-> TRUE] \in Sess
        /\ [sess[cur] EXCEPT !.book = FALSE] \in Sess
    BY <2>1, ZenonT(30) DEF Sess
  <2> QED BY <2>1, <2>2 DEF Begins
<1>2. /\ sess[cur].live /\ sess[cur].uri = sess[cur].be /\ cur \in Sessions
      /\ sess[cur] \in Sess
      /\ sess'[cur].live /\ ~sess'[cur].book
      /\ sess'[cur].uri = sess[cur].be /\ sess'[cur].be = sess[cur].be
  BY <1>1 DEF SessInv, TypeOK, Sess
<1>new. sess'[n].live /\ sess'[n].book /\ sess'[n].uri = u /\ sess'[n].be = u
  BY <1>1
<1>rest. \A s \in Sessions \ {cur, n} : sess'[s] = Dead /\ ~Dead.live /\ Dead.uri = None
                                     /\ Dead.be = None
  BY <1>1 DEF SessInv, Dead
<1>3. TypeOK'
  BY <1>0, <1>1 DEF TypeOK, Sess
<1>4. SessInv'
  <2>1. \A s \in Sessions : /\ ~sess'[s].live => sess'[s] = Dead
                            /\ sess'[s].uri = sess'[s].be
    BY <1>2, <1>new, <1>rest
  <2>2. \A s \in Sessions : sess'[s].live <=> s \in {cur, n}
    BY <1>2, <1>new, <1>rest
  <2> QED BY <1>0, <1>new, <1>2, <2>1, <2>2 DEF SessInv, Captured, Moving
<1>5. LocksAreUsed'
  <2>1. ASSUME NEW v \in Uris, lock'[v] \in Sessions
        PROVE  sess'[lock'[v]].live /\ sess'[lock'[v]].be = v
    <3>0. v # u => lock'[v] = lock[v]
      BY <1>0 DEF TypeOK
    <3>1. CASE v = u
      BY <1>0, <1>new, <3>1 DEF TypeOK
    <3>2. CASE v # u /\ lock[v] \in Sessions
      <4>1. lock'[v] = lock[v] /\ sess[lock[v]].live /\ sess[lock[v]].be = v
        BY <1>0, <3>2 DEF LocksAreUsed, TypeOK
      <4>2. lock[v] = cur
        BY <3>2, <4>1, SaveAsAssumption
      <4> QED BY <1>2, <4>1, <4>2
    <3> QED BY <2>1, <3>0, <3>1, <3>2
  <2>2. \A s \in Sessions : sess'[s].be # None /\ ~book'.readonly =>
          lock'[sess'[s].be] = s
    <3>1. lock'[sess'[n].be] = n
      BY <1>0, <1>new DEF TypeOK
    <3>2. ASSUME sess'[cur].be # None, ~book'.readonly
          PROVE  lock'[sess'[cur].be] = cur
      BY <1>0, <1>2, <3>2 DEF LocksAreUsed, TypeOK
    <3>3. \A s \in Sessions \ {cur, n} : sess'[s].be = None
      BY <1>rest
    <3> QED BY <3>1, <3>2, <3>3
  <2>3. \A v \in Uris : lock'[v] = Orphan => v \notin Sql
    BY <1>0, SaveAsAssumption DEF LocksAreUsed, TypeOK
  <2> QED BY <2>1, <2>2, <2>3 DEF LocksAreUsed
<1>6. StoredInv'
  BY <1>0 DEF StoredInv, Moving
<1> QED BY <1>3, <1>4, <1>5, <1>6

LEMMA ChooseStep ==
    ASSUME Inv, NEW n \in Sessions, NEW u \in Uris, Choose(n, u)
    PROVE  Inv' /\ (StoredInv => StoredInv')
<1> USE DEF Inv
<1>0. /\ StackInv' /\ Now.pc = "choosing" /\ quit # "over"
      /\ u # sess[cur].uri /\ ~sess[n].live
      /\ UNCHANGED <<store, cur, been, quit, last, asked, detached>>
  BY ChooseCall
<1>1. /\ Now.pc \notin Captured /\ n # cur /\ u # sess[cur].be /\ cur \in Sessions
      /\ sess[cur].live /\ sess[cur].book /\ sess[cur].uri = sess[cur].be
      /\ sess[n] = Dead /\ \A s \in Sessions : sess[s].live => s = cur
  BY <1>0 DEF SessInv, TypeOK, Captured, Moving
<1>2. /\ AllLoaded \in Book /\ AllLoaded.mem = book.mem
      /\ AllLoaded.readonly = book.readonly /\ AllLoaded.be \in {book.be, cur}
      /\ AllLoaded.be \in {cur, None}
  BY <1>0, LoadedBook DEF SessInv, Moving
<1>3. ASSUME StoredInv
      PROVE  ~detached =>
               /\ ~AllLoaded.dirty => Kept(asked)
               /\ sess[cur].be \in Sql => AllLoaded.be = cur /\ store[sess[cur].be] = book.mem
  <2>1. sess[cur].be \in Sql => sess[cur].uri # None
    BY <1>1, SaveAsAssumption
  <2> QED BY <1>0, <1>1, <1>3, <2>1, LoadedBook DEF StoredInv, Kept, Moving
<1>4. CASE Begins(n, u, AllLoaded)
  BY <1>0, <1>1, <1>2, <1>4, BeginStep DEF Captured, Moving, Dead
<1>5. CASE Asks(n, u)
  <2>0. /\ Now'.pc \in {"exists", "locked"} /\ Now'.session = cur /\ Now'.new = n /\ Now'.to = u
        /\ book' = AllLoaded /\ lock' = lock
    BY <1>5 DEF Asks, At
  <2>1. /\ sess' \in [Sessions -> Sess]
        /\ sess'[n] = [Dead EXCEPT !.live = TRUE]
        /\ \A s \in Sessions \ {n} : sess'[s] = sess[s]
        /\ sess'[cur] = sess[cur]
    <3>1. sess \in [Sessions -> Sess] /\ [Dead EXCEPT !.live = TRUE] \in Sess
      BY DEF TypeOK, Sess, Dead
    <3> QED BY <1>1, <1>5, <3>1 DEF Asks
  <2>2. sess'[n].live /\ sess'[n].uri = None /\ sess'[n].be = None
    BY <2>1 DEF Dead
  <2>3. TypeOK'
    BY <1>0, <1>2, <2>0, <2>1 DEF TypeOK, Sess
  <2>4. SessInv'
    <3>1. \A s \in Sessions : /\ ~sess'[s].live => sess'[s] = Dead
                              /\ sess'[s].uri = sess'[s].be
      BY <2>1, <2>2 DEF SessInv
    <3>2. \A s \in Sessions : sess'[s].live <=> s \in {cur, n}
      BY <1>1, <2>1, <2>2
    <3> QED BY <1>0, <1>1, <1>2, <2>0, <2>1, <3>1, <3>2 DEF SessInv, Captured, Moving
  <2>5. LocksAreUsed'
    BY <1>1, <1>2, <2>0, <2>1, <2>2 DEF LocksAreUsed, TypeOK
  <2>6. StoredInv => StoredInv'
    BY <1>0, <1>2, <1>3, <2>0, <2>1 DEF StoredInv, Kept
  <2> QED BY <1>0, <2>3, <2>4, <2>5, <2>6
<1>6. CASE Now'.pc \notin SavingAt /\ book' = AllLoaded /\ UNCHANGED <<sess, lock>>
  <2>1. TypeOK'
    BY <1>0, <1>2, <1>6 DEF TypeOK
  <2>2. SessInv'
    BY <1>0, <1>1, <1>2, <1>6 DEF SessInv, Captured, Moving, SavingAt
  <2>3. LocksAreUsed'
    BY <1>2, <1>6 DEF LocksAreUsed
  <2>4. StoredInv => StoredInv'
    BY <1>0, <1>2, <1>3, <1>6 DEF StoredInv, Kept
  <2> QED BY <1>0, <2>1, <2>2, <2>3, <2>4
<1> QED BY <1>4, <1>5, <1>6, ChooseCall

\* The call of Save As that has begun, and its two sessions.
LEMMA CapturedCall ==
    ASSUME Inv, Now.pc \in Captured
    PROVE  /\ quit # "over" /\ cur \in Sessions /\ Now.session = cur
           /\ Now.new \in Sessions /\ Now.new # cur
           /\ Now.to \in Uris /\ Now.to # sess[cur].be
           /\ sess[cur].live /\ sess[Now.new].live
           /\ \A s \in Sessions : sess[s].live => s \in {cur, Now.new}
<1>1. stack # <<>>
  BY DEF Now, Idle, Call, Captured
<1> QED BY <1>1 DEF Inv, SessInv, TypeOK

LEMMA ReplaceStep ==
    ASSUME Inv, Replace
    PROVE  Inv' /\ StoredInv'
<1>1. Now.pc \in {"exists", "locked"}
  BY Inner DEF Replace, Inv
<1>2. sess[Now.new].be = None /\ book \in Book /\ Now.pc \notin Moving /\ Now.pc \in Captured
  BY <1>1, CapturedCall DEF Inv, SessInv, Captured, Moving, Dead, TypeOK
<1>3. /\ StackInv' /\ Begins(Now.new, Now.to, book)
      /\ UNCHANGED <<store, cur, been, quit, last, asked, detached>>
  BY <1>2, CapturedCall, ReplaceCall DEF Inv
<1> QED BY <1>2, <1>3, CapturedCall, BeginStep

-----------------------------------------------------------------------------
(* Steps that end a session.                                               *)

\* Dead sessions, and what the end of one leaves locked.
LEMMA DeadSession == Dead \in Sess /\ ~Dead.live /\ ~Dead.book /\ Dead.uri = None /\ Dead.be = None
BY DEF Dead, Sess

LEMMA UnlockedStores ==
    ASSUME TypeOK, LocksAreUsed, NEW s \in Sessions
    PROVE  /\ Unlocked(s) \in [Uris -> Sessions \cup {None, Other, Orphan}]
           /\ \A u \in Uris : Unlocked(s)[u] = Orphan => u \notin Sql
           /\ \A u \in Uris : Unlocked(s)[u] \in Sessions =>
                /\ Unlocked(s)[u] # s /\ Unlocked(s)[u] = lock[u]
                /\ sess[Unlocked(s)[u]].live /\ sess[Unlocked(s)[u]].be = u
           /\ \A t \in Sessions \ {s} : sess[t].be # None /\ ~book.readonly =>
                Unlocked(s)[sess[t].be] = t
<1>1. \A u \in Uris :
        /\ lock[u] # s => Unlocked(s)[u] = lock[u]
        /\ lock[u] = s => \/ Unlocked(s)[u] = None
                          \/ Unlocked(s)[u] = Orphan /\ u \notin Sql
  BY DEF Unlocked, Unlocks, ReadOnlyFile
<1>2. /\ Unlocked(s) \in [Uris -> Sessions \cup {None, Other, Orphan}]
      /\ \A u \in Uris : Unlocked(s)[u] = Orphan => u \notin Sql
  <2>1. \A u \in Uris : Unlocked(s)[u] \in Sessions \cup {None, Other, Orphan}
    BY <1>1 DEF TypeOK
  <2>2. Unlocked(s) = [u \in Uris |-> Unlocked(s)[u]]
    BY DEF Unlocked
  <2>3. \A u \in Uris : Unlocked(s)[u] = Orphan => u \notin Sql
    BY <1>1, SaveAsAssumption DEF LocksAreUsed
  <2> QED BY <2>1, <2>2, <2>3
<1>3. \A u \in Uris : Unlocked(s)[u] \in Sessions =>
        /\ Unlocked(s)[u] # s /\ Unlocked(s)[u] = lock[u]
        /\ sess[Unlocked(s)[u]].live /\ sess[Unlocked(s)[u]].be = u
  BY <1>1, SaveAsAssumption DEF LocksAreUsed
<1>4. ASSUME NEW t \in Sessions \ {s}, sess[t].be # None, ~book.readonly
      PROVE  Unlocked(s)[sess[t].be] = t
  <2>1. sess[t].be \in Uris /\ lock[sess[t].be] = t
    BY <1>4 DEF LocksAreUsed, TypeOK
  <2> QED BY <1>1, <2>1
<1> QED BY <1>2, <1>3, <1>4

\* new_session is given up before the book is in it.
LEMMA GiveUpStep ==
    ASSUME Inv, GiveUp
    PROVE  Inv' /\ (StoredInv => StoredInv')
<1> USE DEF Inv
<1>0. /\ Ends("exists") \/ Ends("locked")
      /\ sess' = [sess EXCEPT ![Now.new] = Dead] /\ lock' = Unlocked(Now.new)
      /\ UNCHANGED <<store, cur, book, been, quit, last, asked, detached>>
  BY EndCall DEF GiveUp, Ends
<1>1. /\ Now.pc \in {"exists", "locked"} /\ Now.pc \notin Moving /\ Now.pc \in Captured
      /\ StackInv' /\ Now'.pc \notin Captured /\ Now'.pc \notin Moving /\ Now'.pc # "writing"
      /\ Now'.pc \notin {"exists", "locked"}
  BY <1>0 DEF Ends, Captured, Moving, SavingAt
<1>2. /\ quit # "over" /\ cur \in Sessions /\ Now.new \in Sessions /\ Now.new # cur
      /\ sess[cur].live /\ sess[cur].book /\ book.be \in {cur, None}
      /\ \A s \in Sessions : sess[s].live => s \in {cur, Now.new}
  BY <1>1, CapturedCall DEF SessInv
<1>3. /\ sess' \in [Sessions -> Sess] /\ sess'[Now.new] = Dead
      /\ \A s \in Sessions \ {Now.new} : sess'[s] = sess[s]
  BY <1>0, <1>2, DeadSession DEF TypeOK, Sess
<1>4. TypeOK'
  BY <1>0, <1>2, <1>3, UnlockedStores DEF TypeOK, Sess
<1>5. SessInv'
  <2>1. \A s \in Sessions : /\ ~sess'[s].live => sess'[s] = Dead
                            /\ sess'[s].uri = sess'[s].be
    BY <1>3, DeadSession DEF SessInv
  <2>2. \A s \in Sessions : sess'[s].live <=> s = cur
    BY <1>2, <1>3, DeadSession
  <2> QED BY <1>0, <1>1, <1>2, <1>3, <2>1, <2>2 DEF SessInv
<1>6. LocksAreUsed'
  BY <1>0, <1>2, <1>3, DeadSession, UnlockedStores DEF LocksAreUsed, TypeOK
<1>7. StoredInv => StoredInv'
  BY <1>0, <1>1, <1>2, <1>3 DEF StoredInv, Kept
<1> QED BY <1>1, <1>4, <1>5, <1>6, <1>7

\* The old session is destroyed.
LEMMA WrittenNewStep ==
    ASSUME Inv, WrittenNew
    PROVE  Inv' /\ StoredInv'
<1> USE DEF Inv
<1> DEFINE n == Now.new
<1>0. /\ Ends("writing_new")
      /\ store' = IF book.dirty THEN [store EXCEPT ![Now.to] = book.mem] ELSE store
      /\ book' = MarkSaved(book)
      /\ sess' = [sess EXCEPT ![cur] = Dead] /\ lock' = Unlocked(cur) /\ cur' = n
      /\ detached' = FALSE
      /\ UNCHANGED <<been, quit, last, asked>>
  BY EndCall DEF WrittenNew, Ends
<1>1. /\ Now.pc = "writing_new" /\ Now.pc \in Moving /\ Now.pc \in Captured
      /\ StackInv' /\ Now'.pc \notin Captured /\ Now'.pc \notin Moving /\ Now'.pc # "writing"
      /\ Now'.pc \notin {"exists", "locked"}
  BY <1>0 DEF Ends, Captured, Moving, SavingAt
<1>2. /\ quit # "over" /\ cur \in Sessions /\ n \in Sessions /\ n # cur /\ sess[n].live
      /\ Now.to \in Uris /\ sess[n].be = Now.to /\ sess[n].uri = Now.to /\ sess[n].book
      /\ book.be = n /\ book.dirty
      /\ \A s \in Sessions : sess[s].live => s \in {cur, n}
  BY <1>1, CapturedCall DEF SessInv
<1> HIDE DEF n
<1>3. /\ sess' \in [Sessions -> Sess] /\ sess'[cur] = Dead
      /\ \A s \in Sessions \ {cur} : sess'[s] = sess[s]
  BY <1>0, <1>2, DeadSession DEF TypeOK, Sess
<1>4. /\ book' \in Book /\ book'.mem = book.mem /\ book'.be = n
      /\ book'.readonly = book.readonly /\ book.mem \in Version
  BY <1>0, <1>2, SavedBook, BookFields DEF Same, TypeOK
<1>5. TypeOK'
  <2>1. store' \in [Uris -> Version \cup {None}]
    BY <1>0, <1>2, <1>4 DEF TypeOK
  <2> QED BY <1>0, <1>2, <1>3, <1>4, <2>1, UnlockedStores DEF TypeOK, Sess
<1>6. SessInv'
  <2>1. \A s \in Sessions : /\ ~sess'[s].live => sess'[s] = Dead
                            /\ sess'[s].uri = sess'[s].be
    BY <1>3, DeadSession DEF SessInv
  <2>2. \A s \in Sessions : sess'[s].live <=> s = n
    BY <1>2, <1>3, DeadSession
  <2> QED BY <1>0, <1>1, <1>2, <1>3, <1>4, <2>1, <2>2 DEF SessInv
<1>7. LocksAreUsed'
  BY <1>0, <1>2, <1>3, <1>4, DeadSession, UnlockedStores DEF LocksAreUsed, TypeOK
<1>8. StoredInv'
  <2>1. store'[Now.to] = book'.mem /\ sess'[cur'].be = Now.to /\ sess'[cur'].uri = Now.to
    BY <1>0, <1>2, <1>3, <1>4 DEF TypeOK
  <2> QED BY <1>0, <1>2, <1>4, <2>1, SaveAsAssumption DEF StoredInv, Kept
<1> QED BY <1>1, <1>5, <1>6, <1>7, <1>8

\* The write has failed: the book goes back to the old session.
LEMMA NewErrorStep ==
    ASSUME Inv, NewErrorRead
    PROVE  Inv' /\ StoredInv'
<1> USE DEF Inv
<1> DEFINE n == Now.new
<1>1. Now.pc = "new_error" /\ Now.pc \in Moving /\ Now.pc \in Captured
  BY Inner DEF NewErrorRead, Captured, Moving
<1>2. /\ quit # "over" /\ cur \in Sessions /\ n \in Sessions /\ n # cur /\ sess[n].live
      /\ Now.session = cur /\ sess[cur].live /\ sess[cur] \in Sess
      /\ book.be = n /\ book.dirty
      /\ \A s \in Sessions : sess[s].live => s \in {cur, n}
  BY <1>1, CapturedCall DEF SessInv, TypeOK, Sess
<1>3. /\ Ends("new_error")
      /\ sess' = [sess EXCEPT ![n] = Dead, ![cur].book = TRUE]
      /\ lock' = Unlocked(n) /\ book' = [book EXCEPT !.be = None]
      /\ detached' = (detached \/ sess[cur].be \in Sql)
      /\ UNCHANGED <<store, cur, been, quit, last, asked>>
  BY <1>2, EndCall DEF NewErrorRead, Ends, Restored, BackendLeft
<1> HIDE DEF n
<1>4. /\ StackInv' /\ Now'.pc \notin Captured /\ Now'.pc \notin Moving /\ Now'.pc # "writing"
      /\ Now'.pc \notin {"exists", "locked"}
  BY <1>3 DEF Ends, Captured, Moving, SavingAt
<1>5. /\ sess' \in [Sessions -> Sess] /\ sess'[n] = Dead
      /\ sess'[cur] = [sess[cur] EXCEPT !.book = TRUE]
      /\ \A s \in Sessions \ {cur, n} : sess'[s] = sess[s]
  <2>1. [sess[cur] EXCEPT !.book = TRUE] \in Sess /\ sess \in [Sessions -> Sess]
    BY <1>2 DEF Sess, TypeOK
  <2> QED BY <1>2, <1>3, <2>1, DeadSession
<1>6. /\ sess'[cur].live /\ sess'[cur].book
      /\ sess'[cur].uri = sess[cur].uri /\ sess'[cur].be = sess[cur].be
  BY <1>2, <1>5 DEF Sess
<1>7. /\ book' \in Book /\ book'.mem = book.mem /\ book'.be = None /\ book'.dirty
      /\ book'.readonly = book.readonly
  BY <1>2, <1>3, BackendBook DEF TypeOK
<1>8. TypeOK'
  <2>1. detached' \in BOOLEAN
    BY <1>3 DEF TypeOK
  <2> QED BY <1>2, <1>3, <1>5, <1>7, <2>1, UnlockedStores DEF TypeOK, Sess
<1>9. SessInv'
  <2>1. \A s \in Sessions : /\ ~sess'[s].live => sess'[s] = Dead
                            /\ sess'[s].uri = sess'[s].be
    BY <1>5, <1>6, DeadSession, ZenonT(30) DEF SessInv
  <2>2. \A s \in Sessions : sess'[s].live <=> s = cur
    BY <1>2, <1>5, <1>6, DeadSession
  <2> QED BY <1>2, <1>3, <1>4, <1>6, <1>7, <2>1, <2>2 DEF SessInv
<1>10. LocksAreUsed'
  BY <1>2, <1>3, <1>5, <1>6, <1>7, DeadSession, UnlockedStores DEF LocksAreUsed, TypeOK
<1>11. StoredInv'
  BY <1>3, <1>6, <1>7 DEF StoredInv
<1> QED BY <1>4, <1>8, <1>9, <1>10, <1>11

\* Quitting: there is no session any more.
LEMMA ShutdownStep ==
    ASSUME Inv, Shutdown
    PROVE  Inv' /\ StoredInv'
<1> USE DEF Inv
<1>0. /\ In("query_quit") /\ Now.pc = "query_quit" /\ quit # "over"
      /\ asked' = IF book.dirty THEN book.mem ELSE asked
      /\ quit' = "over" /\ stack' = <<>>
      /\ sess' = [sess EXCEPT ![cur] = Dead] /\ lock' = Unlocked(cur)
      /\ UNCHANGED <<store, cur, book, been, last, detached>>
  BY Inner DEF Shutdown, Answered, SessInv
<1>1. /\ cur \in Sessions /\ Now.pc \notin Captured
      /\ \A s \in Sessions : sess[s].live => s = cur
  BY <1>0 DEF SessInv, TypeOK, Captured
<1>2. /\ sess' \in [Sessions -> Sess] /\ sess'[cur] = Dead
      /\ \A s \in Sessions \ {cur} : sess'[s] = sess[s]
  BY <1>0, <1>1, DeadSession DEF TypeOK, Sess
<1>3. TypeOK'
  <2>1. asked' \in Version \cup {None}
    BY <1>0, BookFields DEF TypeOK
  <2> QED BY <1>0, <1>1, <1>2, <2>1, UnlockedStores DEF TypeOK, Sess
<1>4. StackInv'
  BY <1>0 DEF StackInv
<1>5. SessInv'
  <2>1. \A s \in Sessions : ~sess'[s].live /\ sess'[s] = Dead /\ sess'[s].uri = sess'[s].be
    BY <1>1, <1>2, DeadSession DEF SessInv
  <2> QED BY <1>0, <2>1 DEF SessInv
<1>6. LocksAreUsed'
  BY <1>0, <1>1, <1>2, DeadSession, UnlockedStores DEF LocksAreUsed, TypeOK
<1>7. StoredInv'
  BY <1>0 DEF StoredInv
<1> QED BY <1>3, <1>4, <1>5, <1>6, <1>7

\* Opening another file: s takes the place of the current session.
LEMMA OpenCall ==
    ASSUME Inv, NEW s \in Sessions, Open(s)
    PROVE  /\ In("query_open") /\ Now.pc = "query_open" /\ Now.pc \notin Captured
           /\ asked' = IF book.dirty THEN book.mem ELSE asked
           /\ asked' \in Version \cup {None}
           /\ StackInv' /\ Now'.pc \notin SavingAt /\ quit # "over"
           /\ cur' = s /\ s # cur /\ cur \in Sessions /\ detached' = FALSE
           /\ sess[cur].live /\ sess[cur].book
           /\ \A t \in Sessions : sess[t].live => t = cur
           /\ \A t \in Sessions \ {cur} : sess[t] = Dead
           /\ UNCHANGED <<store, been, quit, last>>
<1>1. /\ In("query_open") /\ Return /\ cur' = s /\ ~sess[s].live /\ detached' = FALSE
      /\ asked' = IF book.dirty THEN book.mem ELSE asked
      /\ UNCHANGED <<store, been, quit, last>>
  BY DEF Open, Answered
<1>2. Ends("query_open")
  BY <1>1, EndCall DEF Inv
<1>3. Now.pc = "query_open" /\ stack # <<>> /\ StackInv' /\ Now'.pc \notin SavingAt
  BY <1>2 DEF Ends
<1>4. Now.pc \notin Captured /\ Now.pc \notin Moving /\ quit # "over" /\ cur \in Sessions
  BY <1>3 DEF Captured, Moving, Inv, SessInv, TypeOK
<1>5. /\ sess[cur].live /\ sess[cur].book
      /\ \A t \in Sessions : sess[t].live => t = cur
      /\ \A t \in Sessions \ {cur} : sess[t] = Dead
  BY <1>4 DEF Inv, SessInv
<1>6. asked' \in Version \cup {None}
  BY <1>1, BookFields DEF Inv, TypeOK
<1> QED BY <1>1, <1>3, <1>4, <1>5, <1>6

LEMMA OpenStep ==
    ASSUME Inv, NEW s \in Sessions, Open(s)
    PROVE  Inv' /\ StoredInv'
<1> USE DEF Inv
<1>1. /\ StackInv' /\ Now'.pc \notin Captured /\ Now'.pc \notin Moving /\ Now'.pc # "writing"
      /\ Now'.pc \notin {"exists", "locked"}
  BY OpenCall DEF Captured, Moving, SavingAt
<1>2. /\ Unlocked(cur) \in [Uris -> Sessions \cup {None, Other, Orphan}]
      /\ \A v \in Uris : Unlocked(cur)[v] \notin Sessions
      /\ \A v \in Uris : Unlocked(cur)[v] = Orphan => v \notin Sql
  <2>1. cur \in Sessions /\ \A t \in Sessions : sess[t].live => t = cur
    BY OpenCall
  <2> QED BY <2>1, UnlockedStores
<1>3. /\ quit' # "over" /\ cur' = s /\ asked' \in Version \cup {None}
      /\ detached' = FALSE /\ UNCHANGED <<store, been, quit, last>>
  BY OpenCall
<1>4. CASE OpenFails(s)
  <2>1. /\ sess' \in [Sessions -> Sess]
        /\ sess'[s].live /\ sess'[s].book /\ sess'[s].uri = None /\ sess'[s].be = None
        /\ \A t \in Sessions \ {s} : sess'[t] = Dead
    <3>1. /\ [Dead EXCEPT !.live = TRUE, !.book = TRUE] \in Sess
          /\ sess \in [Sessions -> Sess]
      BY DEF Dead, Sess, TypeOK
    <3>2. /\ sess' \in [Sessions -> Sess]
          /\ sess'[s] = [Dead EXCEPT !.live = TRUE, !.book = TRUE]
          /\ \A t \in Sessions \ {s} : sess'[t] = Dead
      BY <1>4, <3>1, OpenCall, DeadSession DEF OpenFails
    <3> QED BY <3>2 DEF Dead
  <2>2. /\ book' \in Book /\ book'.be = None /\ book'.mem = Empty
        /\ lock' = Unlocked(cur)
    BY <1>4, SaveAsAssumption DEF OpenFails, Book, Version, Empty
  <2>3. TypeOK'
    BY <1>3, <1>2, <2>1, <2>2 DEF TypeOK, Sess
  <2>4. SessInv'
    <3>1. \A t \in Sessions : /\ ~sess'[t].live => sess'[t] = Dead
                              /\ sess'[t].uri = sess'[t].be
                              /\ sess'[t].live <=> t = s
      BY <2>1, DeadSession
    <3> QED BY <1>1, <1>3, <2>1, <2>2, <3>1 DEF SessInv
  <2>5. LocksAreUsed'
    <3>1. \A u \in Uris : lock'[u] \notin Sessions
      BY <1>2, <2>2
    <3>2. \A t \in Sessions : sess'[t].be = None
      BY <2>1, DeadSession
    <3> QED BY <1>2, <2>2, <3>1, <3>2 DEF LocksAreUsed
  <2>6. StoredInv'
    BY <2>1, <2>2, OpenCall, SaveAsAssumption DEF StoredInv, Kept
  <2> QED BY <1>1, <2>3, <2>4, <2>5, <2>6
<1>5. ASSUME NEW u \in Uris, NEW locks \in BOOLEAN, NEW readonly \in BOOLEAN,
             Opened(s, u, locks, readonly)
      PROVE  Inv' /\ StoredInv'
  <2>1. /\ sess' \in [Sessions -> Sess]
        /\ sess'[s].live /\ sess'[s].book /\ sess'[s].uri = u /\ sess'[s].be = u
        /\ \A t \in Sessions \ {s} : sess'[t] = Dead
    <3>1. /\ [live |-> TRUE, uri |-> u, be |-> u, book |-> TRUE] \in Sess
          /\ sess \in [Sessions -> Sess]
      BY DEF Sess, TypeOK
    <3>2. /\ sess' \in [Sessions -> Sess]
          /\ sess'[s] = [live |-> TRUE, uri |-> u, be |-> u, book |-> TRUE]
          /\ \A t \in Sessions \ {s} : sess'[t] = Dead
      BY <1>5, <3>1, OpenCall, DeadSession DEF Opened
    <3> QED BY <3>2
  <2>2. /\ book' \in Book /\ book'.be = s /\ book'.mem = store[u] /\ book'.readonly = readonly
        /\ (~locks => readonly)
        /\ lock' = IF locks THEN [Unlocked(cur) EXCEPT ![u] = s] ELSE Unlocked(cur)
    <3>1. store[u] \in Version
      BY <1>5 DEF Opened, Exists, TypeOK
    <3> QED BY <1>5, <3>1 DEF Opened, Book
  <2>3. TypeOK'
    <3>1. lock' \in [Uris -> Sessions \cup {None, Other, Orphan}]
      BY <1>2, <2>2
    <3> QED BY <2>1, <2>2, <3>1, OpenCall DEF TypeOK, Sess
  <2>4. SessInv'
    <3>1. \A t \in Sessions : /\ ~sess'[t].live => sess'[t] = Dead
                              /\ sess'[t].uri = sess'[t].be
                              /\ sess'[t].live <=> t = s
      BY <2>1, DeadSession
    <3> QED BY <1>1, <1>3, <2>1, <2>2, <3>1 DEF SessInv
  <2>5. LocksAreUsed'
    <3>2. \A t \in Sessions \ {s} : sess'[t].be = None
      BY <2>1, DeadSession
    <3>3. CASE locks
      <4>1. /\ lock'[u] = s /\ \A v \in Uris \ {u} : lock'[v] \notin Sessions
            /\ \A v \in Uris \ {u} : lock'[v] = Orphan => v \notin Sql
        BY <1>2, <2>2, <3>3
      <4> QED BY <2>1, <3>2, <4>1, SaveAsAssumption DEF LocksAreUsed
    <3>4. CASE ~locks
      BY <1>2, <2>1, <2>2, <3>2, <3>4 DEF LocksAreUsed
    <3> QED BY <3>3, <3>4
  <2>6. StoredInv'
    BY <2>1, <2>2, OpenCall, SaveAsAssumption DEF StoredInv, Kept
  <2> QED BY <1>1, <2>3, <2>4, <2>5, <2>6
<1> QED BY <1>4, <1>5 DEF Open

\* Another program has locked or unlocked a store.
LEMMA OtherProgramStep ==
    ASSUME Inv, NEW u \in Uris, OtherProgram(u)
    PROVE  Inv' /\ (StoredInv => StoredInv')
<1> USE DEF Inv
<1>1. /\ UNCHANGED <<store, sess, cur, book, stack, been, quit, last, asked, detached>>
      /\ Now' = Now
  BY DEF OtherProgram, Now, Top
<1>2. /\ lock' \in [Uris -> Sessions \cup {None, Other, Orphan}]
      /\ lock'[u] \in {None, Other} /\ \A v \in Uris \ {u} : lock'[v] = lock[v]
      /\ \A s \in Sessions : sess[s].be # u
  BY DEF OtherProgram, TypeOK
<1>3. TypeOK'
  BY <1>1, <1>2 DEF TypeOK
<1>4. StackInv'
  BY <1>1 DEF StackInv, Below, Top
<1>5. SessInv'
  BY <1>1 DEF SessInv
<1>6. LocksAreUsed'
  BY <1>1, <1>2, SaveAsAssumption DEF LocksAreUsed, TypeOK
<1>7. StoredInv => StoredInv'
  BY <1>1 DEF StoredInv, Kept
<1> QED BY <1>3, <1>4, <1>5, <1>6, <1>7

-----------------------------------------------------------------------------
(* The theorems.                                                           *)

LEMMA InitInv == Init => Inv /\ StoredInv
<1> SUFFICES ASSUME Init
             PROVE  Inv /\ StoredInv
  OBVIOUS
<1>0. /\ store \in [Uris -> {None, 1}] /\ lock \in [Uris -> {None, Other}]
      /\ cur \in Sessions /\ stack = <<>> /\ been = FALSE /\ quit = "no"
      /\ last = 1 /\ asked = None /\ detached = FALSE
      /\ book = [mem |-> Empty, be |-> None, dirty |-> FALSE,
                 readonly |-> FALSE, timer |-> FALSE]
  BY Zenon DEF Init
<1>1. sess \in [Sessions -> Sess]
  BY DEF Init, Sess, Dead
<1>2. \A s \in Sessions : /\ sess[s].live <=> s = cur
                          /\ sess[s].book <=> s = cur
                          /\ sess[s].uri = None /\ sess[s].be = None
                          /\ s # cur => sess[s] = Dead
  BY DEF Init, Dead
<1>3. 0 \in Version /\ 1 \in Version
  BY SaveAsAssumption DEF Version
<1>4. TypeOK
  <2>1. store \in [Uris -> Version \cup {None}] /\ last \in Version
    BY <1>0, <1>3
  <2>2. book \in Book
    BY <1>0, <1>3 DEF Book, Empty
  <2> QED BY <1>0, <1>1, <2>1, <2>2 DEF TypeOK, Sess
<1>5. StackInv
  BY <1>0 DEF StackInv
<1>6. Now.pc = "idle"
  BY <1>0 DEF Now, Idle, Call
<1>7. SessInv
  BY <1>0, <1>2, <1>6 DEF SessInv, Captured, Moving
<1>8. LocksAreUsed
  BY <1>0, <1>2, SaveAsAssumption DEF LocksAreUsed
<1>9. StoredInv
  BY <1>0, <1>2, SaveAsAssumption DEF StoredInv, Kept, Empty
<1> QED BY <1>4, <1>5, <1>7, <1>8, <1>9 DEF Inv

LEMMA NextInv == Inv /\ [Next]_vars => Inv' /\ (StoredInv => StoredInv')
<1> SUFFICES ASSUME Inv, [Next]_vars
             PROVE  Inv' /\ (StoredInv => StoredInv')
  OBVIOUS
<1>1. CASE Calls
  <2>1. Running
    BY DEF Inv, SessInv, Running
  <2> QED BY <1>1, <2>1, CallsAside, AsideStep, AsideStored DEF Inv
<1>2. CASE Edit
  BY <1>2, EditStep
<1>3. CASE Written
  BY <1>3, WrittenStep
<1>4. CASE NotWrittenNew
  BY <1>4, NotWrittenNewStep DEF Inv, SessInv, Running
<1>5. CASE Replace
  BY <1>5, ReplaceStep
<1>6. CASE GiveUp
  BY <1>6, GiveUpStep
<1>7. CASE WrittenNew
  BY <1>7, WrittenNewStep
<1>8. CASE NewErrorRead
  BY <1>8, NewErrorStep
<1>9. CASE Shutdown
  BY <1>9, ShutdownStep
<1>10. CASE \E s \in Sessions : Open(s) \/ \E u \in Uris : Choose(s, u)
  BY <1>10, OpenStep, ChooseStep
<1>11. CASE \E u \in Uris : OtherProgram(u)
  BY <1>11, OtherProgramStep
<1>12. CASE UNCHANGED vars
  <2>1. UNCHANGED <<store, lock, sess, cur, book, stack, been, quit, last, asked, detached>>
    BY <1>12 DEF vars, stores
  <2>2. TypeOK'
    BY <2>1 DEF Inv, TypeOK
  <2>3. StackInv' /\ Now' = Now
    BY <2>1 DEF Inv, StackInv, Below, Top, Now
  <2>4. SessInv' /\ LocksAreUsed'
    BY <2>1, <2>3 DEF Inv, SessInv, LocksAreUsed
  <2>5. StoredInv => StoredInv'
    BY <2>1, <2>3 DEF StoredInv, Kept
  <2> QED BY <2>2, <2>3, <2>4, <2>5 DEF Inv
<1> QED BY <1>1, <1>2, <1>3, <1>4, <1>5, <1>6, <1>7, <1>8, <1>9, <1>10, <1>11, <1>12
     DEF Next, Calls

\* The inductive invariant: the innermost call alone is saving, and what it has
\* come to says which sessions are alive, which has the book and the backend
\* (gnc_file_do_save_as), which stores are locked, and what they hold.
THEOREM Invariant == Spec => [](Inv /\ StoredInv)
<1>1. Init => Inv /\ StoredInv
  BY InitInv
<1>2. (Inv /\ StoredInv) /\ [Next]_vars => (Inv /\ StoredInv)'
  BY NextInv
<1> QED BY <1>1, <1>2, PTL DEF Spec

\* The values of the variables (gnc-file.c, qofsession.cpp, qofbook.cpp).
THEOREM TypeCorrect == Spec => []TypeOK
BY Invariant, PTL DEF Inv

\* Only the innermost call is saving.
LEMMA OthersQuiet ==
    ASSUME StackInv, NEW i \in 1 .. Len(stack), i # Len(stack)
    PROVE  stack[i].pc \notin SavingAt /\ stack[i].session = None
<1>1. stack # <<>> /\ stack \in Seq(CallType)
  BY DEF StackInv
<1>2. i \in 1 .. Len(stack) - 1 /\ Below[i] = stack[i] /\ Len(Below) = Len(stack) - 1
  BY <1>1, Outer DEF Below
<1> QED BY <1>1, <1>2 DEF StackInv, Quiet

LEMMA InPlace == Inv => SessionsInPlace
<1> SUFFICES ASSUME Inv
             PROVE  SessionsInPlace
  OBVIOUS
<1>0. stack \in Seq(CallType) /\ (stack # <<>> => Now = stack[Len(stack)] /\ Len(stack) \in 1 .. Len(stack))
      /\ (stack = <<>> => Now = Idle /\ Len(stack) = 0)
  BY DEF Inv, StackInv, Now, Top
<1>1. CapturedIsCurrent
  <2> SUFFICES ASSUME NEW i \in 1 .. Len(stack), stack[i].session # None
               PROVE  /\ stack[i].session = cur /\ sess[cur].live
                      /\ sess[stack[i].new].live
    BY DEF CapturedIsCurrent
  <2>1. i = Len(stack) /\ stack # <<>>
    BY OthersQuiet DEF Inv, StackInv
  <2>2. Now = stack[i] /\ Now.pc \in Captured
    BY <1>0, <2>1 DEF Inv, StackInv, Top
  <2> QED BY <2>2, CapturedCall
<1>2. Moved = IF Now.pc \in Moving THEN {Now.new} ELSE {}
  <2>1. \A i \in 1 .. Len(stack) : i # Len(stack) => stack[i].pc \notin Moving
    BY OthersQuiet DEF Inv, Moving, SavingAt
  <2>2. CASE stack = <<>>
    BY <1>0, <2>2 DEF Moved, Idle, Call, Moving
  <2>3. CASE stack # <<>>
    BY <1>0, <2>1, <2>3 DEF Moved, Moving
  <2> QED BY <2>2, <2>3
<1>3. BookHasItsSession
  <2> SUFFICES ASSUME quit # "over"
               PROVE  /\ {s \in Sessions : sess[s].live /\ sess[s].book}
                             = IF Moved = {} THEN {cur} ELSE Moved
                      /\ book.be # None => sess[book.be].live /\ sess[book.be].book
    BY DEF BookHasItsSession
  <2>1. CASE Now.pc \in Moving
    <3>1. Now.pc \in Captured
      BY <2>1 DEF Moving, Captured
    <3>2. /\ sess[Now.new].book /\ ~sess[cur].book /\ book.be = Now.new
          /\ \A s \in Sessions : sess[s].live <=> s \in {cur, Now.new}
      BY <2>1, <3>1 DEF Inv, SessInv
    <3> QED BY <1>2, <2>1, <3>1, <3>2, CapturedCall
  <2>2. CASE Now.pc \in {"exists", "locked"}
    <3>1. Now.pc \in Captured /\ Now.pc \notin Moving
      BY <2>2 DEF Moving, Captured
    <3>2. /\ sess[cur].book /\ book.be \in {cur, None}
          /\ sess[Now.new] = [Dead EXCEPT !.live = TRUE]
          /\ \A s \in Sessions : sess[s].live <=> s \in {cur, Now.new}
      BY <2>2, <3>1 DEF Inv, SessInv
    <3>3. ~sess[Now.new].book
      BY <3>2 DEF Dead
    <3> QED BY <1>2, <3>1, <3>2, <3>3, CapturedCall
  <2>3. CASE Now.pc \notin Captured
    <3>1. Now.pc \notin Moving
      BY <2>3 DEF Moving, Captured
    <3> QED BY <1>2, <2>3, <3>1 DEF Inv, SessInv, TypeOK
  <2> QED BY <2>1, <2>2, <2>3 DEF Captured, Moving
<1> QED BY <1>1, <1>3 DEF SessionsInPlace

\* However timers and questions fall into Save As, it destroys, locks and
\* restores the sessions it believes it has, and the book is in one of them
\* (gnc_file_do_save_as).
THEOREM SessionsStayInPlace == Spec => []SessionsInPlace
BY Invariant, InPlace, PTL

\* No session that is gone holds a lock, and a store in use is locked; the lock
\* left by a Save As of a read-only book is that of a file (qof_session_begin,
\* qof_session_destroy, GncXmlBackend::session_end).
THEOREM LocksHaveSessions == Spec => []LocksAreUsed
BY Invariant, PTL DEF Inv

\* A book that is not marked dirty is stored, except after a Save As from a
\* database that failed (qof_book_session_not_saved).
THEOREM CleanIsStored == Spec => []CleanUnlessDetached
<1>1. StoredInv => CleanUnlessDetached
  BY DEF StoredInv, CleanUnlessDetached, CleanIsSaved
<1> QED BY <1>1, Invariant, PTL

LEMMA Discards ==
    ASSUME Inv, StoredInv, [Next]_vars
    PROVE  [sess[cur].book /\ ~sess'[cur].live /\ ~detached => Kept(asked')]_vars
<1> SUFFICES ASSUME sess[cur].book, ~sess'[cur].live, ~detached, Next
             PROVE  Kept(asked')
  BY DEF vars, stores, Inv, SessInv
<1>0. quit # "over" => sess[cur].live /\ cur \in Sessions
  BY DEF Inv, SessInv, TypeOK
<1>1. CASE UNCHANGED sess
  <2>1. ~sess[cur].live /\ cur \in Sessions
    BY <1>1 DEF Inv, TypeOK
  <2>2. sess[cur] = Dead
    BY <2>1 DEF Inv, SessInv
  <2> QED BY <2>2 DEF Dead
<1>2. CASE Calls \/ Edit \/ Written \/ NotWrittenNew \/ \E u \in Uris : OtherProgram(u)
  <2>1. Running
    BY DEF Inv, SessInv, Running
  <2>2. Calls => UNCHANGED sess
    BY <2>1, CallsAside DEF Inv, Aside
  <2>3. UNCHANGED sess
    BY <1>2, <2>2 DEF Edit, Written, NotWrittenNew, OtherProgram
  <2> QED BY <1>1, <2>3
\* Shutdown, Open: with what the user has answered.
<1>3. CASE Answered("query_quit") \/ Answered("query_open")
  <2>1. quit # "over" /\ asked' = IF book.dirty THEN book.mem ELSE asked
    BY <1>3, Inner DEF Answered, Inv, SessInv
  <2> QED BY <2>1 DEF StoredInv, Kept
\* The book is in the new session.
<1>4. CASE WrittenNew \/ NewErrorRead
  <2>1. Now.pc \in Moving /\ Now.pc \in Captured
    BY <1>4, Inner DEF WrittenNew, NewErrorRead, Inv, Moving, Captured
  <2> QED BY <2>1, CapturedCall DEF Inv, SessInv
\* The session that ends, or begins, is the new one.
<1>5. CASE GiveUp
  <2>1. Now = Top /\ Now.pc \in Captured
    BY <1>5, Inner DEF GiveUp, Inv, Captured
  <2>2. sess'[cur] = sess[cur] /\ sess[cur].live
    BY <1>5, <2>1, CapturedCall DEF GiveUp, Inv, TypeOK
  <2> QED BY <2>2
<1>6. ASSUME NEW n \in Sessions, NEW u, NEW b, n # cur, quit # "over", Begins(n, u, b)
      PROVE  FALSE
  <2>1. sess'[cur] = [sess[cur] EXCEPT !.book = FALSE] /\ sess[cur] \in Sess
    BY <1>0, <1>6 DEF Begins, Inv, TypeOK, Sess
  <2> QED BY <1>0, <1>6, <2>1 DEF Sess
<1>7. CASE Replace
  <2>1. Now.pc \in Captured /\ Now.new \in Sessions /\ Now.to \in Uris /\ Now.new # cur
        /\ quit # "over"
    BY <1>7, Inner, CapturedCall DEF Replace, Inv, Captured
  <2>2. Begins(Now.new, Now.to, book)
    BY <1>7, <2>1, ReplaceCall DEF Inv
  <2> QED BY <1>6, <2>1, <2>2
<1>8. ASSUME NEW n \in Sessions, NEW u \in Uris, Choose(n, u)
      PROVE  Kept(asked')
  <2>1. quit # "over" /\ ~sess[n].live /\ n # cur
    BY <1>0, <1>8, ChooseCall DEF Inv
  <2>2. CASE Asks(n, u)
    BY <1>0, <2>1, <2>2 DEF Asks, Inv, TypeOK
  <2>3. CASE Begins(n, u, AllLoaded)
    BY <1>6, <2>1, <2>3
  <2>4. CASE UNCHANGED sess
    BY <1>1, <2>4
  <2> QED BY <1>8, <2>2, <2>3, <2>4, ChooseCall DEF Inv
<1> QED BY <1>2, <1>3, <1>4, <1>5, <1>7, <1>8
     DEF Next, Calls, Shutdown, Open

\* The book is destroyed only when it is stored, or when the user has agreed to
\* discard this version of it (gnc_file_query_save, gnc_file_quit,
\* gnc_post_file_open).
THEOREM DiscardsAreAsked == Spec => DiscardsAsked
<1>1. (Inv /\ StoredInv) /\ [Next]_vars
        => [sess[cur].book /\ ~sess'[cur].live /\ ~detached => Kept(asked')]_vars
  BY Discards
<1> QED BY <1>1, Invariant, PTL DEF Spec, DiscardsAsked
=============================================================================
