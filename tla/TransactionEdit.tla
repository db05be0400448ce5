-------------------------- MODULE TransactionEdit --------------------------
(***************************************************************************)
(* Editing transactions: libgnucash/engine/Transaction.cpp with the parts  *)
(* of Split.cpp, Account.cpp, Scrub.cpp and qofinstance.cpp it is made of. *)
(*                                                                         *)
(* A transaction is edited between BeginEdit and CommitEdit or             *)
(* RollbackEdit.  In between its splits change at once, but the accounts   *)
(* keep their lists of splits and their balances until the commit.  The    *)
(* engine is one thread; what interleaves are the edits of several         *)
(* transactions (register windows, dialogs and imports each keep one       *)
(* open), which meet in the accounts.                                      *)
(*                                                                         *)
(* A step is one call of the interface.  A setter called on a transaction  *)
(* that is not open wraps itself in BeginEdit and CommitEdit: here these   *)
(* are the three calls in succession.  All accounts have the               *)
(* transaction's currency; lots and trading accounts are not modelled, nor *)
(* a split that is moved from one transaction to another.                  *)
(***************************************************************************)
EXTENDS Integers, FiniteSetsExt, SequencesExt

CONSTANTS
    Trans,          \* the transactions
    Splits,         \* the splits that can be in memory at a time
    UserAccounts,   \* the accounts of the user
    Imbalance,      \* the account the scrub balances transactions with
    Orphan,         \* the account the scrub gives splits that have none
    Values,         \* the values a user enters
    MaxNest,        \* bound: nesting of BeginEdit
    MaxCalls,       \* bound: calls that change something, in a behaviour
    MaxValue,       \* bound: what the scrub may have to enter
    Rollbacks,      \* whether edits are cancelled, or refused by the backend
    Clears,         \* whether the splits are cleared within an edit
    MaxRefused      \* bound: splits that the backend has refused

Accounts == UserAccounts \cup {Imbalance, Orphan}
None == "none"

ASSUME EditAssumption ==
    /\ None \notin Trans /\ None \notin Accounts /\ None \notin Splits
    /\ IsFiniteSet(Splits)
    /\ Imbalance # Orphan /\ {Imbalance, Orphan} \cap UserAccounts = {}
    /\ Values \subseteq Int /\ MaxNest \in Nat \ {0}
    /\ MaxCalls \in Nat /\ MaxValue \in Nat
    /\ Rollbacks \in BOOLEAN /\ Clears \in BOOLEAN /\ MaxRefused \in Nat

VARIABLES
    tx,   \* the transactions: editlevel, splits, destroying, and orig
    sp,   \* the splits
    ac,   \* the accounts: their splits and balance
    calls \* how many calls changed something (for the bound only)

vars == <<tx, sp, ac, calls>>

\* A split, and what dupe_trans keeps of it.  xaccFreeSplit nulls the fields.
\* refused is a history: the backend refused the last commit of the split.  If
\* that was to delete it, the split is not live: it is in no list any more, but
\* still in memory, where a query finds it.
Split == [live : BOOLEAN, parent : Trans \cup {None},
          orig_parent : Trans \cup {None}, acc : Accounts \cup {None},
          orig_acc : Accounts \cup {None}, value : Int, amount : Int,
          dirty : BOOLEAN, destroying : BOOLEAN, refused : BOOLEAN]
Dupe == [guid : Splits, acc : Accounts \cup {None}, value : Int, amount : Int]
NoSplit == [live |-> FALSE, parent |-> None, orig_parent |-> None,
            acc |-> None, orig_acc |-> None, value |-> 0, amount |-> 0,
            dirty |-> FALSE, destroying |-> FALSE, refused |-> FALSE]

Transaction == [made : BOOLEAN, editlevel : Nat, destroying : BOOLEAN,
                splits : Seq(Splits), orig : Seq(Dupe)]
NoTrans == [made |-> FALSE, editlevel |-> 0, destroying |-> FALSE,
            splits |-> <<>>, orig |-> <<>>]

Account == [splits : SUBSET Splits, balance : Int]

Init ==
    /\ tx = [t \in Trans |-> NoTrans]
    /\ sp = [s \in Splits |-> NoSplit]
    /\ ac = [a \in Accounts |-> [splits |-> {}, balance |-> 0]]
    /\ calls = 0

Open(t) == tx[t].editlevel > 0
Called == calls < MaxCalls /\ calls' = calls + 1
Listed(t) == ToSet(tx[t].splits)
Unused(s) == ~sp[s].live /\ ~sp[s].refused

\* xaccTransStillHasSplit: the splits of t in the state of the edit.
StillHas(t) ==
    {s \in Listed(t) : sp[s].parent = t /\ ~sp[s].destroying}

\* f[s] summed over the splits s in S.
Sum(S, f) == MapThenSumSet(LAMBDA s : f[s], S)
ValueIn(book)  == [s \in Splits |-> book[s].value]
AmountIn(book) == [s \in Splits |-> book[s].amount]

\* The members of list that are in S, in the order of the list.
Place(s, list) == CHOOSE i \in DOMAIN list : list[i] = s
Those(list, S) ==
    {order \in SetToSeqs(ToSet(list) \cap S) :
        \A i, j \in DOMAIN order :
            i < j => Place(order[i], list) < Place(order[j], list)}

-----------------------------------------------------------------------------
(* What a commit does to the accounts.                                     *)

\* Account a, with splits S of which `book` tells the amounts, recomputed.
Recomputed(S, book) ==
    [splits |-> S, balance |-> Sum(S, AmountIn(book))]

\* xaccSplitCommitEdit, for the splits `changed`, in the order of list, on
\* account a: those destroyed or moved away are removed, those moved here
\* inserted.  The balance is recomputed, over what the account then holds, when
\* one is removed, or has been committed; after an insertion that the backend
\* refuses it is not.
Leaves(s, a, book) ==
    book[s].orig_acc = a /\ (book[s].acc # a \/ book[s].destroying)
Enters(s, a, book) ==
    book[s].acc = a /\ book[s].orig_acc # a /\ ~book[s].destroying

MutMembers(a, changed, book) ==
    IF \E s \in changed : a \in {book[s].acc, book[s].orig_acc}
    THEN (ac[a].splits \ {s \in changed : book[s].destroying})
         \cup {s \in changed : book[s].acc = a /\ ~book[s].destroying}
    ELSE ac[a].splits
Members(a, changed, book) ==
    (ac[a].splits \ {s \in changed : Leaves(s, a, book)})
    \cup {s \in changed : Enters(s, a, book)}

MutRecomputeFor(a, changed, refused, book) ==
    {s \in changed \ refused : book[s].acc = a}
RecomputeFor(a, changed, refused, book) ==
    {s \in changed : Leaves(s, a, book) \/ (book[s].acc = a /\ s \notin refused)}

AccountAfter(a, list, changed, refused, book) ==
    LET members == Members(a, changed, book)
        last    == RecomputeFor(a, changed, refused, book)
        late    == {s \in refused : Enters(s, a, book) /\
                      \A r \in last : Place(r, list) < Place(s, list)}
    IN  IF last = {} THEN [ac[a] EXCEPT !.splits = members]
        ELSE [Recomputed(members \ late, book) EXCEPT !.splits = members]

\* ... and on split s itself.  A refused one stays dirty, and is not freed.
SplitAfter(s, changed, refused, book) ==
    IF s \notin changed THEN book[s]
    ELSE IF book[s].destroying /\ s \notin refused THEN NoSplit
    ELSE [book[s] EXCEPT !.orig_acc = book[s].acc,
                         !.orig_parent = book[s].parent,
                         !.live = ~book[s].destroying,
                         !.destroying = FALSE,
                         !.dirty = s \in refused,
                         !.refused = s \in refused]

CommitSplits(list, changed, book) ==
    \E refused \in SUBSET changed :
        /\ Cardinality(refused \cup {s \in Splits : sp[s].refused}) <= MaxRefused
        /\ sp' = [s \in Splits |-> SplitAfter(s, changed, refused, book)]
        /\ ac' = [a \in Accounts |->
                    AccountAfter(a, list, changed, refused, book)]

-----------------------------------------------------------------------------
(* The calls that change an open transaction.                              *)

\* xaccMallocTransaction; not where the parent of a split that was not deleted
\* has been.
Malloc(t) ==
    /\ ~tx[t].made /\ \A s \in Splits : sp[s].parent # t
    /\ tx' = [tx EXCEPT ![t].made = TRUE]
    /\ UNCHANGED <<sp, ac, calls>>

\* dupe_trans, for what is under the edit.
Duped(t) ==
    [i \in DOMAIN tx[t].splits |->
        LET s == tx[t].splits[i]
        IN  [guid |-> s, acc |-> sp[s].acc,
             value |-> sp[s].value, amount |-> sp[s].amount]]

\* The original is duped only by the outermost BeginEdit.
BeginEdit(t) ==
    /\ tx[t].made
    /\ tx[t].editlevel < MaxNest
    /\ tx' = [tx EXCEPT ![t].editlevel = @ + 1,
                        ![t].orig = IF Open(t) THEN @ ELSE Duped(t)]
    /\ UNCHANGED <<sp, ac, calls>>

\* A new split is given an account (or none yet) and set into the transaction.
MutPrependSplit(t, s, a) ==
    /\ Open(t) /\ Called /\ Unused(s)
    /\ sp' = [sp EXCEPT ![s] = [NoSplit EXCEPT
                !.live = TRUE, !.parent = t, !.acc = a, !.dirty = TRUE]]
    /\ tx' = [tx EXCEPT ![t].splits = <<s>> \o @]
    /\ UNCHANGED ac
NewSplit(t, s, a) ==
    /\ Open(t) /\ Called /\ Unused(s)
    /\ sp' = [sp EXCEPT ![s] = [NoSplit EXCEPT
                !.live = TRUE, !.parent = t, !.acc = a, !.dirty = TRUE]]
    /\ tx' = [tx EXCEPT ![t].splits = Append(@, s)]
    /\ UNCHANGED ac

\* s is a split of an open transaction (one that is freed is not).
Editable(s) == sp[s].parent # None /\ Open(sp[s].parent)

SetAccount(s, a) ==
    /\ Editable(s) /\ Called /\ sp[s].acc # a
    /\ sp' = [sp EXCEPT ![s].acc = a, ![s].dirty = TRUE]
    /\ UNCHANGED <<tx, ac>>

MutSetValueNotDirty(s, v) ==
    /\ Editable(s) /\ Called /\ sp[s].value # v
    /\ sp' = [sp EXCEPT ![s].value = v]
    /\ UNCHANGED <<tx, ac>>
SetValue(s, v) ==
    /\ Editable(s) /\ Called /\ sp[s].value # v
    /\ sp' = [sp EXCEPT ![s].value = v, ![s].dirty = TRUE]
    /\ UNCHANGED <<tx, ac>>

SetAmount(s, v) ==
    /\ Editable(s) /\ Called /\ sp[s].amount # v
    /\ sp' = [sp EXCEPT ![s].amount = v, ![s].dirty = TRUE]
    /\ UNCHANGED <<tx, ac>>

\* Unlike the others this setter recomputes the balance of the account that
\* the split is pending in.
SetReconcile(s) ==
    /\ Editable(s) /\ Called
    /\ sp' = [sp EXCEPT ![s].dirty = TRUE]
    /\ ac' = [a \in Accounts |->
                IF a = sp[s].acc THEN Recomputed(ac[a].splits, sp) ELSE ac[a]]
    /\ UNCHANGED tx

SplitDestroy(s) ==
    /\ Editable(s) /\ Called /\ ~sp[s].destroying
    /\ sp' = [sp EXCEPT ![s].destroying = TRUE, ![s].dirty = TRUE]
    /\ UNCHANGED <<tx, ac>>

Destroy(t) ==
    /\ Open(t) /\ Called /\ ~tx[t].destroying
    /\ tx' = [tx EXCEPT ![t].destroying = TRUE]
    /\ UNCHANGED <<sp, ac>>

\* xaccTransClearSplits destroys the splits and commits them at once, whether
\* or not the transaction is in an edit that may be rolled back.
Cleared(t, book) ==
    LET own == {s \in Listed(t) : book[s].parent = t}
    IN  CommitSplits(tx[t].splits, own, [s \in Splits |->
            IF s \in own
            THEN [book[s] EXCEPT !.destroying = TRUE, !.dirty = TRUE]
            ELSE book[s]])

ClearSplits(t) ==
    /\ Clears /\ Open(t) /\ Called
    /\ Cleared(t, sp)
    /\ tx' = [tx EXCEPT ![t].splits = <<>>]

-----------------------------------------------------------------------------
(* The scrub of a commit: xaccTransScrubImbalance.                         *)

\* If a split of t has no account, all that have none get the Orphan account;
\* the amount of every split becomes its value.
MutLeaveOrphans(t) ==
    [s \in Splits |->
        IF s \in Listed(t) /\ sp[s].parent = t
        THEN [sp[s] EXCEPT !.amount = sp[s].value,
                           !.dirty = @ \/ sp[s].amount # sp[s].value]
        ELSE sp[s]]
ScrubSplits(t) ==
    LET own     == {s \in Listed(t) : sp[s].parent = t}
        orphans == IF \E s \in own : sp[s].acc = None
                   THEN {s \in Listed(t) : sp[s].acc = None} ELSE {}
    IN  [s \in Splits |->
            [sp[s] EXCEPT
                !.acc    = IF s \in orphans THEN Orphan ELSE @,
                !.amount = IF s \in own THEN sp[s].value ELSE @,
                !.dirty  = @ \/ s \in orphans
                             \/ (s \in own /\ sp[s].amount # sp[s].value)]]

ImbalanceValue(t) == Sum(StillHas(t), ValueIn(sp))

\* The split that the scrub balances t with: none if t is balanced, its first
\* split in the Imbalance account, or else a new one.
Balancing(t) == {s \in StillHas(t) : sp[s].acc = Imbalance}
Balancer(t) ==
    IF ImbalanceValue(t) = 0 THEN {None}
    ELSE IF Balancing(t) # {}
         THEN {tx[t].splits[CHOOSE i \in DOMAIN tx[t].splits :
                 /\ tx[t].splits[i] \in Balancing(t)
                 /\ \A j \in 1 .. i - 1 : tx[t].splits[j] \notin Balancing(t)]}
         ELSE {s \in Splits : Unused(s)}

\* The splits and t's list of them when the scrub has balanced t with b.
Scrubbed(t, b) ==
    LET book  == ScrubSplits(t)
        value == book[b].value - ImbalanceValue(t)
    IN  IF b = None THEN book
        ELSE [book EXCEPT ![b] = [@ EXCEPT
                !.live = TRUE, !.parent = t, !.acc = Imbalance,
                !.value = value, !.amount = value, !.dirty = TRUE]]
ScrubbedList(t, b) ==
    IF b = None \/ b \in Listed(t) THEN tx[t].splits
    ELSE Append(tx[t].splits, b)

InBounds(book) ==
    \A s \in Splits : book[s].value \in -MaxValue .. MaxValue

-----------------------------------------------------------------------------
(* The end of an edit.                                                     *)

\* Inner levels of an edit end without effect, by a commit or a rollback.
MutEndUnopened(t) ==
    /\ tx[t].editlevel # 1
    /\ tx' = [tx EXCEPT ![t].editlevel = @ - 1]
    /\ UNCHANGED <<sp, ac, calls>>
EndNested(t) ==
    /\ tx[t].editlevel > 1
    /\ tx' = [tx EXCEPT ![t].editlevel = @ - 1]
    /\ UNCHANGED <<sp, ac, calls>>

\* A transaction that has lost all its splits is destroyed by the commit.
Dies(t) == tx[t].destroying \/ StillHas(t) = {}

\* The outermost commit, accepted by the backend: trans_cleanup_commit
\* commits the splits that are dirty and drops from the list those destroyed,
\* or no longer the transaction's; orig goes, and the list is sorted, debits
\* first.
Commit(t, b) ==
    /\ tx[t].editlevel = 1 /\ ~Dies(t) /\ UNCHANGED calls
    /\ b \in Balancer(t)
    /\ LET book  == Scrubbed(t, b)
           list  == ScrubbedList(t, b)
           dirty == {s \in ToSet(list) : book[s].dirty}
           stays == {s \in ToSet(list) : s \in dirty =>
                        book[s].parent = t /\ ~book[s].destroying}
       IN  /\ InBounds(book)
           /\ CommitSplits(list, {s \in dirty : book[s].parent = t}, book)
           /\ \E debits  \in Those(list, {s \in stays : book[s].value >= 0}),
                 credits \in Those(list, {s \in stays : book[s].value < 0}) :
                tx' = [tx EXCEPT ![t].editlevel = 0, ![t].orig = <<>>,
                                 ![t].splits = debits \o credits]

\* The outermost commit of a transaction that is destroyed: do_destroy.
CommitDestroy(t) ==
    /\ tx[t].editlevel = 1 /\ Dies(t) /\ UNCHANGED calls
    /\ Cleared(t, sp)
    /\ tx' = [tx EXCEPT ![t] = NoTrans]

\* xaccTransRollbackEdit at the outermost level, when the splits are `book` and
\* the list is `list`.  The i-th split of the list, if dirty, is put back to
\* the i-th of the original; a dirty split beyond the original is a new one,
\* and is freed.  Nothing is done about the balances.
RolledBack(t, book, list, i) ==
    LET s == list[i] IN
    IF i <= Len(tx[t].orig)
    THEN [book[s] EXCEPT !.acc = book[s].orig_acc,
            !.parent = book[s].orig_parent, !.destroying = FALSE,
            !.value = tx[t].orig[i].value, !.amount = tx[t].orig[i].amount,
            !.dirty = FALSE]
    ELSE NoSplit

Restore(t, book, list) ==
    LET dirty == {i \in DOMAIN list : book[list[i]].dirty}
        new   == {list[i] : i \in {j \in dirty : j > Len(tx[t].orig)}}
    IN  /\ sp' = [s \in Splits |->
                IF \E i \in dirty : list[i] = s
                THEN RolledBack(t, book, list,
                                CHOOSE i \in dirty : list[i] = s)
                ELSE book[s]]
        /\ \E left \in Those(list, Splits \ new) :
             tx' = [tx EXCEPT ![t].editlevel = 0, ![t].orig = <<>>,
                              ![t].destroying = FALSE, ![t].splits = left]
        /\ UNCHANGED ac

RollbackEdit(t) ==
    /\ Rollbacks /\ tx[t].editlevel = 1 /\ UNCHANGED calls
    /\ Restore(t, sp, tx[t].splits)

\* The outermost commit, refused by the backend: trans_on_error rolls back,
\* from the state after the scrub.
CommitFails(t, b) ==
    /\ Rollbacks /\ tx[t].editlevel = 1 /\ UNCHANGED calls
    /\ \/ Dies(t) /\ b = None /\ Restore(t, sp, tx[t].splits)
       \/ /\ ~Dies(t) /\ b \in Balancer(t)
          /\ InBounds(Scrubbed(t, b))
          /\ Restore(t, Scrubbed(t, b), ScrubbedList(t, b))

-----------------------------------------------------------------------------

Next ==
    \/ \E t \in Trans :
        \/ Malloc(t) \/ BeginEdit(t) \/ Destroy(t) \/ ClearSplits(t)
        \/ EndNested(t) \/ CommitDestroy(t) \/ RollbackEdit(t)
        \/ \E s \in Splits, a \in UserAccounts \cup {None} : NewSplit(t, s, a)
        \/ \E b \in Splits \cup {None} : Commit(t, b) \/ CommitFails(t, b)
    \/ \E s \in Splits :
        \/ \E a \in Accounts : SetAccount(s, a)
        \/ \E v \in Values : SetValue(s, v) \/ SetAmount(s, v)
        \/ SetReconcile(s) \/ SplitDestroy(s)

Spec == Init /\ [][Next]_vars

-----------------------------------------------------------------------------
(* Properties.                                                             *)

TypeOK ==
    /\ tx \in [Trans -> Transaction]
    /\ sp \in [Splits -> Split]
    /\ ac \in [Accounts -> Account]
    /\ calls \in 0 .. MaxCalls

\* The many side and the one side agree: an account's list holds exactly the
\* splits that were last committed into it, whatever pending edits say; no list
\* refers to a split that was freed, and a split in memory is in the list of its
\* transaction, once, and in no other; unless the backend refused to delete it:
\* then it is in none.  (The code logs "Account lost track of moved or deleted
\* split" and "Account grabbed split prematurely" when the first does not hold.)
OwnedOnce ==
    /\ \A t \in Trans : IsInjective(tx[t].splits)
    /\ \A t \in Trans, s \in Splits :
         s \in Listed(t) <=> sp[s].live /\ sp[s].parent = t
    /\ \A s \in Splits : sp[s].live => sp[s].parent # None

MembershipAgrees ==
    /\ \A a \in Accounts, s \in Splits :
         s \in ac[a].splits <=> sp[s].live /\ sp[s].orig_acc = a
    /\ OwnedOnce

\* A transaction that nobody edits is in order, whatever the edit did: its
\* values sum to zero, every split has an account and the same amount as
\* value, and nothing is pending, but a change of a split that the backend has
\* refused.
ClosedIsScrubbed ==
    \A t \in Trans : ~Open(t) =>
        /\ Sum(Listed(t), ValueIn(sp)) = 0
        /\ \A s \in Listed(t) :
             /\ sp[s].acc # None /\ sp[s].acc = sp[s].orig_acc
             /\ sp[s].amount = sp[s].value
             /\ sp[s].dirty => sp[s].refused
             /\ ~sp[s].destroying

\* An account none of whose splits is being edited, or was refused by the
\* backend, has for balance the sum of their amounts; Account.h says of
\* xaccAccountGetBalance that it is "the current balance of the account".
BalanceIsSum ==
    \A a \in Accounts :
        (\A s \in ac[a].splits : ~Editable(s) /\ ~sp[s].refused) =>
            ac[a].balance = Sum(ac[a].splits, AmountIn(sp))

\* The comment on which the rollback relies: "The splits at the front of
\* trans->splits are exactly the same splits as in the original"; and those
\* after them are new.
FrontIsOriginal ==
    \A t \in Trans :
        /\ Len(tx[t].orig) <= Len(tx[t].splits)
        /\ \A i \in DOMAIN tx[t].splits :
             IF i <= Len(tx[t].orig)
             THEN tx[t].splits[i] = tx[t].orig[i].guid
             ELSE Open(t) => sp[tx[t].splits[i]].orig_parent = None

\* t is as it was when the edit began, original o, and so are its accounts.
IsBackTo(t, o) ==
    /\ tx[t].splits = [i \in DOMAIN o |-> o[i].guid]
    /\ \A i \in DOMAIN o :
         LET s == o[i].guid IN
         /\ sp[s].live /\ sp[s].parent = t
         /\ <<sp[s].acc, sp[s].value, sp[s].amount>>
              = <<o[i].acc, o[i].value, o[i].amount>>
         /\ ~sp[s].dirty /\ ~sp[s].destroying
         /\ \A a \in Accounts : s \in ac[a].splits <=> a = o[i].acc

\* Transaction.h says of xaccTransRollbackEdit that it "sets the transaction
\* back to where it was before the editing started.  This includes restoring
\* any deleted splits, removing any added splits ...".  So does a commit that
\* the backend refuses.
RollbackRestores ==
    [][\A t \in Trans :
        \A o \in {tx[t].orig} :
            RollbackEdit(t) \/ (\E b \in Splits \cup {None} : CommitFails(t, b))
                => IsBackTo(t, o)']_vars
=============================================================================
