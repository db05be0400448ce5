------------------------ MODULE TransactionEditProofs ------------------------
(***************************************************************************)
(* Edits of transactions, for any transactions, splits, accounts, values   *)
(* and depth of nesting.                                                   *)
(*                                                                         *)
(* Inv is inductive.  Its parts, each about what the next one needs:       *)
(* OwnInv, what the fields of a split say of one another and of the lists  *)
(* it is in; ScrubInv, that a transaction nobody edits is in order, and so *)
(* is the original of one that is edited; FrontInv, that the list of an    *)
(* open transaction starts with its original, of which the splits still    *)
(* hold the old accounts; BalInv, that an account with no dirty split has  *)
(* the balance of its splits.  FrontInv fails when splits are cleared      *)
(* within an edit, BalInv when an edit is rolled back, and both do harm    *)
(* together: the theorems say which of the two they exclude.               *)
(*                                                                         *)
(* A step changes one transaction, and splits that are its own or new      *)
(* (Confined): of every other transaction OwnStep, FrontStep and ScrubStep *)
(* show once that it keeps its part of the invariant.  A commit and a      *)
(* rollback start from the same states, those that the scrub may have left *)
(* (Pends).  Sums over splits are unfolded one split at a time (TakeOut),  *)
(* by induction in the form of a least counterexample.                     *)
(***************************************************************************)
EXTENDS TransactionEdit, FiniteSetTheorems, SequenceTheorems, WellFoundedInduction, TLAPS

\* What a split's fields say of one another, and of the split.  One that is not
\* live is unused, or the backend refused to delete it.
SplitSound(x) ==
    /\ x.live => x.parent \in Trans /\ x.orig_parent \in {None, x.parent}
    /\ ~x.live => x = NoSplit \/ x.refused
    /\ x.destroying \/ x.acc # x.orig_acc => x.dirty
    /\ x.live /\ (x.dirty => x.refused) => x.orig_parent = x.parent

OwnInv ==
    /\ \A s \in Splits : SplitSound(sp[s])
    /\ MembershipAgrees
    /\ \A t \in Trans : ~Open(t) =>
         tx[t].orig = <<>> /\ \A s \in Listed(t) : sp[s].dirty => sp[s].refused

\* The splits at the front of the list are those of the original, with the
\* accounts of the original as their old ones; a clean one has its values.  Those
\* after them are new.
FrontOf(t, book, list) ==
    /\ Len(tx[t].orig) <= Len(list)
    /\ \A i \in DOMAIN list :
         IF i <= Len(tx[t].orig)
         THEN /\ list[i] = tx[t].orig[i].guid
              /\ book[list[i]].orig_parent = t
              /\ book[list[i]].orig_acc = tx[t].orig[i].acc
              /\ ~book[list[i]].dirty =>
                   /\ book[list[i]].value = tx[t].orig[i].value
                   /\ book[list[i]].amount = tx[t].orig[i].amount
         ELSE /\ book[list[i]].orig_parent = None /\ book[list[i]].orig_acc = None
              /\ book[list[i]].dirty

FrontInv == \A t \in Trans : Open(t) => FrontOf(t, sp, tx[t].splits)

\* The balance of an account none of whose splits is dirty.
BalInv ==
    \A a \in Accounts :
        (\A s \in ac[a].splits : ~sp[s].dirty) =>
            ac[a].balance = Sum(ac[a].splits, AmountIn(sp))

\* The original was in order.
OrigSet(t) == {tx[t].orig[i].guid : i \in DOMAIN tx[t].orig}
OrigOf(t, s) == tx[t].orig[CHOOSE i \in DOMAIN tx[t].orig : tx[t].orig[i].guid = s]
OrigScrubbed(t) ==
    /\ Sum(OrigSet(t), [s \in Splits |-> OrigOf(t, s).value]) = 0
    /\ \A i \in DOMAIN tx[t].orig :
         tx[t].orig[i].acc # None /\ tx[t].orig[i].amount = tx[t].orig[i].value

ScrubInv ==
    /\ ClosedIsScrubbed
    /\ ~Clears => \A t \in Trans : Open(t) => OrigScrubbed(t)

-----------------------------------------------------------------------------
(* A step changes one transaction, and splits of its own or new ones.      *)

Confined(t, U) ==
    /\ \A u \in Trans \ {t} : tx'[u] = tx[u]
    /\ U \in SUBSET Splits
    /\ \A s \in U : s \in Listed(t) \/ ~sp[s].live
    /\ \A s \in Splits \ U : sp'[s] = sp[s]

LEMMA Elsewhere ==
    ASSUME TypeOK, OwnInv, NEW t \in Trans, NEW U, Confined(t, U), NEW u \in Trans, u # t
    PROVE  /\ tx'[u] = tx[u] /\ Listed(u)' = Listed(u) /\ (Open(u)' <=> Open(u))
           /\ Listed(u) \subseteq Splits
           /\ \A s \in Listed(u) : sp[s].live /\ sp'[s] = sp[s]
<1>1. tx'[u] = tx[u]
  BY DEF Confined
<1>2. Listed(u) \subseteq Splits
  BY DEF TypeOK, Transaction, Listed, ToSet
<1>3. \A s \in Listed(u) : sp[s].live /\ sp[s].parent = u
  BY <1>2 DEF OwnInv, MembershipAgrees, OwnedOnce
<1>4. \A s \in Listed(u) : s \notin U
  BY <1>2, <1>3 DEF OwnInv, MembershipAgrees, OwnedOnce, Confined
<1> QED BY <1>1, <1>2, <1>3, <1>4 DEF Confined, Listed, Open

\* OwnInv after such a step.
LEMMA OwnStep ==
    ASSUME TypeOK, OwnInv, NEW t \in Trans, NEW U, Confined(t, U),
           \A s \in U : SplitSound(sp'[s]) /\ (sp'[s].live => sp'[s].parent = t),
           IsInjective(tx'[t].splits),
           \A s \in Splits : s \in ToSet(tx'[t].splits) <=> sp'[s].live /\ sp'[s].parent = t,
           \A a \in Accounts, s \in Splits :
             s \in ac'[a].splits <=> sp'[s].live /\ sp'[s].orig_acc = a,
           ~Open(t)' => /\ tx'[t].orig = <<>>
                        /\ \A s \in ToSet(tx'[t].splits) : sp'[s].dirty => sp'[s].refused
    PROVE  OwnInv'
<1>1. \A s \in Splits : SplitSound(sp'[s])
  BY DEF OwnInv, Confined
<1>2. ASSUME NEW u \in Trans, NEW s \in Splits
      PROVE  s \in Listed(u)' <=> sp'[s].live /\ sp'[s].parent = u
  <2>1. CASE u = t
    BY <2>1 DEF Listed
  <2>2. CASE u # t
    <3>1. Listed(u)' = Listed(u) /\ \A r \in Listed(u) : sp'[r] = sp[r]
      BY <2>2, Elsewhere
    <3>2. s \in Listed(u) <=> sp[s].live /\ sp[s].parent = u
      BY DEF OwnInv, MembershipAgrees, OwnedOnce
    <3>3. CASE s \in U
      <4>1. s \notin Listed(u)
        BY <2>2, <3>2, <3>3 DEF Confined, OwnInv, MembershipAgrees, OwnedOnce
      <4> QED BY <2>2, <3>1, <3>3, <4>1
    <3>4. CASE s \notin U
      BY <3>1, <3>2, <3>4 DEF Confined
    <3> QED BY <3>3, <3>4
  <2> QED BY <2>1, <2>2
<1>3. \A u \in Trans : IsInjective(tx'[u].splits)
  BY DEF OwnInv, MembershipAgrees, OwnedOnce, Confined
<1>4. \A s \in Splits : sp'[s].live => sp'[s].parent # None
  BY <1>1, EditAssumption DEF SplitSound
<1>5. MembershipAgrees'
  BY <1>2, <1>3, <1>4 DEF MembershipAgrees, OwnedOnce
<1>6. ASSUME NEW u \in Trans, ~Open(u)'
      PROVE  tx'[u].orig = <<>> /\ \A s \in Listed(u)' : sp'[s].dirty => sp'[s].refused
  <2>1. CASE u = t
    BY <1>6, <2>1 DEF Listed
  <2>2. CASE u # t
    BY <1>6, <2>2, Elsewhere DEF OwnInv
  <2> QED BY <2>1, <2>2
<1> QED BY <1>1, <1>5, <1>6 DEF OwnInv

\* ... FrontInv,
LEMMA FrontStep ==
    ASSUME TypeOK, OwnInv, FrontInv, NEW t \in Trans, NEW U, Confined(t, U),
           Open(t)' => FrontOf(t, sp, tx[t].splits)'
    PROVE  FrontInv'
<1> SUFFICES ASSUME NEW u \in Trans, u # t, Open(u)'
             PROVE  FrontOf(u, sp, tx[u].splits)'
  BY DEF FrontInv
<1>1. tx'[u] = tx[u] /\ FrontOf(u, sp, tx[u].splits)
  BY Elsewhere DEF FrontInv
<1>2. \A i \in DOMAIN tx[u].splits : sp'[tx[u].splits[i]] = sp[tx[u].splits[i]]
  BY Elsewhere DEF Listed, ToSet
<1> QED BY <1>1, <1>2 DEF FrontOf

-----------------------------------------------------------------------------
(* Induction, in the form of a least member.                               *)

Less == {pair \in Nat \X Nat : pair[1] < pair[2]}

LEMMA Least ==
    ASSUME NEW T \in SUBSET Nat, T # {}
    PROVE  \E m \in T : \A k \in T : m <= k
<1>1. IsWellFoundedOn(Less, Nat)
  BY NatLessThanWellFounded DEF OpToRel, Less
<1>2. PICK m \in T : \A k \in T : ~(<<k, m>> \in Less)
  BY <1>1, WFMin
<1>3. \A k \in T : k \in Nat /\ m \in Nat /\ ~(k < m)
  BY <1>2 DEF Less
<1> QED BY <1>2, <1>3

LEMMA Smallest ==
    ASSUME NEW X, X # {}, \A x \in X : IsFiniteSet(x)
    PROVE  \E x \in X : \A y \in X : Cardinality(x) <= Cardinality(y)
<1>1. {Cardinality(x) : x \in X} \in SUBSET Nat
  BY FS_CardinalityType
<1>2. PICK m \in {Cardinality(x) : x \in X} : \A k \in {Cardinality(x) : x \in X} : m <= k
  BY <1>1, Least
<1> QED BY <1>2

-----------------------------------------------------------------------------
(* Sums.                                                                   *)

Some(T) == CHOOSE x \in T : TRUE
Step(T, i, f) == IF T = {} THEN 0 ELSE f[Some(T)] + i[T \ {Some(T)}]
IsSum(i, S, f) == i = [T \in SUBSET S |-> Step(T, i, f)]

LEMMA Fold == \A S, f : Sum(S, f) = (CHOOSE i : IsSum(i, S, f))[S]
BY DEF Sum, MapThenSumSet, MapThenFoldSet, IsSum, Step, Some

\* A sum depends on what is summed alone.
LEMMA SumSame ==
    ASSUME NEW S, NEW f, NEW g, \A s \in S : f[s] = g[s]
    PROVE  Sum(S, f) = Sum(S, g)
<1>1. \A i : [T \in SUBSET S |-> Step(T, i, f)] = [T \in SUBSET S |-> Step(T, i, g)]
  <2> SUFFICES ASSUME NEW i, NEW T \in SUBSET S
               PROVE  Step(T, i, f) = Step(T, i, g)
    OBVIOUS
  <2>1. T # {} => Some(T) \in S
    BY DEF Some
  <2> QED BY <2>1 DEF Step
<1>2. (CHOOSE i : IsSum(i, S, f)) = (CHOOSE i : IsSum(i, S, g))
  <2> DEFINE P(i) == IsSum(i, S, f)
             Q(i) == IsSum(i, S, g)
  <2>1. \A i : P(i) <=> Q(i)
    BY <1>1 DEF IsSum
  <2> HIDE DEF P, Q
  <2>2. (CHOOSE i : P(i)) = (CHOOSE i : Q(i))
    BY <2>1
  <2> QED BY <2>2 DEF P, Q
<1> QED BY <1>2, Fold

\* A set of splits without one of them.
LEMMA Smaller ==
    ASSUME NEW T, IsFiniteSet(T), NEW x \in T
    PROVE  /\ IsFiniteSet(T \ {x})
           /\ Cardinality(T \ {x}) = Cardinality(T) - 1
           /\ Cardinality(T) \in Nat \ {0} /\ Cardinality(T \ {x}) \in Nat
<1>1. IsFiniteSet(T \ {x}) /\ Cardinality(T \ {x}) = Cardinality(T) - 1
  BY FS_RemoveElement
<1>2. Cardinality(T) \in Nat /\ Cardinality(T) # 0 /\ Cardinality(T \ {x}) \in Nat
  BY <1>1, FS_CardinalityType, FS_EmptySet
<1> QED BY <1>1, <1>2

UpTo(k, S) == {T \in SUBSET S : Cardinality(T) <= k}
SumUpTo(g, k, S, f) ==
    /\ g \in [UpTo(k, S) -> Int]
    /\ \A T \in UpTo(k, S) : g[T] = Step(T, g, f)

LEMMA SumExists ==
    ASSUME NEW S \in SUBSET Splits, IsFiniteSet(S), NEW f \in [Splits -> Int]
    PROVE  \E i \in [SUBSET S -> Int] : IsSum(i, S, f)
<1>1. \A T \in SUBSET S : /\ IsFiniteSet(T) /\ Cardinality(T) \in Nat
                          /\ (T = {} <=> Cardinality(T) = 0)
                          /\ Cardinality(T) <= Cardinality(S)
  BY FS_Subset, FS_CardinalityType, FS_EmptySet
<1>2. \A T \in SUBSET S : T # {} =>
        /\ Some(T) \in T /\ f[Some(T)] \in Int
        /\ T \ {Some(T)} \in SUBSET S
        /\ Cardinality(T \ {Some(T)}) = Cardinality(T) - 1
  <2> SUFFICES ASSUME NEW T \in SUBSET S, T # {}
               PROVE  /\ Some(T) \in T /\ f[Some(T)] \in Int
                      /\ T \ {Some(T)} \in SUBSET S
                      /\ Cardinality(T \ {Some(T)}) = Cardinality(T) - 1
    OBVIOUS
  <2>1. Some(T) \in T
    BY DEF Some
  <2> QED BY <1>1, <2>1, Smaller
<1> DEFINE Fails == {k \in Nat : ~ \E g : SumUpTo(g, k, S, f)}
<1>3. Fails = {}
  <2> SUFFICES ASSUME Fails # {}
               PROVE  FALSE
    OBVIOUS
  <2>1. PICK m \in Fails : \A k \in Fails : m <= k
    BY Least
  <2>2. m \in Nat /\ \A k \in Nat : k < m => \E g : SumUpTo(g, k, S, f)
    BY <2>1
  <2>3. CASE m = 0
    <3> DEFINE g == [T \in UpTo(0, S) |-> 0]
    <3>1. \A T \in UpTo(0, S) : T = {}
      BY <1>1 DEF UpTo
    <3>2. SumUpTo(g, 0, S, f)
      BY <3>1 DEF SumUpTo, Step
    <3> QED BY <2>1, <2>3, <3>2
  <2>4. CASE m # 0
    <3>1. PICK h : SumUpTo(h, m - 1, S, f)
      BY <2>2, <2>4
    <3> DEFINE g == [T \in UpTo(m, S) |-> Step(T, h, f)]
    <3>2. \A T \in UpTo(m, S) : T # {} => T \ {Some(T)} \in UpTo(m - 1, S)
      BY <1>1, <1>2, <2>2 DEF UpTo
    <3>3. \A T \in UpTo(m, S) : Step(T, h, f) \in Int
      BY <1>2, <3>1, <3>2 DEF Step, SumUpTo, UpTo
    <3>4. \A T \in UpTo(m - 1, S) : T \in UpTo(m, S) /\ g[T] = h[T]
      BY <1>1, <2>2, <3>1 DEF UpTo, SumUpTo
    <3>5. \A T \in UpTo(m, S) : Step(T, h, f) = Step(T, g, f)
      BY <3>2, <3>4 DEF Step
    <3>6. SumUpTo(g, m, S, f)
      BY <3>3, <3>5 DEF SumUpTo
    <3> QED BY <2>1, <3>6
  <2> QED BY <2>3, <2>4
<1>4. PICK g : SumUpTo(g, Cardinality(S), S, f)
  BY <1>1, <1>3
<1>5. UpTo(Cardinality(S), S) = SUBSET S
  BY <1>1 DEF UpTo
<1> QED BY <1>4, <1>5 DEF SumUpTo, IsSum

LEMMA SumUnique ==
    ASSUME NEW S, NEW R, NEW f, NEW i, NEW j, IsSum(i, S, f), IsSum(j, R, f),
           NEW T \in SUBSET S, T \in SUBSET R, IsFiniteSet(T)
    PROVE  i[T] = j[T]
<1> DEFINE X == {U \in SUBSET T : i[U] # j[U]}
<1>1. \A U \in SUBSET T : /\ i[U] = Step(U, i, f) /\ j[U] = Step(U, j, f)
                          /\ IsFiniteSet(U)
  BY FS_Subset DEF IsSum
<1>2. X = {}
  <2> SUFFICES ASSUME X # {}
               PROVE  FALSE
    OBVIOUS
  <2>1. PICK U \in X : \A V \in X : Cardinality(U) <= Cardinality(V)
    BY <1>1, Smallest
  <2>2. U # {}
    BY <1>1, <2>1 DEF Step
  <2>3. Some(U) \in U
    BY <2>2 DEF Some
  <2>4. Cardinality(U \ {Some(U)}) < Cardinality(U)
    <3>1. IsFiniteSet(U) /\ Some(U) \in U
      BY <1>1, <2>1, <2>3
    <3>2. /\ Cardinality(U \ {Some(U)}) = Cardinality(U) - 1
          /\ Cardinality(U) \in Nat \ {0}
      BY <3>1, Smaller
    <3> QED BY <3>2
  <2>5. U \ {Some(U)} \notin X
    BY <1>1, <2>1, <2>4, FS_CardinalityType
  <2>6. i[U \ {Some(U)}] = j[U \ {Some(U)}]
    BY <2>1, <2>5
  <2> QED BY <1>1, <2>1, <2>6 DEF Step
<1> QED BY <1>2

\* A sum, split by split.
LEMMA SumSteps ==
    ASSUME NEW S \in SUBSET Splits, IsFiniteSet(S), NEW f \in [Splits -> Int]
    PROVE  /\ Sum(S, f) \in Int
           /\ S = {} => Sum(S, f) = 0
           /\ S # {} => Sum(S, f) = f[Some(S)] + Sum(S \ {Some(S)}, f)
<1> DEFINE i == CHOOSE i : IsSum(i, S, f)
           R == S \ {Some(S)}
           j == CHOOSE j : IsSum(j, R, f)
<1>1. IsSum(i, S, f) /\ Sum(S, f) = i[S]
  BY SumExists, Fold
<1>2. IsFiniteSet(R) /\ R \in SUBSET Splits /\ R \in SUBSET S
  BY FS_Subset
<1>3. IsSum(j, R, f) /\ Sum(R, f) = j[R]
  BY <1>2, SumExists, Fold
<1>4. i[S] \in Int
  <2>1. PICK k \in [SUBSET S -> Int] : IsSum(k, S, f)
    BY SumExists
  <2> HIDE DEF i
  <2>2. i[S] = k[S]
    BY <1>1, <2>1, SumUnique
  <2> QED BY <2>1, <2>2
<1> HIDE DEF i, j, R
<1>5. i[S] = Step(S, i, f)
  BY <1>1 DEF IsSum
<1>6. i[R] = j[R]
  BY <1>1, <1>2, <1>3, SumUnique
<1> QED BY <1>1, <1>3, <1>4, <1>5, <1>6 DEF Step, R

LEMMA SumType ==
    ASSUME NEW S \in SUBSET Splits, NEW f \in [Splits -> Int]
    PROVE  IsFiniteSet(S) /\ Sum(S, f) \in Int
<1>1. IsFiniteSet(S)
  BY EditAssumption, FS_Subset
<1> QED BY <1>1, SumSteps

\* Any split may be taken out first.
LEMMA TakeOut ==
    ASSUME NEW S \in SUBSET Splits, NEW f \in [Splits -> Int], NEW b \in S
    PROVE  Sum(S, f) = f[b] + Sum(S \ {b}, f)
<1> DEFINE Right(T, x) == Sum(T, f) = f[x] + Sum(T \ {x}, f)
           X == {T \in SUBSET Splits : \E x \in T : ~Right(T, x)}
<1>1. X = {}
  <2> SUFFICES ASSUME X # {}
               PROVE  FALSE
    OBVIOUS
  <2>1. PICK T \in X : \A U \in X : Cardinality(T) <= Cardinality(U)
    BY SumType, Smallest
  <2>2. T \in SUBSET Splits /\ IsFiniteSet(T)
    BY <2>1, SumType
  <2>3. PICK x \in T : ~Right(T, x)
    BY <2>1
  <2> DEFINE y == Some(T)
             T1 == T \ {x}
             T2 == T \ {y}
             T3 == T2 \ {x}
  <2>4. y \in T
    BY <2>3 DEF Some
  <2>5. Right(T, y)
    BY <2>2, <2>3, SumSteps
  <2> HIDE DEF y, Right
  <2>6. x # y
    BY <2>3, <2>5
  <2>7. \A z \in T : T \ {z} \in SUBSET Splits /\ T \ {z} \notin X
    <3> SUFFICES ASSUME NEW z \in T
                 PROVE  T \ {z} \in SUBSET Splits /\ T \ {z} \notin X
      OBVIOUS
    <3>1. /\ Cardinality(T \ {z}) = Cardinality(T) - 1
          /\ Cardinality(T) \in Nat \ {0}
      BY <2>2, Smaller
    <3>2. ~(Cardinality(T) <= Cardinality(T \ {z}))
      BY <3>1
    <3> QED BY <2>1, <2>2, <3>2
  <2>8. Right(T1, y) /\ Right(T2, x)
    BY <2>3, <2>4, <2>6, <2>7
  <2>9. T1 \ {y} = T3
    OBVIOUS
  <2>10. /\ Sum(T1, f) = f[y] + Sum(T3, f)
         /\ Sum(T2, f) = f[x] + Sum(T3, f)
         /\ Sum(T, f) = f[y] + Sum(T2, f)
    BY <2>5, <2>8, <2>9 DEF Right
  <2>11. /\ T3 \in SUBSET Splits /\ f[x] \in Int /\ f[y] \in Int
    BY <2>2, <2>3, <2>4
  <2>12. Sum(T3, f) \in Int
    BY <2>11, SumType
  <2> HIDE DEF T1, T2, T3
  <2>13. Sum(T, f) = f[x] + Sum(T1, f)
    BY <2>10, <2>11, <2>12
  <2> QED BY <2>3, <2>13 DEF Right, T1
<1> QED BY <1>1

\* What one split more, or another value of it, makes.
LEMMA SumOneMore ==
    ASSUME NEW S \in SUBSET Splits, NEW f \in [Splits -> Int], NEW g \in [Splits -> Int],
           NEW b \in Splits, \A s \in S \ {b} : f[s] = g[s]
    PROVE  Sum(S \cup {b}, g) = Sum(S, f) + g[b] - (IF b \in S THEN f[b] ELSE 0)
<1> DEFINE R == S \ {b}
           All == S \cup {b}
<1>1. R \in SUBSET Splits /\ All \in SUBSET Splits /\ b \in All /\ All \ {b} = R
  OBVIOUS
<1>2. Sum(R, f) \in Int /\ Sum(S, f) \in Int /\ g[b] \in Int /\ f[b] \in Int
  BY <1>1, SumType
<1>3. Sum(All, g) = g[b] + Sum(R, g)
  BY <1>1, TakeOut
<1>4. Sum(R, g) = Sum(R, f)
  BY SumSame
<1>5. CASE b \in S
  <2>1. Sum(S, f) = f[b] + Sum(R, f)
    BY <1>5, TakeOut
  <2> HIDE DEF R, All
  <2>2. Sum(All, g) = Sum(S, f) + g[b] - f[b]
    BY <1>2, <1>3, <1>4, <2>1
  <2> QED BY <1>5, <2>2 DEF All
<1>6. CASE b \notin S
  <2>1. R = S
    BY <1>6
  <2> HIDE DEF R, All
  <2>2. Sum(All, g) = Sum(S, f) + g[b] - 0
    BY <1>2, <1>3, <1>4, <2>1
  <2> QED BY <1>6, <2>2 DEF All
<1> QED BY <1>5, <1>6

-----------------------------------------------------------------------------
(* Lists of splits.                                                        *)

LEMMA PlaceOf ==
    ASSUME NEW list \in Seq(Splits), IsInjective(list)
    PROVE  /\ \A i \in DOMAIN list : Place(list[i], list) = i
           /\ \A s \in ToSet(list) :
                Place(s, list) \in DOMAIN list /\ list[Place(s, list)] = s
<1>1. ASSUME NEW s \in ToSet(list)
      PROVE  Place(s, list) \in DOMAIN list /\ list[Place(s, list)] = s
  <2>1. \E i \in DOMAIN list : list[i] = s
    BY DEF ToSet
  <2> QED BY <2>1 DEF Place
<1>2. ASSUME NEW i \in DOMAIN list
      PROVE  Place(list[i], list) = i
  <2>1. list[i] \in ToSet(list)
    BY DEF ToSet
  <2>2. Place(list[i], list) \in DOMAIN list /\ list[Place(list[i], list)] = list[i]
    BY <1>1, <2>1
  <2> QED BY <2>2 DEF IsInjective
<1> QED BY <1>1, <1>2

\* What is taken of a list has each of its members once.
LEMMA ThoseAre ==
    ASSUME NEW list \in Seq(Splits), NEW S, NEW order \in Those(list, S)
    PROVE  /\ order \in Seq(Splits) /\ IsInjective(order)
           /\ ToSet(order) = ToSet(list) \cap S
           /\ DOMAIN order = 1 .. Cardinality(ToSet(list) \cap S)
           /\ Cardinality(ToSet(list) \cap S) \in Nat
           /\ \A i, j \in DOMAIN order :
                i < j => Place(order[i], list) < Place(order[j], list)
<1> DEFINE T == ToSet(list) \cap S
           n == Cardinality(T)
<1>1. T \in SUBSET Splits
  BY DEF ToSet
<1>2. IsFiniteSet(T) /\ n \in Nat
  BY <1>1, EditAssumption, FS_Subset, FS_CardinalityType
<1>3. /\ order \in [1 .. n -> T]
      /\ \A i, j \in 1 .. n : i # j => order[i] # order[j]
      /\ \A i, j \in DOMAIN order : i < j => Place(order[i], list) < Place(order[j], list)
  BY DEF Those, SetToSeqs
<1> HIDE DEF n, T
<1>4. IsInjective(order) /\ order \in Injection(1 .. n, T)
  BY <1>3 DEF IsInjective, Injection
<1>5. Cardinality(1 .. n) = n
  BY <1>2, FS_Interval
<1>6. order \in Surjection(1 .. n, T)
  BY <1>2, <1>4, <1>5, FS_Injection DEF n
<1>7. ToSet(order) = T
  BY <1>3, <1>6 DEF Surjection, ToSet
<1>8. order \in Seq(Splits)
  BY <1>1, <1>2, <1>3
<1> QED BY <1>2, <1>3, <1>4, <1>7, <1>8 DEF n, T

\* An increasing function on 1 .. n, one to one, is the identity.
LEMMA Increasing ==
    ASSUME NEW n \in Nat, NEW p \in [1 .. n -> 1 .. n],
           \A i, j \in 1 .. n : i < j => p[i] < p[j]
    PROVE  \A i \in 1 .. n : p[i] = i
<1> DEFINE Low  == {i \in 1 .. n : p[i] < i}
           High == {i \in 1 .. n : p[i] > i}
<1>1. Low = {}
  <2> SUFFICES ASSUME Low # {}
               PROVE  FALSE
    OBVIOUS
  <2>1. Low \in SUBSET Nat
    OBVIOUS
  <2>2. PICK i \in Low : \A k \in Low : i <= k
    BY <2>1, Least
  <2>3. p[i] \in 1 .. n /\ p[i] < i
    BY <2>2
  <2>4. p[p[i]] < p[i] /\ p[i] \in Low
    BY <2>2, <2>3
  <2> QED BY <2>2, <2>3, <2>4
<1>2. High = {}
  <2> SUFFICES ASSUME High # {}
               PROVE  FALSE
    OBVIOUS
  <2> DEFINE Gaps == {n - i : i \in High}
  <2>1. Gaps \in SUBSET Nat /\ Gaps # {}
    OBVIOUS
  <2>2. PICK g \in Gaps : \A k \in Gaps : g <= k
    BY <2>1, Least
  <2>3. PICK i \in High : g = n - i
    BY <2>2
  <2>4. p[i] \in 1 .. n /\ p[i] > i
    BY <2>3
  <2>5. p[p[i]] > p[i] /\ p[i] \in High
    BY <2>3, <2>4
  <2>6. n - p[i] \in Gaps /\ n - p[i] < g
    BY <2>3, <2>4, <2>5
  <2> HIDE DEF Gaps, High
  <2>7. g \in Nat /\ n - p[i] \in Nat
    BY <2>1, <2>2, <2>6
  <2>8. g <= n - p[i]
    BY <2>2, <2>6
  <2> QED BY <2>6, <2>7, <2>8
<1> QED BY <1>1, <1>2

\* The front of a list, taken of it.
IsFrontOf(order, list, n) == DOMAIN order = 1 .. n /\ \A i \in 1 .. n : order[i] = list[i]
OfFront(S, list, n) == \A i \in DOMAIN list : list[i] \in S <=> i <= n

LEMMA FrontOnly ==
    ASSUME NEW list \in Seq(Splits), IsInjective(list), NEW n \in 0 .. Len(list),
           NEW S, OfFront(S, list, n), NEW order \in Those(list, S)
    PROVE  IsFrontOf(order, list, n)
<1> USE DEF IsFrontOf, OfFront
<1> DEFINE T == ToSet(list) \cap S
           f == [i \in 1 .. n |-> list[i]]
           p == [i \in 1 .. n |-> Place(order[i], list)]
<1>1. n \in Nat /\ 1 .. n \subseteq DOMAIN list /\ DOMAIN list = 1 .. Len(list)
  OBVIOUS
<1>2. f \in Bijection(1 .. n, T)
  <2>1. f \in [1 .. n -> T]
    BY <1>1 DEF ToSet
  <2>2. \A t \in T : \E i \in 1 .. n : f[i] = t
    BY <1>1 DEF ToSet
  <2> QED BY <1>1, <2>1, <2>2 DEF Bijection, Injection, Surjection, IsInjective
<1>3. Cardinality(T) = n
  <2>1. IsFiniteSet(1 .. n) /\ Cardinality(1 .. n) = n
    BY <1>1, FS_Interval
  <2> HIDE DEF T, f
  <2>2. ExistsBijection(1 .. n, T)
    BY <1>2 DEF ExistsBijection
  <2> QED BY <2>1, <2>2, FS_Bijection
<1>4. /\ DOMAIN order = 1 .. n /\ ToSet(order) = T
      /\ \A i, j \in DOMAIN order : i < j => Place(order[i], list) < Place(order[j], list)
  BY <1>3, ThoseAre
<1>5. \A i \in 1 .. n : order[i] \in T
  BY <1>4 DEF ToSet
<1>6. \A i \in 1 .. n : /\ Place(order[i], list) \in 1 .. n
                        /\ list[Place(order[i], list)] = order[i]
  <2> SUFFICES ASSUME NEW i \in 1 .. n
               PROVE  /\ Place(order[i], list) \in 1 .. n
                      /\ list[Place(order[i], list)] = order[i]
    OBVIOUS
  <2>1. order[i] \in ToSet(list) /\ order[i] \in S
    BY <1>5
  <2>2. Place(order[i], list) \in DOMAIN list /\ list[Place(order[i], list)] = order[i]
    BY <2>1, PlaceOf
  <2> QED BY <1>1, <2>1, <2>2
<1>7. p \in [1 .. n -> 1 .. n] /\ \A i, j \in 1 .. n : i < j => p[i] < p[j]
  BY <1>4, <1>6
<1> HIDE DEF p
<1>8. \A i \in 1 .. n : p[i] = i
  BY <1>1, <1>7, Increasing
<1> QED BY <1>4, <1>6, <1>8 DEF p

\* What trans_cleanup_commit makes of the list.
LEMMA SortedList ==
    ASSUME NEW list \in Seq(Splits), NEW D, NEW C, D \cap C = {},
           NEW debits \in Those(list, D), NEW credits \in Those(list, C)
    PROVE  /\ debits \o credits \in Seq(Splits) /\ IsInjective(debits \o credits)
           /\ ToSet(debits \o credits) = ToSet(list) \cap (D \cup C)
<1> DEFINE n == Len(debits)
           m == Len(credits)
           all == debits \o credits
<1>1. /\ debits \in Seq(Splits) /\ IsInjective(debits) /\ ToSet(debits) = ToSet(list) \cap D
      /\ credits \in Seq(Splits) /\ IsInjective(credits) /\ ToSet(credits) = ToSet(list) \cap C
  BY ThoseAre
<1>2. /\ n \in Nat /\ m \in Nat /\ DOMAIN debits = 1 .. n /\ DOMAIN credits = 1 .. m
      /\ all \in Seq(Splits) /\ DOMAIN all = 1 .. n + m
  BY <1>1, ConcatProperties
<1>3. \A i \in 1 .. n + m : all[i] = IF i <= n THEN debits[i] ELSE credits[i - n]
  BY <1>1, <1>2, ConcatProperties
<1> HIDE DEF all, n, m
<1>4. \A i \in 1 .. n + m :
        \/ i \in 1 .. n /\ all[i] = debits[i]
        \/ i > n /\ i - n \in 1 .. m /\ all[i] = credits[i - n]
  BY <1>2, <1>3
<1>5. /\ \A i \in 1 .. n : i \in 1 .. n + m /\ all[i] = debits[i]
      /\ \A i \in 1 .. m : i + n \in 1 .. n + m /\ all[i + n] = credits[i]
  <2>1. \A i \in 1 .. m : i + n \in 1 .. n + m /\ ~(i + n <= n) /\ (i + n) - n = i
    BY <1>2
  <2>2. \A i \in 1 .. n : i \in 1 .. n + m /\ i <= n
    BY <1>2
  <2> QED BY <1>3, <2>1, <2>2
<1>6. /\ ToSet(debits) = {debits[i] : i \in 1 .. n}
      /\ ToSet(credits) = {credits[i] : i \in 1 .. m}
      /\ ToSet(all) = {all[i] : i \in 1 .. n + m}
  BY <1>2 DEF ToSet
<1>7. ToSet(all) \subseteq ToSet(debits) \cup ToSet(credits)
  BY <1>4, <1>6
<1>8. ToSet(debits) \cup ToSet(credits) \subseteq ToSet(all)
  BY <1>5, <1>6
<1>9. IsInjective(all)
  <2> SUFFICES ASSUME NEW i \in 1 .. n + m, NEW j \in 1 .. n + m, all[i] = all[j]
               PROVE  i = j
    BY <1>2 DEF IsInjective
  <2>1. CASE i \in 1 .. n /\ j \in 1 .. n
    BY <1>1, <1>2, <1>5, <2>1 DEF IsInjective
  <2>2. CASE i > n /\ i - n \in 1 .. m /\ all[i] = credits[i - n] /\ j \in 1 .. n
    BY <1>1, <1>5, <1>6, <2>2
  <2>3. CASE j > n /\ j - n \in 1 .. m /\ all[j] = credits[j - n] /\ i \in 1 .. n
    BY <1>1, <1>5, <1>6, <2>3
  <2>4. CASE /\ i > n /\ i - n \in 1 .. m /\ all[i] = credits[i - n]
             /\ j > n /\ j - n \in 1 .. m /\ all[j] = credits[j - n]
    <3>1. i - n = j - n
      BY <1>1, <1>2, <2>4 DEF IsInjective
    <3> QED BY <1>2, <3>1
  <2> QED BY <1>4, <2>1, <2>2, <2>3, <2>4
<1> QED BY <1>1, <1>2, <1>7, <1>8, <1>9 DEF all

LEMMA OneMore ==
    ASSUME NEW list \in Seq(Splits), NEW b \in Splits
    PROVE  LET all == Append(list, b) IN
           /\ all \in Seq(Splits) /\ ToSet(all) = ToSet(list) \cup {b}
           /\ Len(all) = Len(list) + 1
           /\ DOMAIN all = 1 .. Len(list) + 1 /\ DOMAIN list = 1 .. Len(list)
           /\ \A i \in DOMAIN list : all[i] = list[i]
           /\ all[Len(list) + 1] = b
           /\ IsInjective(list) /\ b \notin ToSet(list) => IsInjective(all)
<1> DEFINE all == Append(list, b)
           n == Len(list)
<1>1. /\ n \in Nat /\ DOMAIN list = 1 .. n /\ all \in Seq(Splits) /\ Len(all) = n + 1
      /\ DOMAIN all = 1 .. n + 1 /\ all[n + 1] = b
      /\ \A i \in 1 .. n : all[i] = list[i]
  OBVIOUS
<1> HIDE DEF all, n
<1>2. /\ ToSet(list) = {list[i] : i \in 1 .. n} /\ ToSet(all) = {all[i] : i \in 1 .. n + 1}
      /\ \A i \in 1 .. n + 1 : i \in 1 .. n \/ i = n + 1
      /\ \A i \in 1 .. n : i \in 1 .. n + 1
      /\ n + 1 \in 1 .. n + 1
  BY <1>1 DEF ToSet
<1>3. ToSet(all) = ToSet(list) \cup {b}
  BY <1>1, <1>2
<1>4. ASSUME IsInjective(list), b \notin ToSet(list)
      PROVE  IsInjective(all)
  <2> SUFFICES ASSUME NEW i \in 1 .. n + 1, NEW j \in 1 .. n + 1, all[i] = all[j]
               PROVE  i = j
    BY <1>1 DEF IsInjective
  <2>1. \A k \in 1 .. n : all[k] # b
    BY <1>1, <1>2, <1>4
  <2>2. CASE i = n + 1
    BY <1>1, <1>2, <2>1, <2>2
  <2>3. CASE j = n + 1
    BY <1>1, <1>2, <2>1, <2>3
  <2>4. CASE i \in 1 .. n /\ j \in 1 .. n
    BY <1>1, <1>4, <2>4 DEF IsInjective
  <2> QED BY <1>2, <2>2, <2>3, <2>4
<1> QED BY <1>1, <1>3, <1>4 DEF all, n

-----------------------------------------------------------------------------
(* Types.                                                                  *)

LEMMA Ids == None \notin Splits /\ None \notin Trans /\ None \notin Accounts
BY EditAssumption

LEMMA ListType ==
    ASSUME TypeOK, NEW t \in Trans
    PROVE  /\ tx[t] \in Transaction /\ tx[t].splits \in Seq(Splits)
           /\ tx[t].orig \in Seq(Dupe) /\ tx[t].editlevel \in Nat
           /\ Listed(t) \in SUBSET Splits /\ StillHas(t) \in SUBSET Splits
           /\ DOMAIN tx[t].splits = 1 .. Len(tx[t].splits)
           /\ DOMAIN tx[t].orig = 1 .. Len(tx[t].orig)
           /\ Len(tx[t].splits) \in Nat /\ Len(tx[t].orig) \in Nat
<1>1. tx[t] \in Transaction
  BY DEF TypeOK
<1>2. tx[t].splits \in Seq(Splits) /\ tx[t].orig \in Seq(Dupe) /\ tx[t].editlevel \in Nat
  BY <1>1 DEF Transaction
<1> QED BY <1>1, <1>2 DEF Listed, StillHas, ToSet

LEMMA Numbers ==
    ASSUME NEW book \in [Splits -> Split]
    PROVE  ValueIn(book) \in [Splits -> Int] /\ AmountIn(book) \in [Splits -> Int]
BY DEF ValueIn, AmountIn, Split

LEMMA RecomputedType ==
    ASSUME NEW book \in [Splits -> Split], NEW S \in SUBSET Splits
    PROVE  Recomputed(S, book) \in Account
<1>1. Sum(S, AmountIn(book)) \in Int
  BY Numbers, SumType
<1> QED BY <1>1 DEF Recomputed, Account

LEMMA NoSplitType == NoSplit \in Split
BY DEF NoSplit, Split

\* What a commit leaves of split s.
LEMMA SplitAfterIs ==
    ASSUME NEW book \in [Splits -> Split], NEW changed, NEW refused, NEW s \in Splits, NEW x,
           x = SplitAfter(s, changed, refused, book)
    PROVE  /\ x \in Split
           /\ s \notin changed => x = book[s]
           /\ s \in changed /\ book[s].destroying => ~x.live /\ (x = NoSplit \/ x.refused)
           /\ s \in changed => x.acc = x.orig_acc /\ ~x.destroying
           /\ s \in changed /\ ~book[s].destroying =>
                /\ x.live /\ x.parent = book[s].parent /\ x.acc = book[s].acc
                /\ x.orig_parent = x.parent
                /\ x.value = book[s].value /\ x.amount = book[s].amount
                /\ (x.dirty <=> s \in refused) /\ (x.refused <=> s \in refused)
<1>1. book[s] \in Split
  OBVIOUS
<1>2. CASE s \notin changed
  BY <1>1, <1>2 DEF SplitAfter
<1>3. CASE s \in changed /\ book[s].destroying /\ s \notin refused
  <2>1. x = NoSplit
    BY <1>3 DEF SplitAfter
  <2>2. ~NoSplit.live /\ NoSplit.acc = NoSplit.orig_acc /\ ~NoSplit.destroying
    BY DEF NoSplit
  <2> QED BY <1>3, <2>1, <2>2, NoSplitType
<1>4. CASE s \in changed /\ ~(book[s].destroying /\ s \notin refused)
  <2> DEFINE y == [book[s] EXCEPT !.orig_acc = book[s].acc,
                         !.orig_parent = book[s].parent,
                         !.live = ~book[s].destroying,
                         !.destroying = FALSE,
                         !.dirty = s \in refused,
                         !.refused = s \in refused]
  <2>1. x = y
    BY <1>4 DEF SplitAfter
  <2>2. /\ y.acc = book[s].acc /\ y.orig_acc = book[s].acc /\ y.destroying = FALSE
        /\ y.live = ~book[s].destroying /\ y.parent = book[s].parent
        /\ y.orig_parent = book[s].parent /\ y.value = book[s].value
        /\ y.amount = book[s].amount /\ y.dirty = (s \in refused)
        /\ y.refused = (s \in refused)
    BY <1>1 DEF Split
  <2>3. y \in Split
    <3> DEFINE z == [book[s] EXCEPT !.orig_acc = book[s].acc,
                                    !.orig_parent = book[s].parent, !.destroying = FALSE]
               live == ~book[s].destroying
               isRefused == s \in refused
    <3>1. z \in Split
      BY <1>1 DEF Split
    <3>2. live \in BOOLEAN /\ isRefused \in BOOLEAN
      BY <1>1 DEF Split
    <3>3. y = [z EXCEPT !.live = live, !.dirty = isRefused, !.refused = isRefused]
      BY <1>1 DEF Split
    <3> HIDE DEF y, z, live, isRefused
    <3> QED BY <3>1, <3>2, <3>3 DEF Split
  <2> HIDE DEF y
  <2> QED BY <1>4, <2>1, <2>2, <2>3
<1> QED BY <1>2, <1>3, <1>4

LEMMA CommitType ==
    ASSUME TypeOK, NEW list, NEW book \in [Splits -> Split], NEW changed \in SUBSET Splits,
           CommitSplits(list, changed, book)
    PROVE  sp' \in [Splits -> Split] /\ ac' \in [Accounts -> Account]
<1>0. PICK refused \in SUBSET changed :
        /\ sp' = [s \in Splits |-> SplitAfter(s, changed, refused, book)]
        /\ ac' = [a \in Accounts |-> AccountAfter(a, list, changed, refused, book)]
  BY DEF CommitSplits
<1>1. \A s \in Splits : SplitAfter(s, changed, refused, book) \in Split
  BY SplitAfterIs
<1>2. \A a \in Accounts : AccountAfter(a, list, changed, refused, book) \in Account
  <2> SUFFICES ASSUME NEW a \in Accounts
               PROVE  AccountAfter(a, list, changed, refused, book) \in Account
    OBVIOUS
  <2> DEFINE members == Members(a, changed, book)
             last == RecomputeFor(a, changed, refused, book)
             late == {s \in refused : Enters(s, a, book) /\
                        \A r \in last : Place(r, list) < Place(s, list)}
  <2>1. ac[a] \in Account /\ ac[a].splits \in SUBSET Splits
    BY DEF TypeOK, Account
  <2>2. members \in SUBSET Splits
    BY <2>1 DEF Members
  <2>3. AccountAfter(a, list, changed, refused, book)
          = IF last = {} THEN [ac[a] EXCEPT !.splits = members]
            ELSE [Recomputed(members \ late, book) EXCEPT !.splits = members]
    BY DEF AccountAfter
  <2> HIDE DEF members, last, late
  <2>4. Recomputed(members \ late, book) \in Account
    BY <2>2, RecomputedType
  <2> QED BY <2>1, <2>2, <2>3, <2>4 DEF Account
<1> QED BY <1>0, <1>1, <1>2

LEMMA ClearedType ==
    ASSUME TypeOK, NEW t \in Trans, Cleared(t, sp)
    PROVE  sp' \in [Splits -> Split] /\ ac' \in [Accounts -> Account]
<1> DEFINE own == {s \in Listed(t) : sp[s].parent = t}
           book == [s \in Splits |->
                      IF s \in own
                      THEN [sp[s] EXCEPT !.destroying = TRUE, !.dirty = TRUE]
                      ELSE sp[s]]
<1>1. own \in SUBSET Splits
  BY ListType
<1>2. book \in [Splits -> Split]
  <2>1. \A s \in Splits : sp[s] \in Split
    BY DEF TypeOK
  <2>2. \A s \in Splits : [sp[s] EXCEPT !.destroying = TRUE, !.dirty = TRUE] \in Split
    BY <2>1 DEF Split
  <2> QED BY <2>1, <2>2
<1>3. CommitSplits(tx[t].splits, own, book)
  BY DEF Cleared
<1> HIDE DEF own, book
<1> QED BY <1>1, <1>2, <1>3, CommitType

LEMMA ScrubType ==
    ASSUME TypeOK, NEW t \in Trans
    PROVE  /\ ScrubSplits(t) \in [Splits -> Split]
           /\ ImbalanceValue(t) \in Int
<1>1. \A s \in Splits : sp[s] \in Split
  BY DEF TypeOK
<1>2. Orphan \in Accounts
  BY DEF Accounts
<1>3. ScrubSplits(t) \in [Splits -> Split]
  <2> DEFINE own == {s \in Listed(t) : sp[s].parent = t}
             orphans == IF \E s \in own : sp[s].acc = None
                        THEN {s \in Listed(t) : sp[s].acc = None} ELSE {}
             after(s) == [sp[s] EXCEPT
                !.acc    = IF s \in orphans THEN Orphan ELSE @,
                !.amount = IF s \in own THEN sp[s].value ELSE @,
                !.dirty  = @ \/ s \in orphans
                             \/ (s \in own /\ sp[s].amount # sp[s].value)]
  <2>1. ASSUME NEW s \in Splits
        PROVE  after(s) \in Split
    <3> DEFINE acc == IF s \in orphans THEN Orphan ELSE sp[s].acc
               amount == IF s \in own THEN sp[s].value ELSE sp[s].amount
               dirty == sp[s].dirty \/ s \in orphans
                             \/ (s \in own /\ sp[s].amount # sp[s].value)
    <3>1. sp[s] \in Split
      BY <1>1
    <3>2. acc \in Accounts \cup {None} /\ amount \in Int
      BY <1>2, <3>1 DEF Split
    <3>3. dirty \in BOOLEAN
      BY <3>1 DEF Split
    <3>4. after(s) = [sp[s] EXCEPT !.acc = acc, !.amount = amount, !.dirty = dirty]
      BY <3>1 DEF Split
    <3> HIDE DEF acc, amount, dirty, after
    <3> QED BY <3>1, <3>2, <3>3, <3>4 DEF Split
  <2>2. ScrubSplits(t) = [s \in Splits |-> after(s)]
    BY DEF ScrubSplits
  <2> HIDE DEF after
  <2> QED BY <2>1, <2>2
<1>4. ImbalanceValue(t) \in Int
  <2>1. sp \in [Splits -> Split] /\ StillHas(t) \in SUBSET Splits
    BY ListType DEF TypeOK
  <2> QED BY <2>1, Numbers, SumType DEF ImbalanceValue
<1> QED BY <1>3, <1>4

LEMMA ScrubbedType ==
    ASSUME TypeOK, NEW t \in Trans, NEW b \in Splits \cup {None}
    PROVE  /\ Scrubbed(t, b) \in [Splits -> Split]
           /\ ScrubbedList(t, b) \in Seq(Splits)
<1>1. /\ ScrubSplits(t) \in [Splits -> Split] /\ ImbalanceValue(t) \in Int
      /\ tx[t].splits \in Seq(Splits)
  BY ScrubType, ListType
<1>2. Imbalance \in Accounts
  BY DEF Accounts
<1>3. Scrubbed(t, b) \in [Splits -> Split]
  <2>1. CASE b = None
    BY <1>1, <2>1 DEF Scrubbed
  <2>2. CASE b \in Splits
    <3> DEFINE book == ScrubSplits(t)
               value == book[b].value - ImbalanceValue(t)
               new == [book[b] EXCEPT
                  !.live = TRUE, !.parent = t, !.acc = Imbalance,
                  !.value = value, !.amount = value, !.dirty = TRUE]
    <3>1. book[b] \in Split
      BY <1>1, <2>2
    <3>2. value \in Int
      BY <1>1, <3>1 DEF Split
    <3> HIDE DEF value
    <3>3. new \in Split
      BY <1>2, <3>1, <3>2 DEF Split
    <3>4. Scrubbed(t, b) = [book EXCEPT ![b] = new]
      BY <1>1, <2>2, Ids DEF Scrubbed, value
    <3> HIDE DEF new, book
    <3> QED BY <1>1, <2>2, <3>3, <3>4 DEF book
  <2> QED BY <2>1, <2>2
<1>4. ScrubbedList(t, b) \in Seq(Splits)
  BY <1>1 DEF ScrubbedList
<1> QED BY <1>3, <1>4

LEMMA DupedType ==
    ASSUME TypeOK, NEW t \in Trans
    PROVE  /\ Duped(t) \in Seq(Dupe) /\ DOMAIN Duped(t) = 1 .. Len(tx[t].splits)
           /\ Len(Duped(t)) = Len(tx[t].splits)
           /\ \A i \in DOMAIN tx[t].splits :
                LET s == tx[t].splits[i] IN
                s \in Splits /\ Duped(t)[i] = [guid |-> s, acc |-> sp[s].acc,
                                  value |-> sp[s].value, amount |-> sp[s].amount]
<1> DEFINE n == Len(tx[t].splits)
           dupe(s) == [guid |-> s, acc |-> sp[s].acc,
                       value |-> sp[s].value, amount |-> sp[s].amount]
<1>1. /\ n \in Nat /\ DOMAIN tx[t].splits = 1 .. n
      /\ \A i \in 1 .. n : tx[t].splits[i] \in Splits
  BY ListType
<1>2. \A s \in Splits : dupe(s) \in Dupe
  BY DEF TypeOK, Split, Dupe
<1>3. Duped(t) = [i \in 1 .. n |-> dupe(tx[t].splits[i])]
  BY <1>1 DEF Duped
<1> HIDE DEF n, dupe
<1>4. \A i \in 1 .. n : dupe(tx[t].splits[i]) \in Dupe
  BY <1>1, <1>2
<1>5. Duped(t) \in Seq(Dupe) /\ DOMAIN Duped(t) = 1 .. n /\ Len(Duped(t)) = n
      /\ \A i \in 1 .. n : Duped(t)[i] = dupe(tx[t].splits[i])
  BY <1>1, <1>3, <1>4
<1> QED BY <1>1, <1>5 DEF dupe, n

\* The step of t alone, in `tx`.
LEMMA TransactionType ==
    ASSUME TypeOK, NEW t \in Trans, NEW r, r \in Transaction,
           tx' = [tx EXCEPT ![t] = r]
    PROVE  tx' \in [Trans -> Transaction]
BY DEF TypeOK

LEMMA RestoreType ==
    ASSUME TypeOK, NEW t \in Trans, NEW book \in [Splits -> Split],
           NEW list \in Seq(Splits), Restore(t, book, list)
    PROVE  sp' \in [Splits -> Split] /\ ac' = ac /\ tx' \in [Trans -> Transaction]
<1> DEFINE dirty == {i \in DOMAIN list : book[list[i]].dirty}
           new   == {list[i] : i \in {j \in dirty : j > Len(tx[t].orig)}}
<1>1. PICK left \in Those(list, Splits \ new) :
        /\ sp' = [s \in Splits |->
                IF \E i \in dirty : list[i] = s
                THEN RolledBack(t, book, list,
                                CHOOSE i \in dirty : list[i] = s)
                ELSE book[s]]
        /\ tx' = [tx EXCEPT ![t].editlevel = 0, ![t].orig = <<>>,
                              ![t].destroying = FALSE, ![t].splits = left]
        /\ ac' = ac
  BY DEF Restore
<1>2. ASSUME NEW i \in DOMAIN list
      PROVE  RolledBack(t, book, list, i) \in Split
  <2>1. list[i] \in Splits /\ book[list[i]] \in Split /\ i \in Nat
    BY <1>2
  <2>2. CASE i <= Len(tx[t].orig)
    <3>1. i \in DOMAIN tx[t].orig
      BY <1>2, <2>2, ListType
    <3>2. tx[t].orig[i] \in Dupe
      BY <3>1, ListType
    <3> QED BY <2>1, <2>2, <3>2 DEF RolledBack, Split, Dupe
  <2>3. CASE ~(i <= Len(tx[t].orig))
    BY <2>3, NoSplitType DEF RolledBack
  <2> QED BY <2>2, <2>3
<1>3. sp' \in [Splits -> Split]
  <2>1. ASSUME NEW s \in Splits, \E i \in dirty : list[i] = s
        PROVE  RolledBack(t, book, list, CHOOSE i \in dirty : list[i] = s) \in Split
    <3>1. (CHOOSE i \in dirty : list[i] = s) \in DOMAIN list
      BY <2>1
    <3> QED BY <1>2, <3>1
  <2> HIDE DEF dirty
  <2> QED BY <1>1, <2>1
<1>4. left \in Seq(Splits)
  BY ThoseAre
<1>5. tx' \in [Trans -> Transaction]
  <2> DEFINE r == [tx[t] EXCEPT !.editlevel = 0, !.orig = <<>>,
                                !.destroying = FALSE, !.splits = left]
  <2>1. r \in Transaction
    <3>1. tx[t] \in Transaction /\ <<>> \in Seq(Dupe)
      BY ListType
    <3> QED BY <1>4, <3>1 DEF Transaction
  <2>2. tx' = [tx EXCEPT ![t] = r]
    BY <1>1 DEF TypeOK
  <2> HIDE DEF r
  <2> QED BY <2>1, <2>2, TransactionType
<1> QED BY <1>1, <1>3, <1>5

\* What a commit that is accepted does to t and its splits.
Accepted(t, book, list) ==
    LET dirty == {s \in ToSet(list) : book[s].dirty}
        stays == {s \in ToSet(list) : s \in dirty =>
                        book[s].parent = t /\ ~book[s].destroying}
    IN  /\ CommitSplits(list, {s \in dirty : book[s].parent = t}, book)
        /\ \E kept \in Seq(Splits) :
             /\ IsInjective(kept) /\ ToSet(kept) = stays
             /\ tx' = [tx EXCEPT ![t].editlevel = 0, ![t].orig = <<>>,
                                 ![t].splits = kept]

LEMMA CommitAccepted ==
    ASSUME TypeOK, NEW t \in Trans, NEW b \in Splits \cup {None}, Commit(t, b)
    PROVE  Accepted(t, Scrubbed(t, b), ScrubbedList(t, b))
<1> DEFINE book  == Scrubbed(t, b)
           list  == ScrubbedList(t, b)
           dirty == {s \in ToSet(list) : book[s].dirty}
           stays == {s \in ToSet(list) : s \in dirty =>
                        book[s].parent = t /\ ~book[s].destroying}
           D == {s \in stays : book[s].value >= 0}
           C == {s \in stays : book[s].value < 0}
<1>1. book \in [Splits -> Split] /\ list \in Seq(Splits)
  BY ScrubbedType
<1>2. CommitSplits(list, {s \in dirty : book[s].parent = t}, book)
  BY DEF Commit
<1>3. PICK debits \in Those(list, D), credits \in Those(list, C) :
        tx' = [tx EXCEPT ![t].editlevel = 0, ![t].orig = <<>>,
                         ![t].splits = debits \o credits]
  BY DEF Commit
<1> HIDE DEF book, list
<1>4. \A s \in ToSet(list) : s \in Splits /\ book[s].value \in Int
  BY <1>1 DEF Split, ToSet
<1>5. D \cap C = {} /\ D \cup C = stays /\ ToSet(list) \cap stays = stays
  BY <1>4
<1> HIDE DEF D, C
<1>6. /\ debits \o credits \in Seq(Splits) /\ IsInjective(debits \o credits)
      /\ ToSet(debits \o credits) = ToSet(list) \cap (D \cup C)
  BY <1>1, <1>5, SortedList
<1> QED BY <1>2, <1>3, <1>5, <1>6 DEF Accepted, book, list

LEMMA TypeInit == Init => TypeOK
<1> SUFFICES ASSUME Init
             PROVE  TypeOK
  OBVIOUS
<1>1. NoTrans \in Transaction /\ [splits |-> {}, balance |-> 0] \in Account
  BY DEF NoTrans, Transaction, Account
<1>2. calls \in 0 .. MaxCalls
  BY EditAssumption DEF Init
<1> QED BY <1>1, <1>2, NoSplitType DEF Init, TypeOK

\* Steps that change one transaction record alone, and those that change splits
\* alone.
LEMMA TypeOfTransactions ==
    ASSUME TypeOK, NEW t \in Trans,
           \/ Malloc(t) \/ BeginEdit(t) \/ Destroy(t) \/ EndNested(t)
    PROVE  TypeOK'
<1>1. tx[t] \in Transaction /\ tx[t].editlevel \in Nat
  BY ListType
<1>2. CASE Malloc(t)
  <2>1. [tx[t] EXCEPT !.made = TRUE] \in Transaction
    BY <1>1 DEF Transaction
  <2> QED BY <1>2, <2>1 DEF Malloc, TypeOK
<1>3. CASE BeginEdit(t)
  <2> DEFINE orig == IF Open(t) THEN tx[t].orig ELSE Duped(t)
             r == [tx[t] EXCEPT !.editlevel = @ + 1, !.orig = orig]
  <2>1. orig \in Seq(Dupe)
    BY DupedType, ListType
  <2> HIDE DEF orig
  <2>2. r \in Transaction
    <3>1. tx[t].editlevel + 1 \in Nat
      BY <1>1
    <3>2. [tx[t] EXCEPT !.editlevel = @ + 1] \in Transaction
      BY <1>1, <3>1 DEF Transaction
    <3> QED BY <1>1, <2>1, <3>1, <3>2 DEF Transaction
  <2>3. tx' = [tx EXCEPT ![t] = r]
    BY <1>3 DEF BeginEdit, TypeOK, orig
  <2> HIDE DEF r
  <2>4. tx' \in [Trans -> Transaction]
    BY <2>2, <2>3, TransactionType
  <2> QED BY <1>3, <2>4 DEF BeginEdit, TypeOK
<1>4. CASE Destroy(t)
  <2>1. [tx[t] EXCEPT !.destroying = TRUE] \in Transaction
    BY <1>1 DEF Transaction
  <2>2. tx' \in [Trans -> Transaction]
    BY <1>4, <2>1 DEF Destroy, TypeOK
  <2>3. calls' \in 0 .. MaxCalls
    BY <1>4, EditAssumption DEF Destroy, Called, TypeOK
  <2> QED BY <1>4, <2>2, <2>3 DEF Destroy, TypeOK
<1>5. CASE EndNested(t)
  <2>1. [tx[t] EXCEPT !.editlevel = @ - 1] \in Transaction
    <3>1. tx[t].editlevel - 1 \in Nat
      BY <1>1, <1>5 DEF EndNested
    <3> QED BY <1>1, <3>1 DEF Transaction
  <2> QED BY <1>5, <2>1 DEF EndNested, TypeOK
<1> QED BY <1>2, <1>3, <1>4, <1>5

\* A change of one split.
Changed(s, x) ==
    /\ Editable(s) /\ Called
    /\ sp' = [sp EXCEPT ![s] = x]
    /\ tx' = tx

LEMMA OneSplit ==
    ASSUME TypeOK, NEW s \in Splits,
           \/ \E a \in Accounts : SetAccount(s, a)
           \/ \E v \in Values : SetValue(s, v) \/ SetAmount(s, v)
           \/ SetReconcile(s) \/ SplitDestroy(s)
    PROVE  \E x \in Split :
             /\ Changed(s, x)
             /\ x.dirty /\ sp[s].parent # None
             /\ x = [sp[s] EXCEPT !.acc = x.acc, !.value = x.value, !.amount = x.amount,
                                  !.destroying = x.destroying, !.dirty = TRUE]
             /\ \/ ac' = ac
                \/ ac' = [a \in Accounts |->
                     IF a = sp[s].acc THEN Recomputed(ac[a].splits, sp) ELSE ac[a]]
                   /\ x = [sp[s] EXCEPT !.dirty = TRUE]
<1> USE DEF Changed
<1>1. sp[s] \in Split /\ sp \in [Splits -> Split]
  BY DEF TypeOK
<1>2. CASE \E a \in Accounts : SetAccount(s, a)
  <2>1. PICK a \in Accounts : SetAccount(s, a)
    BY <1>2
  <2> DEFINE x == [sp[s] EXCEPT !.acc = a, !.dirty = TRUE]
  <2>2. x \in Split /\ x.acc = a /\ x.dirty /\ x.value = sp[s].value
        /\ x.amount = sp[s].amount /\ x.destroying = sp[s].destroying
    BY <1>1 DEF Split
  <2>3. x = [sp[s] EXCEPT !.acc = x.acc, !.value = x.value, !.amount = x.amount,
                          !.destroying = x.destroying, !.dirty = TRUE]
    BY <1>1 DEF Split
  <2>4. sp' = [sp EXCEPT ![s] = x] /\ Editable(s) /\ Called /\ tx' = tx /\ ac' = ac
    BY <1>1, <2>1 DEF SetAccount
  <2> HIDE DEF x
  <2> QED BY <2>2, <2>3, <2>4 DEF Editable
<1>3. CASE \E v \in Values : SetValue(s, v)
  <2>1. PICK v \in Values : SetValue(s, v)
    BY <1>3
  <2> DEFINE x == [sp[s] EXCEPT !.value = v, !.dirty = TRUE]
  <2>2. x \in Split /\ x.acc = sp[s].acc /\ x.dirty /\ x.value = v
        /\ x.amount = sp[s].amount /\ x.destroying = sp[s].destroying
    BY <1>1, EditAssumption DEF Split
  <2>3. x = [sp[s] EXCEPT !.acc = x.acc, !.value = x.value, !.amount = x.amount,
                          !.destroying = x.destroying, !.dirty = TRUE]
    BY <1>1 DEF Split
  <2>4. sp' = [sp EXCEPT ![s] = x] /\ Editable(s) /\ Called /\ tx' = tx /\ ac' = ac
    BY <1>1, <2>1 DEF SetValue
  <2> HIDE DEF x
  <2> QED BY <2>2, <2>3, <2>4 DEF Editable
<1>4. CASE \E v \in Values : SetAmount(s, v)
  <2>1. PICK v \in Values : SetAmount(s, v)
    BY <1>4
  <2> DEFINE x == [sp[s] EXCEPT !.amount = v, !.dirty = TRUE]
  <2>2. x \in Split /\ x.acc = sp[s].acc /\ x.dirty /\ x.value = sp[s].value
        /\ x.amount = v /\ x.destroying = sp[s].destroying
    BY <1>1, EditAssumption DEF Split
  <2>3. x = [sp[s] EXCEPT !.acc = x.acc, !.value = x.value, !.amount = x.amount,
                          !.destroying = x.destroying, !.dirty = TRUE]
    BY <1>1 DEF Split
  <2>4. sp' = [sp EXCEPT ![s] = x] /\ Editable(s) /\ Called /\ tx' = tx /\ ac' = ac
    BY <1>1, <2>1 DEF SetAmount
  <2> HIDE DEF x
  <2> QED BY <2>2, <2>3, <2>4 DEF Editable
<1>5. CASE SetReconcile(s)
  <2> DEFINE x == [sp[s] EXCEPT !.dirty = TRUE]
  <2>2. x \in Split /\ x.acc = sp[s].acc /\ x.dirty /\ x.value = sp[s].value
        /\ x.amount = sp[s].amount /\ x.destroying = sp[s].destroying
    BY <1>1 DEF Split
  <2>3. x = [sp[s] EXCEPT !.acc = x.acc, !.value = x.value, !.amount = x.amount,
                          !.destroying = x.destroying, !.dirty = TRUE]
    BY <1>1 DEF Split
  <2>4. sp' = [sp EXCEPT ![s] = x] /\ Editable(s) /\ Called /\ tx' = tx
    BY <1>1, <1>5 DEF SetReconcile
  <2>5. /\ ac' = [a \in Accounts |->
                IF a = sp[s].acc THEN Recomputed(ac[a].splits, sp) ELSE ac[a]]
        /\ x = [sp[s] EXCEPT !.dirty = TRUE]
    BY <1>5 DEF SetReconcile
  <2> HIDE DEF x
  <2> QED BY <2>2, <2>3, <2>4, <2>5 DEF Editable
<1>6. CASE SplitDestroy(s)
  <2> DEFINE x == [sp[s] EXCEPT !.destroying = TRUE, !.dirty = TRUE]
  <2>2. x \in Split /\ x.acc = sp[s].acc /\ x.dirty /\ x.value = sp[s].value
        /\ x.amount = sp[s].amount /\ x.destroying = TRUE
    BY <1>1 DEF Split
  <2>3. x = [sp[s] EXCEPT !.acc = x.acc, !.value = x.value, !.amount = x.amount,
                          !.destroying = x.destroying, !.dirty = TRUE]
    BY <1>1 DEF Split
  <2>4. sp' = [sp EXCEPT ![s] = x] /\ Editable(s) /\ Called /\ tx' = tx /\ ac' = ac
    BY <1>1, <1>6 DEF SplitDestroy
  <2> HIDE DEF x
  <2> QED BY <2>2, <2>3, <2>4 DEF Editable
<1> QED BY <1>2, <1>3, <1>4, <1>5, <1>6

LEMMA NewSplitFacts ==
    ASSUME TypeOK, NEW t \in Trans, NEW s \in Splits,
           NEW a \in UserAccounts \cup {None}, NewSplit(t, s, a)
    PROVE  /\ Open(t) /\ Unused(s) /\ ac' = ac /\ Called
           /\ sp' = [sp EXCEPT ![s] = [NoSplit EXCEPT
                       !.live = TRUE, !.parent = t, !.acc = a, !.dirty = TRUE]]
           /\ sp' \in [Splits -> Split]
           /\ tx' = [tx EXCEPT ![t].splits = Append(@, s)]
           /\ tx' \in [Trans -> Transaction]
<1>1. /\ Open(t) /\ Unused(s) /\ ac' = ac /\ Called
      /\ sp' = [sp EXCEPT ![s] = [NoSplit EXCEPT
                  !.live = TRUE, !.parent = t, !.acc = a, !.dirty = TRUE]]
      /\ tx' = [tx EXCEPT ![t].splits = Append(@, s)]
  BY DEF NewSplit
<1>2. [NoSplit EXCEPT !.live = TRUE, !.parent = t, !.acc = a, !.dirty = TRUE] \in Split
  <2>1. a \in Accounts \cup {None}
    BY DEF Accounts
  <2>2. NoSplit \in Split
    BY NoSplitType
  <2> QED BY <2>1, <2>2 DEF Split
<1>3. [tx[t] EXCEPT !.splits = Append(@, s)] \in Transaction
  <2>1. tx[t] \in Transaction /\ Append(tx[t].splits, s) \in Seq(Splits)
    BY ListType
  <2> QED BY <2>1 DEF Transaction
<1> QED BY <1>1, <1>2, <1>3 DEF TypeOK

LEMMA TypeNext == TypeOK /\ [Next]_vars => TypeOK'
<1> SUFFICES ASSUME TypeOK, [Next]_vars
             PROVE  TypeOK'
  OBVIOUS
<1>0. calls \in 0 .. MaxCalls /\ (Called => calls' \in 0 .. MaxCalls)
  BY EditAssumption DEF TypeOK, Called
<1>1. ASSUME NEW t \in Trans, ClearSplits(t)
      PROVE  TypeOK'
  <2>1. sp' \in [Splits -> Split] /\ ac' \in [Accounts -> Account]
    BY <1>1, ClearedType DEF ClearSplits
  <2>2. [tx[t] EXCEPT !.splits = <<>>] \in Transaction
    <3>1. tx[t] \in Transaction /\ <<>> \in Seq(Splits)
      BY ListType
    <3> QED BY <3>1 DEF Transaction
  <2>3. tx' \in [Trans -> Transaction]
    BY <1>1, <2>2 DEF ClearSplits, TypeOK
  <2> QED BY <1>0, <1>1, <2>1, <2>3 DEF ClearSplits, TypeOK
<1>2. ASSUME NEW t \in Trans, CommitDestroy(t)
      PROVE  TypeOK'
  <2>1. sp' \in [Splits -> Split] /\ ac' \in [Accounts -> Account]
    BY <1>2, ClearedType DEF CommitDestroy
  <2>2. NoTrans \in Transaction
    BY DEF NoTrans, Transaction
  <2>3. tx' \in [Trans -> Transaction]
    BY <1>2, <2>2 DEF CommitDestroy, TypeOK
  <2> QED BY <1>0, <1>2, <2>1, <2>3 DEF CommitDestroy, TypeOK
<1>3. ASSUME NEW t \in Trans, RollbackEdit(t)
      PROVE  TypeOK'
  <2>1. sp \in [Splits -> Split] /\ tx[t].splits \in Seq(Splits)
    BY ListType DEF TypeOK
  <2>2. sp' \in [Splits -> Split] /\ ac' = ac /\ tx' \in [Trans -> Transaction]
    BY <1>3, <2>1, RestoreType DEF RollbackEdit
  <2> QED BY <1>3, <2>2 DEF RollbackEdit, TypeOK
<1>4. ASSUME NEW t \in Trans, NEW b \in Splits \cup {None}, Commit(t, b)
      PROVE  TypeOK'
  <2> DEFINE book == Scrubbed(t, b)
             list == ScrubbedList(t, b)
             changed == {s \in {s \in ToSet(list) : book[s].dirty} : book[s].parent = t}
  <2>1. book \in [Splits -> Split] /\ list \in Seq(Splits)
    BY ScrubbedType
  <2>2. Accepted(t, book, list)
    BY <1>4, CommitAccepted
  <2> HIDE DEF book, list
  <2>3. PICK kept \in Seq(Splits) :
          tx' = [tx EXCEPT ![t].editlevel = 0, ![t].orig = <<>>, ![t].splits = kept]
    BY <2>2 DEF Accepted
  <2>4. [tx[t] EXCEPT !.editlevel = 0, !.orig = <<>>, !.splits = kept] \in Transaction
    <3>1. tx[t] \in Transaction /\ <<>> \in Seq(Dupe)
      BY ListType
    <3> QED BY <2>3, <3>1 DEF Transaction
  <2>5. tx' \in [Trans -> Transaction]
    BY <2>3, <2>4 DEF TypeOK
  <2>6. changed \in SUBSET Splits
    BY <2>1 DEF ToSet
  <2>7. CommitSplits(list, changed, book)
    BY <2>2 DEF Accepted
  <2> HIDE DEF changed
  <2>8. sp' \in [Splits -> Split] /\ ac' \in [Accounts -> Account]
    BY <2>1, <2>6, <2>7, CommitType
  <2> QED BY <1>4, <2>5, <2>8 DEF Commit, TypeOK
<1>5. ASSUME NEW t \in Trans, NEW b \in Splits \cup {None}, CommitFails(t, b)
      PROVE  TypeOK'
  <2>1. \E book \in [Splits -> Split], list \in Seq(Splits) : Restore(t, book, list)
    <3>1. sp \in [Splits -> Split] /\ tx[t].splits \in Seq(Splits)
      BY ListType DEF TypeOK
    <3>2. Scrubbed(t, b) \in [Splits -> Split] /\ ScrubbedList(t, b) \in Seq(Splits)
      BY ScrubbedType
    <3> QED BY <1>5, <3>1, <3>2 DEF CommitFails
  <2>2. sp' \in [Splits -> Split] /\ ac' = ac /\ tx' \in [Trans -> Transaction]
    BY <2>1, RestoreType
  <2> QED BY <1>5, <2>2 DEF CommitFails, TypeOK
<1>6. ASSUME NEW t \in Trans, NEW s \in Splits, NEW a \in UserAccounts \cup {None},
             NewSplit(t, s, a)
      PROVE  TypeOK'
  BY <1>0, <1>6, NewSplitFacts DEF TypeOK
<1>7. ASSUME NEW s \in Splits,
             \/ \E a \in Accounts : SetAccount(s, a)
             \/ \E v \in Values : SetValue(s, v) \/ SetAmount(s, v)
             \/ SetReconcile(s) \/ SplitDestroy(s)
      PROVE  TypeOK'
  <2>1. PICK x \in Split :
             /\ Changed(s, x)
             /\ \/ ac' = ac
                \/ ac' = [a \in Accounts |->
                     IF a = sp[s].acc THEN Recomputed(ac[a].splits, sp) ELSE ac[a]]
    BY <1>7, OneSplit
  <2>2. \A a \in Accounts : Recomputed(ac[a].splits, sp) \in Account
    <3>1. \A a \in Accounts : ac[a].splits \in SUBSET Splits
      BY DEF TypeOK, Account
    <3>2. sp \in [Splits -> Split]
      BY DEF TypeOK
    <3> QED BY <3>1, <3>2, RecomputedType
  <2>3. ac' \in [Accounts -> Account]
    BY <2>1, <2>2 DEF TypeOK
  <2>4. sp' \in [Splits -> Split]
    BY <2>1 DEF Changed, TypeOK
  <2> QED BY <1>0, <2>1, <2>3, <2>4 DEF Changed, TypeOK
<1>8. CASE UNCHANGED vars
  BY <1>8 DEF vars, TypeOK
<1> QED BY <1>1, <1>2, <1>3, <1>4, <1>5, <1>6, <1>7, <1>8, TypeOfTransactions DEF Next

\* The values of the variables, for any splits, accounts and depth of nesting,
\* whether edits are cancelled, refused or cleared (Transaction.cpp).
THEOREM TypeCorrect == Spec => []TypeOK
BY TypeInit, TypeNext, PTL DEF Spec

-----------------------------------------------------------------------------
(* Closed transactions are in order.                                       *)

\* Transaction t, with a list of splits, is in order.
InOrder(list, book) ==
    /\ Sum(ToSet(list), ValueIn(book)) = 0
    /\ \A s \in ToSet(list) :
         /\ book[s].acc # None /\ book[s].acc = book[s].orig_acc
         /\ book[s].amount = book[s].value
         /\ book[s].dirty => book[s].refused
         /\ ~book[s].destroying

LEMMA SameOrder ==
    ASSUME NEW list \in Seq(Splits), NEW book, NEW after,
           \A s \in ToSet(list) : after[s] = book[s], InOrder(list, book)
    PROVE  InOrder(list, after)
<1>1. ToSet(list) \subseteq Splits
  BY DEF ToSet
<1>2. \A s \in ToSet(list) : ValueIn(book)[s] = ValueIn(after)[s]
  BY <1>1 DEF ValueIn
<1>3. Sum(ToSet(list), ValueIn(book)) = Sum(ToSet(list), ValueIn(after))
  BY <1>2, SumSame
<1> QED BY <1>3 DEF InOrder

LEMMA ScrubStep ==
    ASSUME TypeOK, OwnInv, ScrubInv, NEW t \in Trans, NEW U, Confined(t, U),
           ~Open(t)' => InOrder(tx'[t].splits, sp'),
           ~Clears => (Open(t)' => OrigScrubbed(t)')
    PROVE  ScrubInv'
<1>1. ASSUME NEW u \in Trans, ~Open(u)'
      PROVE  InOrder(tx'[u].splits, sp')
  <2>1. CASE u = t
    BY <1>1, <2>1
  <2>2. CASE u # t
    <3>1. tx'[u] = tx[u] /\ ~Open(u) /\ \A s \in Listed(u) : sp'[s] = sp[s]
      BY <1>1, <2>2, Elsewhere
    <3>2. tx[u].splits \in Seq(Splits)
      BY ListType
    <3>3. InOrder(tx[u].splits, sp)
      BY <3>1 DEF ScrubInv, ClosedIsScrubbed, InOrder, Listed
    <3> QED BY <3>1, <3>2, <3>3, SameOrder DEF Listed
  <2> QED BY <2>1, <2>2
<1>2. ClosedIsScrubbed'
  BY <1>1 DEF ClosedIsScrubbed, InOrder, Listed
<1>3. ASSUME ~Clears, NEW u \in Trans, Open(u)'
      PROVE  OrigScrubbed(u)'
  <2>1. CASE u = t
    BY <1>3, <2>1
  <2>2. CASE u # t
    <3>1. tx'[u] = tx[u] /\ Open(u)
      BY <1>3, <2>2, Elsewhere
    <3>2. OrigScrubbed(u)
      BY <1>3, <3>1 DEF ScrubInv
    <3>3. OrigSet(u)' = OrigSet(u) /\ \A s : OrigOf(u, s)' = OrigOf(u, s)
      BY <3>1 DEF OrigSet, OrigOf
    <3>4. [s \in Splits |-> OrigOf(u, s).value]' = [s \in Splits |-> OrigOf(u, s).value]
      BY <3>3
    <3> QED BY <3>1, <3>2, <3>3, <3>4 DEF OrigScrubbed
  <2> QED BY <2>1, <2>2
<1> QED BY <1>2, <1>3 DEF ScrubInv

-----------------------------------------------------------------------------
(* Commits.                                                                *)

\* The splits in `book` are sound, and in the lists of their accounts.
BookSound(book) ==
    /\ book \in [Splits -> Split]
    /\ \A s \in Splits : SplitSound(book[s])
    /\ \A a \in Accounts, s \in Splits :
         s \in ac[a].splits <=> book[s].live /\ book[s].orig_acc = a

LEMMA CommitFacts ==
    ASSUME TypeOK, NEW list, NEW book, BookSound(book), NEW changed \in SUBSET Splits,
           \A s \in changed : book[s].live, CommitSplits(list, changed, book)
    PROVE  /\ \A a \in Accounts, s \in Splits :
                s \in ac'[a].splits <=> sp'[s].live /\ sp'[s].orig_acc = a
           /\ \A s \in Splits : SplitSound(sp'[s])
           /\ \A s \in Splits \ changed : sp'[s] = book[s]
           /\ \A s \in changed : book[s].destroying => ~sp'[s].live
           /\ \A s \in changed : ~book[s].destroying =>
                /\ sp'[s].live /\ sp'[s].parent = book[s].parent /\ sp'[s].acc = book[s].acc
                /\ sp'[s].value = book[s].value /\ sp'[s].amount = book[s].amount
                /\ sp'[s].dirty => sp'[s].refused
                /\ ~sp'[s].destroying /\ sp'[s].orig_acc = sp'[s].acc
<1>0. PICK refused \in SUBSET changed :
        /\ sp' = [s \in Splits |-> SplitAfter(s, changed, refused, book)]
        /\ ac' = [a \in Accounts |-> AccountAfter(a, list, changed, refused, book)]
  BY DEF CommitSplits
<1>1. book \in [Splits -> Split] /\ changed \subseteq Splits
  BY DEF BookSound
<1>2. \A s \in Splits :
           /\ s \notin changed => sp'[s] = book[s]
           /\ s \in changed /\ book[s].destroying =>
                ~sp'[s].live /\ (sp'[s] = NoSplit \/ sp'[s].refused)
           /\ s \in changed => sp'[s].acc = sp'[s].orig_acc /\ ~sp'[s].destroying
           /\ s \in changed /\ ~book[s].destroying =>
                /\ sp'[s].live /\ sp'[s].parent = book[s].parent /\ sp'[s].acc = book[s].acc
                /\ sp'[s].orig_parent = sp'[s].parent
                /\ sp'[s].value = book[s].value /\ sp'[s].amount = book[s].amount
                /\ (sp'[s].dirty <=> s \in refused) /\ (sp'[s].refused <=> s \in refused)
  <2>1. \A s \in Splits : sp'[s] = SplitAfter(s, changed, refused, book)
    BY <1>0
  <2> QED BY <1>1, <2>1, SplitAfterIs
<1>6. ASSUME NEW s \in Splits
      PROVE  SplitSound(sp'[s])
  <2>1. CASE s \notin changed
    BY <1>2, <2>1 DEF BookSound
  <2>2. CASE s \in changed /\ book[s].destroying
    BY <1>2, <2>2 DEF SplitSound
  <2>3. CASE s \in changed /\ ~book[s].destroying
    <3>1. book[s].parent \in Trans
      BY <2>3 DEF BookSound, SplitSound
    <3> QED BY <1>2, <2>3, <3>1 DEF SplitSound
  <2> QED BY <2>1, <2>2, <2>3
<1>7. ASSUME NEW a \in Accounts, NEW s \in Splits
      PROVE  s \in ac'[a].splits <=> sp'[s].live /\ sp'[s].orig_acc = a
  <2>0. ac'[a].splits = Members(a, changed, book)
    <3>1. ac'[a] = AccountAfter(a, list, changed, refused, book) /\ ac[a] \in Account
      BY <1>0 DEF TypeOK
    <3> QED BY <3>1 DEF AccountAfter, Recomputed, Account
  <2>1. s \in ac[a].splits <=> book[s].live /\ book[s].orig_acc = a
    BY DEF BookSound
  <2>2. CASE s \notin changed
    BY <1>2, <2>0, <2>1, <2>2 DEF Members
  <2>3. CASE s \in changed /\ book[s].destroying
    BY <1>2, <2>0, <2>1, <2>3 DEF Members, Leaves, Enters
  <2>4. CASE s \in changed /\ ~book[s].destroying
    BY <1>2, <2>0, <2>1, <2>4 DEF Members, Leaves, Enters
  <2> QED BY <2>2, <2>3, <2>4
<1> QED BY <1>1, <1>2, <1>6, <1>7

\* The balance of an account is recomputed when a split is removed from it, or
\* has been committed; what the backend refuses stays dirty.
LEMMA CommitBalance ==
    ASSUME TypeOK, NEW list, NEW book, BookSound(book), NEW changed \in SUBSET Splits,
           \A s \in changed : book[s].live, CommitSplits(list, changed, book),
           BalInv,
           \A s \in Splits \ changed : book[s].dirty = sp[s].dirty /\ book[s].amount = sp[s].amount
    PROVE  BalInv'
<1> SUFFICES ASSUME NEW a \in Accounts, \A s \in ac'[a].splits : ~sp'[s].dirty
             PROVE  ac'[a].balance = Sum(ac'[a].splits, AmountIn(sp'))
  BY DEF BalInv
<1> DEFINE S == Members(a, changed, book)
<1>0. PICK refused \in SUBSET changed :
        /\ sp' = [s \in Splits |-> SplitAfter(s, changed, refused, book)]
        /\ ac' = [r \in Accounts |-> AccountAfter(r, list, changed, refused, book)]
  BY DEF CommitSplits
<1> DEFINE last == RecomputeFor(a, changed, refused, book)
           late == {s \in refused : Enters(s, a, book) /\
                      \A r \in last : Place(r, list) < Place(s, list)}
<1>1. /\ \A s \in Splits \ changed : sp'[s] = book[s]
      /\ \A s \in changed : ~book[s].destroying =>
           sp'[s].amount = book[s].amount /\ (s \in refused => sp'[s].dirty)
  <2>1. \A s \in Splits : sp'[s] = SplitAfter(s, changed, refused, book)
    BY <1>0
  <2>2. book \in [Splits -> Split]
    BY DEF BookSound
  <2> QED BY <2>1, <2>2, SplitAfterIs
<1>2. /\ ac'[a] = IF last = {} THEN [ac[a] EXCEPT !.splits = S]
                  ELSE [Recomputed(S \ late, book) EXCEPT !.splits = S]
      /\ ac[a] \in Account /\ ac[a].splits \subseteq Splits
  BY <1>0 DEF AccountAfter, TypeOK, Account
<1>3. ac'[a].splits = S
  BY <1>2 DEF Recomputed, Account
<1>4. \A s \in changed : s \in S => ~book[s].destroying
  BY DEF BookSound, Members, Leaves, Enters
<1>5. \A s \in S : s \in Splits /\ sp'[s].amount = book[s].amount /\ s \notin refused
  <2>1. S \subseteq Splits
    BY <1>2 DEF Members
  <2> QED BY <1>1, <1>3, <1>4, <2>1
<1>6. Sum(S, AmountIn(book)) = Sum(S, AmountIn(sp'))
  <2> HIDE DEF S
  <2>1. \A s \in S : AmountIn(book)[s] = AmountIn(sp')[s]
    BY <1>5 DEF AmountIn
  <2> QED BY <2>1, SumSame
<1>7. CASE last # {}
  <2>1. late = {}
    BY <1>5 DEF Members
  <2>2. S \ late = S
    BY <2>1
  <2> HIDE DEF S, last, late
  <2> QED BY <1>2, <1>6, <1>7, <2>2 DEF Recomputed
<1>8. CASE last = {}
  <2>1. \A s \in changed : ~Leaves(s, a, book) /\ (book[s].acc = a => s \in refused)
    BY <1>8 DEF RecomputeFor
  <2>2. \A s \in S : s \notin changed
    BY <1>5, <2>1 DEF BookSound, Members, Leaves, Enters
  <2>3. S = ac[a].splits
    BY <2>1, <2>2 DEF Members
  <2>4. ac'[a].balance = ac[a].balance
    BY <1>2, <1>8 DEF Account
  <2>5. \A s \in ac[a].splits : s \in Splits \ changed
    BY <1>2, <2>2, <2>3
  <2> HIDE DEF S, last, late
  <2>6. \A s \in ac[a].splits : sp'[s].amount = sp[s].amount /\ ~sp[s].dirty
    BY <1>1, <1>3, <2>3, <2>5
  <2>7. \A s \in ac[a].splits : AmountIn(sp)[s] = AmountIn(sp')[s]
    BY <2>5, <2>6 DEF AmountIn
  <2>8. Sum(ac[a].splits, AmountIn(sp)) = Sum(ac[a].splits, AmountIn(sp'))
    BY <2>7, SumSame
  <2> QED BY <1>3, <2>3, <2>4, <2>6, <2>8 DEF BalInv
<1> QED BY <1>7, <1>8

-----------------------------------------------------------------------------
(* The scrub.                                                              *)

\* y is x with what may be pending changed, and then dirty.
Pend(x, y) ==
    /\ y.live = x.live /\ y.parent = x.parent /\ y.orig_parent = x.orig_parent
    /\ y.orig_acc = x.orig_acc /\ y.destroying = x.destroying
    /\ y.refused = x.refused
    /\ y = x \/ y.dirty

\* The splits of t are as in `book` and `list`: some changed, some new ones.
Pends(t, book, list) ==
    /\ book \in [Splits -> Split] /\ list \in Seq(Splits) /\ IsInjective(list)
    /\ Len(tx[t].splits) <= Len(list)
    /\ \A i \in DOMAIN tx[t].splits : list[i] = tx[t].splits[i]
    /\ Listed(t) \subseteq ToSet(list)
    /\ \A s \in Splits \ ToSet(list) : book[s] = sp[s]
    /\ \A s \in Listed(t) : Pend(sp[s], book[s])
    /\ \A i \in DOMAIN list : i > Len(tx[t].splits) => list[i] \notin Listed(t)
    /\ \A s \in ToSet(list) \ Listed(t) :
         /\ ~sp[s].live /\ book[s].live /\ book[s].parent = t
         /\ book[s].orig_parent = None /\ book[s].orig_acc = None
         /\ book[s].dirty /\ ~book[s].destroying /\ ~book[s].refused

LEMMA Owned ==
    ASSUME TypeOK, OwnInv, NEW t \in Trans
    PROVE  /\ \A s \in Listed(t) : s \in Splits /\ sp[s] \in Split /\ sp[s].live /\ sp[s].parent = t
           /\ \A s \in Splits : sp[s].live /\ sp[s].parent = t => s \in Listed(t)
           /\ IsInjective(tx[t].splits) /\ tx[t].splits \in Seq(Splits)
           /\ sp \in [Splits -> Split]
           /\ BookSound(sp)
BY ListType DEF OwnInv, MembershipAgrees, OwnedOnce, TypeOK, BookSound

LEMMA NoScrub ==
    ASSUME TypeOK, OwnInv, NEW t \in Trans
    PROVE  Pends(t, sp, tx[t].splits)
<1>1. Len(tx[t].splits) \in Nat /\ DOMAIN tx[t].splits = 1 .. Len(tx[t].splits)
  BY ListType
<1>2. \A i \in DOMAIN tx[t].splits : ~(i > Len(tx[t].splits))
  BY <1>1
<1>3. Len(tx[t].splits) <= Len(tx[t].splits)
  BY <1>1
<1>4. Listed(t) = ToSet(tx[t].splits)
  BY DEF Listed
<1> QED BY <1>2, <1>3, <1>4, Owned DEF Pends, Pend

LEMMA PendsSound ==
    ASSUME TypeOK, OwnInv, NEW t \in Trans, NEW book, NEW list, Pends(t, book, list)
    PROVE  /\ BookSound(book)
           /\ ToSet(list) \subseteq Splits
           /\ \A s \in Splits : s \in ToSet(list) <=> book[s].live /\ book[s].parent = t
<1>1. ToSet(list) \subseteq Splits
  BY DEF Pends, ToSet
<1>2. ASSUME NEW s \in ToSet(list)
      PROVE  /\ SplitSound(book[s]) /\ book[s].live /\ book[s].parent = t
             /\ \A a \in Accounts :
                  s \in ac[a].splits <=> book[s].live /\ book[s].orig_acc = a
  <2>1. CASE s \in Listed(t)
    <3>1. Pend(sp[s], book[s]) /\ sp[s].live /\ sp[s].parent = t /\ SplitSound(sp[s])
      BY <2>1, Owned DEF Pends, BookSound
    <3>2. \A a \in Accounts : s \in ac[a].splits <=> sp[s].live /\ sp[s].orig_acc = a
      BY <1>1, Owned DEF BookSound
    <3>3. SplitSound(book[s])
      BY <3>1 DEF Pend, SplitSound
    <3> QED BY <3>1, <3>2, <3>3 DEF Pend
  <2>2. CASE s \notin Listed(t)
    <3>1. /\ ~sp[s].live /\ book[s].live /\ book[s].parent = t
          /\ book[s].orig_parent = None /\ book[s].orig_acc = None
          /\ book[s].dirty /\ ~book[s].refused
      BY <2>2 DEF Pends
    <3>2. \A a \in Accounts : s \notin ac[a].splits /\ a # None
      BY <1>1, <3>1, Owned, Ids DEF BookSound
    <3>3. SplitSound(book[s])
      BY <3>1 DEF SplitSound
    <3> QED BY <3>1, <3>2, <3>3
  <2> QED BY <2>1, <2>2
<1>3. \A s \in Splits \ ToSet(list) : /\ book[s] = sp[s]
                                      /\ ~(sp[s].live /\ sp[s].parent = t)
  BY Owned DEF Pends
<1>4. BookSound(book)
  <2>1. book \in [Splits -> Split]
    BY DEF Pends
  <2>2. \A s \in Splits : SplitSound(book[s])
    BY <1>2, <1>3, Owned DEF BookSound
  <2>3. \A a \in Accounts, s \in Splits :
         s \in ac[a].splits <=> book[s].live /\ book[s].orig_acc = a
    BY <1>2, <1>3, Owned DEF BookSound
  <2> QED BY <2>1, <2>2, <2>3 DEF BookSound
<1> QED BY <1>1, <1>2, <1>3, <1>4

\* The split that the scrub balances t with is of t, or new.
LEMMA BalancerIs ==
    ASSUME TypeOK, OwnInv, NEW t \in Trans, NEW b \in Balancer(t)
    PROVE  \/ b = None /\ ImbalanceValue(t) = 0
           \/ b \in StillHas(t)
           \/ b \in Splits /\ Unused(b)
<1>1. CASE ImbalanceValue(t) = 0
  BY <1>1 DEF Balancer
<1>2. CASE ImbalanceValue(t) # 0 /\ Balancing(t) # {}
  <2> DEFINE At == {i \in DOMAIN tx[t].splits : tx[t].splits[i] \in Balancing(t)}
  <2>1. DOMAIN tx[t].splits = 1 .. Len(tx[t].splits) /\ Len(tx[t].splits) \in Nat
    BY ListType
  <2>2. At # {} /\ At \in SUBSET Nat
    BY <1>2, <2>1 DEF Balancing, StillHas, Listed, ToSet
  <2>3. PICK i \in At : \A k \in At : i <= k
    BY <2>2, Least
  <2>4. \A j \in 1 .. i - 1 : tx[t].splits[j] \notin Balancing(t)
    <3> SUFFICES ASSUME NEW j \in 1 .. i - 1, tx[t].splits[j] \in Balancing(t)
                 PROVE  FALSE
      OBVIOUS
    <3>1. j \in DOMAIN tx[t].splits /\ j < i
      BY <2>1, <2>3
    <3>2. j \in At
      BY <3>1
    <3>3. i \in Nat /\ j \in Nat
      BY <2>2, <2>3, <3>2
    <3> QED BY <2>3, <3>1, <3>2, <3>3
  <2>5. \E j \in DOMAIN tx[t].splits :
                 /\ tx[t].splits[j] \in Balancing(t)
                 /\ \A k \in 1 .. j - 1 : tx[t].splits[k] \notin Balancing(t)
    BY <2>3, <2>4
  <2>6. b \in Balancing(t)
    BY <1>2, <2>5 DEF Balancer
  <2> QED BY <2>6 DEF Balancing
<1>3. CASE ImbalanceValue(t) # 0 /\ Balancing(t) = {}
  BY <1>3 DEF Balancer
<1> QED BY <1>1, <1>2, <1>3

LEMMA ScrubSplitsFacts ==
    ASSUME TypeOK, OwnInv, NEW t \in Trans
    PROVE  /\ \A s \in Splits \ Listed(t) : ScrubSplits(t)[s] = sp[s]
           /\ \A s \in Listed(t) :
                /\ Pend(sp[s], ScrubSplits(t)[s])
                /\ ScrubSplits(t)[s].acc # None
                /\ ScrubSplits(t)[s].value = sp[s].value
                /\ ScrubSplits(t)[s].amount = sp[s].value
<1> DEFINE own == {s \in Listed(t) : sp[s].parent = t}
           orphans == IF \E s \in own : sp[s].acc = None
                      THEN {s \in Listed(t) : sp[s].acc = None} ELSE {}
           after(s) == [sp[s] EXCEPT
                !.acc    = IF s \in orphans THEN Orphan ELSE @,
                !.amount = IF s \in own THEN sp[s].value ELSE @,
                !.dirty  = @ \/ s \in orphans
                             \/ (s \in own /\ sp[s].amount # sp[s].value)]
<1>1. \A s \in Splits : sp[s] \in Split
  BY DEF TypeOK
<1>2. own = Listed(t)
  BY Owned
<1>3. /\ \A s \in orphans : s \in Listed(t)
      /\ \A s \in Listed(t) : s \in orphans <=> sp[s].acc = None
  BY <1>2
<1>4. \A s \in Splits : ScrubSplits(t)[s] = after(s)
  BY DEF ScrubSplits
<1> HIDE DEF orphans, own
<1>5. ASSUME NEW s \in Splits, s \notin Listed(t)
      PROVE  ScrubSplits(t)[s] = sp[s]
  <2>1. sp[s] \in Split /\ s \notin orphans /\ s \notin own /\ sp[s].dirty \in BOOLEAN
    BY <1>1, <1>2, <1>3, <1>5 DEF Split
  <2>2. after(s) = [sp[s] EXCEPT !.acc = sp[s].acc, !.amount = sp[s].amount,
                                 !.dirty = sp[s].dirty]
    BY <2>1
  <2>3. after(s) = sp[s]
    BY <2>1, <2>2 DEF Split
  <2> QED BY <1>4, <2>3
<1>6. ASSUME NEW s \in Listed(t)
      PROVE  /\ Pend(sp[s], after(s))
             /\ after(s).acc # None /\ after(s).value = sp[s].value
             /\ after(s).amount = sp[s].value
  <2>1. sp[s] \in Split /\ s \in own /\ sp[s].dirty \in BOOLEAN
    BY <1>1, <1>2, Owned DEF Split
  <2>2. Orphan # None
    BY Ids DEF Accounts
  <2>3. /\ after(s).live = sp[s].live /\ after(s).parent = sp[s].parent
        /\ after(s).orig_parent = sp[s].orig_parent /\ after(s).orig_acc = sp[s].orig_acc
        /\ after(s).destroying = sp[s].destroying /\ after(s).refused = sp[s].refused
        /\ after(s).value = sp[s].value /\ after(s).amount = sp[s].value
        /\ after(s).acc = (IF s \in orphans THEN Orphan ELSE sp[s].acc)
    BY <2>1 DEF Split
  <2>4. after(s).dirty = (sp[s].dirty \/ s \in orphans \/ sp[s].amount # sp[s].value)
    BY <2>1 DEF Split
  <2>5. after(s).acc # None
    BY <1>3, <2>2, <2>3
  <2>6. after(s) = sp[s] \/ after(s).dirty
    <3>1. CASE s \in orphans \/ sp[s].amount # sp[s].value
      BY <2>4, <3>1
    <3>2. CASE s \notin orphans /\ sp[s].amount = sp[s].value
      <4>1. after(s) = [sp[s] EXCEPT !.acc = sp[s].acc, !.amount = sp[s].amount,
                                     !.dirty = sp[s].dirty]
        BY <2>1, <3>2
      <4> QED BY <2>1, <4>1 DEF Split
    <3> QED BY <3>1, <3>2
  <2> HIDE DEF after
  <2> QED BY <2>3, <2>5, <2>6 DEF Pend
<1>7. Listed(t) \in SUBSET Splits
  BY ListType
<1> HIDE DEF after
<1> QED BY <1>4, <1>5, <1>6, <1>7

LEMMA Scrubs ==
    ASSUME TypeOK, OwnInv, NEW t \in Trans, NEW b \in Balancer(t)
    PROVE  /\ Pends(t, Scrubbed(t, b), ScrubbedList(t, b))
           /\ \A s \in ToSet(ScrubbedList(t, b)) :
                /\ Scrubbed(t, b)[s].acc # None
                /\ Scrubbed(t, b)[s].amount = Scrubbed(t, b)[s].value
           /\ \A s \in ToSet(ScrubbedList(t, b)) \ {b} : Scrubbed(t, b)[s].value = sp[s].value
           /\ b # None => /\ b \in Splits /\ b \in ToSet(ScrubbedList(t, b))
                          /\ Scrubbed(t, b)[b].value = sp[b].value - ImbalanceValue(t)
           /\ ToSet(ScrubbedList(t, b)) = IF b = None THEN Listed(t) ELSE Listed(t) \cup {b}
<1> DEFINE scrubbed == ScrubSplits(t)
           book == Scrubbed(t, b)
           list == ScrubbedList(t, b)
           value == sp[b].value - ImbalanceValue(t)
<1>0. b \in Splits \cup {None}
  BY BalancerIs, ListType
<1>1. /\ book \in [Splits -> Split] /\ list \in Seq(Splits)
      /\ scrubbed \in [Splits -> Split] /\ ImbalanceValue(t) \in Int
  BY <1>0, ScrubbedType, ScrubType
<1>2. /\ \A s \in Splits \ Listed(t) : scrubbed[s] = sp[s]
      /\ \A s \in Listed(t) : /\ Pend(sp[s], scrubbed[s]) /\ scrubbed[s].acc # None
                              /\ scrubbed[s].value = sp[s].value
                              /\ scrubbed[s].amount = sp[s].value
  BY ScrubSplitsFacts
<1>3. /\ \A s \in Listed(t) : s \in Splits /\ sp[s] \in Split /\ sp[s].live /\ sp[s].parent = t
      /\ IsInjective(tx[t].splits) /\ tx[t].splits \in Seq(Splits)
      /\ Listed(t) = ToSet(tx[t].splits)
      /\ Len(tx[t].splits) \in Nat /\ DOMAIN tx[t].splits = 1 .. Len(tx[t].splits)
  BY Owned DEF Listed
<1>4. Imbalance # None
  BY Ids DEF Accounts
<1>5. CASE b = None
  <2>1. book = scrubbed /\ list = tx[t].splits
    BY <1>5 DEF Scrubbed, ScrubbedList
  <2>2. None \notin Listed(t)
    BY <1>3, Ids
  <2>3. \A i \in DOMAIN list : ~(i > Len(tx[t].splits))
    BY <1>3, <2>1
  <2>4. Len(tx[t].splits) <= Len(list)
    BY <1>3, <2>1
  <2> HIDE DEF book, list, scrubbed
  <2>5. Pends(t, book, list)
    BY <1>1, <1>2, <1>3, <2>1, <2>3, <2>4 DEF Pends
  <2> QED BY <1>2, <1>3, <1>5, <2>1, <2>2, <2>5 DEF book, list
<1>6. ASSUME b \in Splits
      PROVE  /\ book = [scrubbed EXCEPT ![b] = [scrubbed[b] EXCEPT
                !.live = TRUE, !.parent = t, !.acc = Imbalance,
                !.value = value, !.amount = value, !.dirty = TRUE]]
             /\ b # None /\ scrubbed[b].value = sp[b].value
  <2>1. b # None
    BY <1>6, Ids
  <2>2. scrubbed[b].value = sp[b].value
    BY <1>2, <1>6
  <2> QED BY <2>1, <2>2 DEF Scrubbed
<1>7. ASSUME b \in Splits
      PROVE  /\ \A s \in Splits \ {b} : book[s] = scrubbed[s]
             /\ book[b].live /\ book[b].parent = t /\ book[b].acc = Imbalance
             /\ book[b].value = value /\ book[b].amount = value /\ book[b].dirty
             /\ book[b].orig_parent = scrubbed[b].orig_parent
             /\ book[b].orig_acc = scrubbed[b].orig_acc
             /\ book[b].destroying = scrubbed[b].destroying
             /\ book[b].refused = scrubbed[b].refused
  <2>1. scrubbed[b] \in Split
    BY <1>1, <1>7
  <2> DEFINE x == [scrubbed[b] EXCEPT !.live = TRUE, !.parent = t, !.acc = Imbalance,
                        !.value = value, !.amount = value, !.dirty = TRUE]
  <2>2. book = [scrubbed EXCEPT ![b] = x]
    BY <1>6, <1>7
  <2> HIDE DEF scrubbed, book, value
  <2>3. /\ x.live /\ x.parent = t /\ x.acc = Imbalance
        /\ x.value = value /\ x.amount = value /\ x.dirty
        /\ x.orig_parent = scrubbed[b].orig_parent
        /\ x.orig_acc = scrubbed[b].orig_acc
        /\ x.destroying = scrubbed[b].destroying /\ x.refused = scrubbed[b].refused
    BY <2>1 DEF Split
  <2> HIDE DEF x
  <2>4. book[b] = x /\ \A s \in Splits \ {b} : book[s] = scrubbed[s]
    BY <1>1, <1>7, <2>2
  <2> QED BY <2>3, <2>4
<1>8. CASE b \in StillHas(t)
  <2>1. b \in Listed(t) /\ b \in Splits
    BY <1>3, <1>8 DEF StillHas
  <2>2. list = tx[t].splits
    BY <2>1 DEF ScrubbedList
  <2>3. \A i \in DOMAIN list : ~(i > Len(tx[t].splits))
    BY <1>3, <2>2
  <2>4. Len(tx[t].splits) <= Len(list)
    BY <1>3, <2>2
  <2>5. Pend(sp[b], book[b])
    BY <1>2, <1>3, <1>7, <2>1 DEF Pend
  <2> HIDE DEF book, list, scrubbed, value
  <2>6. Pends(t, book, list)
    BY <1>1, <1>2, <1>3, <1>7, <2>1, <2>2, <2>3, <2>4, <2>5 DEF Pends
  <2> QED BY <1>2, <1>3, <1>4, <1>6, <1>7, <2>1, <2>2, <2>6 DEF book, list, value
<1>9. CASE b \in Splits /\ Unused(b)
  <2>0. ~sp[b].live /\ ~sp[b].refused
    BY <1>9 DEF Unused
  <2>1. b \notin Listed(t) /\ b # None
    BY <1>3, <1>9, <2>0, Ids
  <2>2. list = Append(tx[t].splits, b)
    BY <2>1 DEF ScrubbedList
  <2> HIDE DEF book, list, scrubbed, value
  <2>3. /\ ToSet(list) = Listed(t) \cup {b} /\ Len(list) = Len(tx[t].splits) + 1
        /\ DOMAIN list = 1 .. Len(tx[t].splits) + 1
        /\ \A i \in DOMAIN tx[t].splits : list[i] = tx[t].splits[i]
        /\ list[Len(tx[t].splits) + 1] = b
        /\ IsInjective(list)
    BY <1>3, <1>9, <2>1, <2>2, OneMore
  <2>4. \A i \in DOMAIN list : i > Len(tx[t].splits) => list[i] = b
    <3> SUFFICES ASSUME NEW i \in DOMAIN list, i > Len(tx[t].splits)
                 PROVE  list[i] = b
      OBVIOUS
    <3>1. i = Len(tx[t].splits) + 1
      BY <1>3, <2>3
    <3> QED BY <2>3, <3>1
  <2>5. Len(tx[t].splits) <= Len(list)
    BY <1>3, <2>3
  <2>6. scrubbed[b] = NoSplit
    BY <1>2, <1>9, <2>0, <2>1, Owned DEF BookSound, SplitSound
  <2>7. /\ book[b].orig_parent = None /\ book[b].orig_acc = None /\ ~book[b].destroying
        /\ ~book[b].refused
    <3>1. /\ NoSplit.orig_parent = None /\ NoSplit.orig_acc = None
          /\ NoSplit.destroying = FALSE /\ NoSplit.refused = FALSE
      BY DEF NoSplit
    <3>2. /\ book[b].orig_parent = NoSplit.orig_parent
          /\ book[b].orig_acc = NoSplit.orig_acc
          /\ book[b].destroying = NoSplit.destroying
          /\ book[b].refused = NoSplit.refused
      BY <1>7, <1>9, <2>6
    <3> QED BY <3>1, <3>2
  <2>8. \A s \in Listed(t) : s # b /\ book[s] = scrubbed[s]
    BY <1>3, <1>7, <1>9, <2>1
  <2>9. \A s \in Splits \ ToSet(list) : book[s] = sp[s]
    BY <1>2, <1>7, <1>9, <2>3
  <2>10. Pends(t, book, list)
    BY <1>1, <1>2, <1>7, <1>9, <2>0, <2>1, <2>3, <2>4, <2>5, <2>7, <2>8, <2>9 DEF Pends
  <2>11. \A s \in ToSet(list) : book[s].acc # None /\ book[s].amount = book[s].value
    BY <1>2, <1>4, <1>7, <1>9, <2>3, <2>8
  <2>12. \A s \in ToSet(list) \ {b} : book[s].value = sp[s].value
    BY <1>2, <2>3, <2>8
  <2>13. book[b].value = sp[b].value - ImbalanceValue(t)
    BY <1>7, <1>9 DEF value
  <2> QED BY <1>9, <2>1, <2>3, <2>10, <2>11, <2>12, <2>13 DEF book, list
<1> QED BY <1>5, <1>8, <1>9, BalancerIs

\* The splits that stay sum to zero.
LEMMA Balances ==
    ASSUME TypeOK, OwnInv, NEW t \in Trans, NEW b \in Balancer(t)
    PROVE  Sum({s \in ToSet(ScrubbedList(t, b)) : ~Scrubbed(t, b)[s].destroying},
               ValueIn(Scrubbed(t, b))) = 0
<1> DEFINE book == Scrubbed(t, b)
           list == ScrubbedList(t, b)
           S == StillHas(t)
           T == {s \in ToSet(list) : ~book[s].destroying}
           m == ImbalanceValue(t)
<1>1. /\ Pends(t, book, list)
      /\ \A s \in ToSet(list) \ {b} : book[s].value = sp[s].value
      /\ b # None => /\ b \in Splits /\ b \in ToSet(list) /\ book[b].value = sp[b].value - m
      /\ ToSet(list) = IF b = None THEN Listed(t) ELSE Listed(t) \cup {b}
  BY Scrubs
<1>2. /\ sp \in [Splits -> Split] /\ book \in [Splits -> Split] /\ S \in SUBSET Splits
      /\ Sum(S, ValueIn(sp)) = m /\ m \in Int
  BY <1>1, Owned, ListType, ScrubType DEF Pends, ImbalanceValue
<1>3. /\ \A s \in Listed(t) : s \in Splits /\ (s \in S <=> ~book[s].destroying)
      /\ S \subseteq Listed(t)
  BY <1>1, Owned DEF Pends, Pend, StillHas
<1>4. ValueIn(sp) \in [Splits -> Int] /\ ValueIn(book) \in [Splits -> Int]
  BY <1>2, Numbers
<1> HIDE DEF book, list, S, m
<1>5. CASE b = None /\ m = 0
  <2>1. T = S
    BY <1>1, <1>3, <1>5
  <2>2. \A s \in S : ValueIn(sp)[s] = ValueIn(book)[s]
    BY <1>1, <1>2, <1>3, <1>5, Ids DEF ValueIn
  <2>3. Sum(S, ValueIn(sp)) = Sum(S, ValueIn(book))
    BY <2>2, SumSame
  <2> QED BY <1>2, <1>5, <2>1, <2>3 DEF book, list
<1>6. CASE b \in Splits /\ b # None /\ (b \in S \/ (b \notin S /\ Unused(b)))
  <2>1. ~book[b].destroying
    <3>1. CASE b \in S
      BY <1>3, <3>1
    <3>2. CASE b \notin S /\ Unused(b)
      <4>1. b \notin Listed(t)
        BY <3>2, Owned DEF Unused
      <4> QED BY <1>1, <1>6, <4>1 DEF Pends
    <3> QED BY <1>6, <3>1, <3>2
  <2>2. T = S \cup {b}
    BY <1>1, <1>3, <1>6, <2>1
  <2>3. \A s \in S \ {b} : ValueIn(sp)[s] = ValueIn(book)[s]
    BY <1>1, <1>2, <1>3, <1>6 DEF ValueIn
  <2> HIDE DEF T
  <2>4. Sum(T, ValueIn(book)) = Sum(S, ValueIn(sp)) + ValueIn(book)[b]
                                  - (IF b \in S THEN ValueIn(sp)[b] ELSE 0)
    BY <1>2, <1>4, <1>6, <2>2, <2>3, SumOneMore
  <2>5. ValueIn(book)[b] = sp[b].value - m /\ ValueIn(sp)[b] = sp[b].value
        /\ sp[b].value \in Int
    BY <1>1, <1>2, <1>6 DEF ValueIn, Split
  <2>6. b \notin S => sp[b].value = 0
    <3>1. NoSplit.value = 0
      BY DEF NoSplit
    <3> QED BY <1>6, <3>1, Owned DEF BookSound, SplitSound, Unused
  <2>7. Sum(T, ValueIn(book)) = 0
    BY <1>2, <2>4, <2>5, <2>6
  <2> QED BY <2>7 DEF T, book, list
<1>7. b \in S => b # None
  BY <1>2, Ids
<1>8. b \in Splits /\ Unused(b) => b # None /\ b \notin S
  BY <1>3, Owned, Ids DEF Unused
<1> QED BY <1>2, <1>5, <1>6, <1>7, <1>8, BalancerIs DEF S, m

-----------------------------------------------------------------------------
(* What a commit that is accepted leaves.                                  *)

Inv ==
    /\ TypeOK /\ OwnInv /\ ScrubInv
    /\ ~Clears => FrontInv
    /\ ~Rollbacks => BalInv

LEMMA CommitStep ==
    ASSUME Inv, TypeOK', NEW t \in Trans, NEW b \in Splits \cup {None}, Commit(t, b)
    PROVE  Inv'
<1> USE DEF Inv
<1> DEFINE book == Scrubbed(t, b)
           list == ScrubbedList(t, b)
           all  == ToSet(list)
           changed == {s \in all : book[s].dirty}
           stays == {s \in all : ~book[s].destroying}
<1>0. b \in Balancer(t)
  BY DEF Commit
<1>1. /\ Pends(t, book, list)
      /\ \A s \in all : book[s].acc # None /\ book[s].amount = book[s].value
  BY <1>0, Scrubs
<1>2. Sum(stays, ValueIn(book)) = 0
  BY <1>0, Balances
<1>3. Accepted(t, book, list)
  BY CommitAccepted
<1> HIDE DEF book, list
<1>4. /\ BookSound(book) /\ all \subseteq Splits
      /\ \A s \in Splits : s \in all <=> book[s].live /\ book[s].parent = t
  BY <1>1, PendsSound
<1>5. \A s \in all : /\ book[s].live /\ book[s].parent = t /\ SplitSound(book[s])
                     /\ book[s].destroying => book[s].dirty
  BY <1>4 DEF BookSound, SplitSound
<1>6. CommitSplits(list, changed, book)
  <2>1. changed = {s \in {s \in all : book[s].dirty} : book[s].parent = t}
    BY <1>5
  <2> QED BY <1>3, <2>1 DEF Accepted
<1>7. PICK kept \in Seq(Splits) :
        /\ IsInjective(kept) /\ ToSet(kept) = stays
        /\ tx' = [tx EXCEPT ![t].editlevel = 0, ![t].orig = <<>>, ![t].splits = kept]
  <2>1. stays = {s \in all : s \in {r \in all : book[r].dirty} =>
                        book[s].parent = t /\ ~book[s].destroying}
    BY <1>5
  <2> QED BY <1>3, <2>1 DEF Accepted
<1>8. /\ tx'[t].editlevel = 0 /\ tx'[t].orig = <<>> /\ tx'[t].splits = kept /\ ~Open(t)'
      /\ \A u \in Trans \ {t} : tx'[u] = tx[u]
  BY <1>7 DEF TypeOK, Transaction, Open
<1>9. changed \in SUBSET Splits /\ \A s \in changed : book[s].live
  BY <1>4, <1>5
<1> HIDE DEF all, stays, changed
<1>10. /\ \A a \in Accounts, s \in Splits :
             s \in ac'[a].splits <=> sp'[s].live /\ sp'[s].orig_acc = a
       /\ \A s \in Splits : SplitSound(sp'[s])
       /\ \A s \in Splits \ changed : sp'[s] = book[s]
       /\ \A s \in changed : book[s].destroying => ~sp'[s].live
       /\ \A s \in changed : ~book[s].destroying =>
                /\ sp'[s].live /\ sp'[s].parent = book[s].parent /\ sp'[s].acc = book[s].acc
                /\ sp'[s].value = book[s].value /\ sp'[s].amount = book[s].amount
                /\ sp'[s].dirty => sp'[s].refused
                /\ ~sp'[s].destroying /\ sp'[s].orig_acc = sp'[s].acc
  BY <1>4, <1>6, <1>9, CommitFacts
<1>11. \A s \in stays :
         /\ s \in Splits /\ sp'[s].live /\ sp'[s].parent = t /\ sp'[s].acc # None
         /\ sp'[s].acc = sp'[s].orig_acc /\ sp'[s].amount = sp'[s].value
         /\ sp'[s].dirty => sp'[s].refused
         /\ ~sp'[s].destroying /\ sp'[s].value = book[s].value
  <2> SUFFICES ASSUME NEW s \in stays
               PROVE  /\ s \in Splits /\ sp'[s].live /\ sp'[s].parent = t /\ sp'[s].acc # None
                      /\ sp'[s].acc = sp'[s].orig_acc /\ sp'[s].amount = sp'[s].value
                      /\ sp'[s].dirty => sp'[s].refused
                      /\ ~sp'[s].destroying /\ sp'[s].value = book[s].value
    OBVIOUS
  <2>1. s \in all /\ ~book[s].destroying /\ s \in Splits
    BY <1>4 DEF stays
  <2>2. CASE s \in changed
    BY <1>1, <1>5, <1>10, <2>1, <2>2
  <2>3. CASE s \notin changed
    <3>1. sp'[s] = book[s] /\ ~book[s].dirty
      BY <1>10, <2>1, <2>3 DEF changed
    <3> QED BY <1>1, <1>5, <2>1, <3>1 DEF SplitSound
  <2> QED BY <2>2, <2>3
<1>12. \A s \in all \ stays : ~sp'[s].live
  BY <1>5, <1>10 DEF changed, stays
<1>13. \A s \in Splits \ all : sp'[s] = sp[s]
  BY <1>1, <1>10 DEF Pends, changed, all
<1>14. Confined(t, all)
  <2>1. \A s \in all : s \in Listed(t) \/ ~sp[s].live
    BY <1>1 DEF Pends, all
  <2> QED BY <1>4, <1>8, <1>13, <2>1 DEF Confined
<1>15. stays \subseteq all
  BY DEF stays
<1>16. OwnInv'
  <2>1. \A s \in all : SplitSound(sp'[s]) /\ (sp'[s].live => sp'[s].parent = t)
    BY <1>4, <1>10, <1>11, <1>12
  <2>2. IsInjective(tx'[t].splits) /\ tx'[t].orig = <<>>
    BY <1>7, <1>8
  <2>3. \A s \in Splits : s \in ToSet(tx'[t].splits) <=> sp'[s].live /\ sp'[s].parent = t
    <3>1. \A s \in Splits \ all : ~(sp'[s].live /\ sp'[s].parent = t)
      <4>1. \A s \in Splits \ all : book[s] = sp'[s]
        BY <1>10 DEF changed
      <4> QED BY <1>4, <4>1
    <3> QED BY <1>4, <1>7, <1>8, <1>11, <1>12, <1>15, <3>1
  <2>4. \A s \in ToSet(tx'[t].splits) : sp'[s].dirty => sp'[s].refused
    BY <1>7, <1>8, <1>11
  <2> QED BY <1>10, <1>14, <2>1, <2>2, <2>3, <2>4, OwnStep
<1>17. ScrubInv'
  <2>1. Sum(stays, ValueIn(sp')) = 0
    <3>1. \A s \in stays : ValueIn(book)[s] = ValueIn(sp')[s]
      BY <1>11 DEF ValueIn
    <3> QED BY <1>2, <3>1, SumSame
  <2>2. InOrder(tx'[t].splits, sp')
    BY <1>7, <1>8, <1>11, <2>1 DEF InOrder
  <2> QED BY <1>8, <1>14, <2>2, ScrubStep
<1>18. ASSUME ~Clears
       PROVE  FrontInv'
  BY <1>8, <1>14, <1>18, FrontStep
<1>19. ASSUME ~Rollbacks
       PROVE  BalInv'
  <2>1. \A s \in Splits \ changed : book[s].dirty = sp[s].dirty /\ book[s].amount = sp[s].amount
    <3>1. \A s \in Splits \ all : book[s] = sp[s]
      BY <1>1 DEF Pends, all
    <3>2. \A s \in all \ changed : ~book[s].dirty /\ book[s] = sp[s]
      BY <1>1 DEF Pends, Pend, all, changed
    <3> QED BY <3>1, <3>2
  <2> QED BY <1>4, <1>6, <1>9, <1>19, <2>1, CommitBalance
<1> QED BY <1>16, <1>17, <1>18, <1>19

-----------------------------------------------------------------------------
(* Rollbacks.                                                              *)

\* The split that x is when it is put back to the original d of a split of t.
PutBack(x, t, d) ==
    /\ x.live /\ x.parent = t /\ x.orig_parent = t
    /\ x.acc = d.acc /\ x.orig_acc = d.acc
    /\ x.value = d.value /\ x.amount = d.amount
    /\ ~x.dirty /\ ~x.destroying

\* What a rollback leaves: the splits of the original alone, put back.
Restored(t, list) ==
    /\ DOMAIN tx'[t].splits = DOMAIN tx[t].orig
    /\ \A i \in DOMAIN tx[t].orig :
         /\ tx'[t].splits[i] = tx[t].orig[i].guid /\ i \in DOMAIN list
         /\ list[i] = tx[t].orig[i].guid
         /\ PutBack(sp'[list[i]], t, tx[t].orig[i])
    /\ \A i \in DOMAIN list : i \notin DOMAIN tx[t].orig => sp'[list[i]] = NoSplit

LEMMA FrontPends ==
    ASSUME TypeOK, OwnInv, NEW t \in Trans, FrontOf(t, sp, tx[t].splits),
           NEW book, NEW list, Pends(t, book, list)
    PROVE  FrontOf(t, book, list)
<1> DEFINE n == Len(tx[t].orig)
           m == Len(tx[t].splits)
<1>1. /\ n \in Nat /\ m \in Nat /\ DOMAIN tx[t].splits = 1 .. m /\ Len(list) \in Nat
      /\ DOMAIN list = 1 .. Len(list) /\ m <= Len(list) /\ n <= m
  BY ListType DEF Pends, FrontOf
<1>2. ASSUME NEW i \in DOMAIN list, i <= m
      PROVE  /\ i \in DOMAIN tx[t].splits /\ list[i] = tx[t].splits[i]
             /\ Pend(sp[list[i]], book[list[i]])
  <2>1. i \in DOMAIN tx[t].splits
    BY <1>1, <1>2
  <2>2. list[i] = tx[t].splits[i] /\ list[i] \in Listed(t)
    BY <2>1 DEF Pends, Listed, ToSet
  <2> QED BY <2>1, <2>2 DEF Pends
<1>3. ASSUME NEW i \in DOMAIN list, ~(i <= m)
      PROVE  /\ ~(i <= n) /\ book[list[i]].orig_parent = None
             /\ book[list[i]].orig_acc = None /\ book[list[i]].dirty
  <2>1. i > m /\ ~(i <= n)
    BY <1>1, <1>3
  <2>2. list[i] \in ToSet(list) \ Listed(t)
    BY <2>1 DEF Pends, ToSet
  <2> QED BY <2>1, <2>2 DEF Pends
<1>4. ASSUME NEW i \in DOMAIN list, i <= n
      PROVE  /\ list[i] = tx[t].orig[i].guid
             /\ book[list[i]].orig_parent = t
             /\ book[list[i]].orig_acc = tx[t].orig[i].acc
             /\ ~book[list[i]].dirty =>
                   /\ book[list[i]].value = tx[t].orig[i].value
                   /\ book[list[i]].amount = tx[t].orig[i].amount
  <2>1. i <= m
    BY <1>1, <1>4
  <2>2. /\ i \in DOMAIN tx[t].splits /\ list[i] = tx[t].splits[i]
        /\ Pend(sp[list[i]], book[list[i]])
    BY <1>2, <2>1
  <2> QED BY <1>4, <2>2 DEF FrontOf, Pend
<1>5. ASSUME NEW i \in DOMAIN list, ~(i <= n)
      PROVE  /\ book[list[i]].orig_parent = None /\ book[list[i]].orig_acc = None
             /\ book[list[i]].dirty
  <2>1. CASE i <= m
    <3>1. /\ i \in DOMAIN tx[t].splits /\ list[i] = tx[t].splits[i]
          /\ Pend(sp[list[i]], book[list[i]])
      BY <1>2, <2>1
    <3> QED BY <1>5, <3>1 DEF FrontOf, Pend
  <2>2. CASE ~(i <= m)
    BY <1>3, <2>2
  <2> QED BY <2>1, <2>2
<1>6. n <= Len(list)
  BY <1>1
<1> QED BY <1>4, <1>5, <1>6 DEF FrontOf

LEMMA RestoreFacts ==
    ASSUME TypeOK, OwnInv, NEW t \in Trans, NEW book, NEW list,
           Pends(t, book, list), FrontOf(t, book, list), Restore(t, book, list)
    PROVE  /\ Restored(t, list) /\ ac' = ac
           /\ tx'[t].editlevel = 0 /\ tx'[t].orig = <<>>
           /\ IsInjective(tx'[t].splits)
           /\ \A u \in Trans \ {t} : tx'[u] = tx[u]
           /\ \A s \in Splits \ ToSet(list) : sp'[s] = sp[s]
<1> DEFINE dirty == {i \in DOMAIN list : book[list[i]].dirty}
           new   == {list[i] : i \in {j \in dirty : j > Len(tx[t].orig)}}
           n == Len(tx[t].orig)
<1>1. PICK left \in Those(list, Splits \ new) :
        /\ sp' = [s \in Splits |->
                IF \E i \in dirty : list[i] = s
                THEN RolledBack(t, book, list,
                                CHOOSE i \in dirty : list[i] = s)
                ELSE book[s]]
        /\ tx' = [tx EXCEPT ![t].editlevel = 0, ![t].orig = <<>>,
                              ![t].destroying = FALSE, ![t].splits = left]
        /\ ac' = ac
  BY DEF Restore
<1>2. /\ book \in [Splits -> Split] /\ list \in Seq(Splits) /\ IsInjective(list)
      /\ \A s \in Splits \ ToSet(list) : book[s] = sp[s]
      /\ \A i \in DOMAIN list : list[i] \in Splits
      /\ DOMAIN list = 1 .. Len(list) /\ Len(list) \in Nat
      /\ n \in Nat /\ DOMAIN tx[t].orig = 1 .. n /\ n <= Len(list)
  BY ListType DEF Pends, FrontOf
<1>3. /\ BookSound(book)
      /\ \A i \in DOMAIN list : book[list[i]].live /\ book[list[i]].parent = t
                                /\ SplitSound(book[list[i]])
  <2>1. \A i \in DOMAIN list : list[i] \in ToSet(list)
    BY DEF ToSet
  <2> QED BY <1>2, <2>1, PendsSound DEF BookSound
<1>4. ASSUME NEW i \in DOMAIN list
      PROVE  sp'[list[i]] = IF book[list[i]].dirty THEN RolledBack(t, book, list, i)
                            ELSE book[list[i]]
  <2>1. \A j \in dirty : list[j] = list[i] => j = i
    BY <1>2 DEF IsInjective
  <2>2. CASE i \in dirty
    <3>1. (CHOOSE j \in dirty : list[j] = list[i]) = i
      BY <2>1, <2>2
    <3> HIDE DEF dirty
    <3>2. sp'[list[i]] = RolledBack(t, book, list, CHOOSE j \in dirty : list[j] = list[i])
      BY <1>1, <1>2, <2>2
    <3> QED BY <2>2, <3>1, <3>2 DEF dirty
  <2>3. CASE i \notin dirty
    <3>1. ~ \E j \in dirty : list[j] = list[i]
      BY <2>1, <2>3
    <3> HIDE DEF dirty
    <3>2. sp'[list[i]] = book[list[i]]
      BY <1>1, <1>2, <3>1
    <3> QED BY <2>3, <3>2 DEF dirty
  <2> QED BY <2>2, <2>3
<1>5. \A i \in DOMAIN list : ~(i <= n) => book[list[i]].dirty
  BY DEF FrontOf
<1>6. \A i \in DOMAIN list : list[i] \in Splits \ new <=> i <= n
  <2> SUFFICES ASSUME NEW i \in DOMAIN list
               PROVE  list[i] \in new <=> ~(i <= n)
    BY <1>2
  <2>1. \A j \in DOMAIN list : j > n <=> ~(j <= n)
    BY <1>2
  <2>2. \A j \in DOMAIN list : list[i] = list[j] => i = j
    BY <1>2 DEF IsInjective
  <2> QED BY <1>5, <2>1, <2>2
<1>7. n \in 0 .. Len(list)
  BY <1>2
<1> DEFINE S == Splits \ new
<1> HIDE DEF dirty, new, n
<1>8. DOMAIN left = 1 .. n /\ \A i \in 1 .. n : left[i] = list[i]
  <2>1. left \in Those(list, S) /\ OfFront(S, list, n)
    BY <1>6 DEF OfFront
  <2> HIDE DEF S
  <2>2. IsFrontOf(left, list, n)
    BY <1>2, <1>7, <2>1, FrontOnly
  <2> QED BY <2>2 DEF IsFrontOf
<1>9. IsInjective(left)
  BY <1>2, ThoseAre
<1>10. /\ tx'[t].editlevel = 0 /\ tx'[t].orig = <<>> /\ tx'[t].splits = left
       /\ \A u \in Trans \ {t} : tx'[u] = tx[u]
  BY <1>1 DEF TypeOK, Transaction
<1>11. ASSUME NEW i \in DOMAIN list, i <= n
       PROVE  PutBack(sp'[list[i]], t, tx[t].orig[i])
  <2>1. /\ book[list[i]] \in Split /\ book[list[i]].live /\ book[list[i]].parent = t
        /\ SplitSound(book[list[i]])
    BY <1>2, <1>3
  <2>2. /\ book[list[i]].orig_parent = t
        /\ book[list[i]].orig_acc = tx[t].orig[i].acc
        /\ ~book[list[i]].dirty =>
             /\ book[list[i]].value = tx[t].orig[i].value
             /\ book[list[i]].amount = tx[t].orig[i].amount
    BY <1>11 DEF FrontOf, n
  <2>3. CASE book[list[i]].dirty
    <3>1. sp'[list[i]] = [book[list[i]] EXCEPT !.acc = book[list[i]].orig_acc,
            !.parent = book[list[i]].orig_parent, !.destroying = FALSE,
            !.value = tx[t].orig[i].value, !.amount = tx[t].orig[i].amount,
            !.dirty = FALSE]
      BY <1>4, <1>11, <2>3 DEF RolledBack, n
    <3> DEFINE x == book[list[i]]
               y == [x EXCEPT !.acc = x.orig_acc,
                       !.parent = x.orig_parent, !.destroying = FALSE,
                       !.value = tx[t].orig[i].value, !.amount = tx[t].orig[i].amount,
                       !.dirty = FALSE]
    <3> HIDE DEF x
    <3>2. x \in Split
      BY <2>1 DEF x
    <3>3. /\ y.live = x.live /\ y.parent = x.orig_parent /\ y.orig_parent = x.orig_parent
          /\ y.acc = x.orig_acc /\ y.orig_acc = x.orig_acc
          /\ y.value = tx[t].orig[i].value /\ y.amount = tx[t].orig[i].amount
          /\ y.dirty = FALSE /\ y.destroying = FALSE
      BY <3>2 DEF Split
    <3>4. sp'[list[i]] = y
      BY <3>1 DEF x
    <3> HIDE DEF y
    <3> QED BY <2>1, <2>2, <3>3, <3>4 DEF PutBack, x
  <2>4. CASE ~book[list[i]].dirty
    <3>1. sp'[list[i]] = book[list[i]]
      BY <1>4, <2>4
    <3> QED BY <2>1, <2>2, <2>4, <3>1 DEF PutBack, SplitSound
  <2> QED BY <2>3, <2>4
<1>12. ASSUME NEW i \in DOMAIN list, ~(i <= n)
       PROVE  sp'[list[i]] = NoSplit
  BY <1>4, <1>5, <1>12 DEF RolledBack, n
<1>13. ASSUME NEW i \in DOMAIN tx[t].orig
       PROVE  /\ i \in DOMAIN list /\ i <= n /\ i \in 1 .. n
              /\ list[i] = tx[t].orig[i].guid
  <2>1. i \in DOMAIN list /\ i <= n /\ i \in 1 .. n
    BY <1>2
  <2> QED BY <2>1 DEF FrontOf, n
<1>14. \A i \in DOMAIN list : i \notin DOMAIN tx[t].orig => ~(i <= n)
  BY <1>2
<1>15. Restored(t, list)
  BY <1>2, <1>8, <1>10, <1>11, <1>12, <1>13, <1>14 DEF Restored
<1>16. \A s \in Splits \ ToSet(list) : sp'[s] = sp[s]
  <2>1. \A s \in Splits \ ToSet(list) : ~ \E i \in dirty : list[i] = s
    BY DEF dirty, ToSet
  <2> QED BY <1>1, <1>2, <2>1
<1> QED BY <1>1, <1>9, <1>10, <1>15, <1>16

LEMMA RestoreStep ==
    ASSUME Inv, ~Clears, Rollbacks, TypeOK', NEW t \in Trans, Open(t), NEW book, NEW list,
           Pends(t, book, list), Restore(t, book, list)
    PROVE  Inv' /\ \A o \in {tx[t].orig} : IsBackTo(t, o)'
<1> USE DEF Inv
<1> DEFINE orig == tx[t].orig
           kept == tx'[t].splits
<1>1. FrontOf(t, book, list)
  BY FrontPends DEF FrontInv
<1>2. /\ Restored(t, list) /\ ac' = ac
      /\ tx'[t].editlevel = 0 /\ tx'[t].orig = <<>>
      /\ IsInjective(tx'[t].splits)
      /\ \A u \in Trans \ {t} : tx'[u] = tx[u]
      /\ \A s \in Splits \ ToSet(list) : sp'[s] = sp[s]
  BY <1>1, RestoreFacts
<1>3. /\ BookSound(book) /\ ToSet(list) \subseteq Splits
      /\ \A s \in Splits : s \in ToSet(list) <=> book[s].live /\ book[s].parent = t
      /\ \A s \in Splits \ ToSet(list) : book[s] = sp[s]
      /\ IsInjective(list)
  BY PendsSound DEF Pends
<1>4. /\ DOMAIN orig = 1 .. Len(orig) /\ Len(orig) \in Nat
      /\ DOMAIN list = 1 .. Len(list) /\ Len(orig) <= Len(list) /\ Len(list) \in Nat
  BY <1>1, ListType DEF FrontOf, Pends
<1>5. \A i \in DOMAIN orig : /\ kept[i] = orig[i].guid /\ list[i] = orig[i].guid
                             /\ i \in DOMAIN list
                             /\ orig[i].guid \in ToSet(list) /\ orig[i].guid \in Splits
                             /\ PutBack(sp'[orig[i].guid], t, orig[i])
                             /\ book[orig[i].guid].orig_acc = orig[i].acc
                             /\ book[orig[i].guid].live
  <2> SUFFICES ASSUME NEW i \in DOMAIN orig
               PROVE  /\ kept[i] = orig[i].guid /\ list[i] = orig[i].guid
                      /\ i \in DOMAIN list
                      /\ orig[i].guid \in ToSet(list) /\ orig[i].guid \in Splits
                      /\ PutBack(sp'[orig[i].guid], t, orig[i])
                      /\ book[orig[i].guid].orig_acc = orig[i].acc
                      /\ book[orig[i].guid].live
    OBVIOUS
  <2>1. /\ kept[i] = orig[i].guid /\ list[i] = orig[i].guid
        /\ i \in DOMAIN list /\ PutBack(sp'[list[i]], t, orig[i])
    BY <1>2 DEF Restored
  <2>2. list[i] \in ToSet(list) /\ i <= Len(orig)
    BY <1>4, <2>1 DEF ToSet
  <2>3. book[list[i]].orig_acc = orig[i].acc
    BY <1>1, <2>1, <2>2 DEF FrontOf
  <2> QED BY <1>3, <2>1, <2>2, <2>3
<1>6. ToSet(kept) = OrigSet(t)
  BY <1>2, <1>5 DEF Restored, ToSet, OrigSet
<1>7. ASSUME NEW s \in ToSet(list)
      PROVE  \/ \E i \in DOMAIN orig : s = orig[i].guid
             \/ s \notin ToSet(kept) /\ sp'[s] = NoSplit /\ book[s].orig_acc = None
  <2>1. PICK i \in DOMAIN list : s = list[i]
    BY <1>7 DEF ToSet
  <2>2. CASE i \in DOMAIN orig
    BY <1>5, <2>1, <2>2
  <2>3. CASE i \notin DOMAIN orig
    <3>1. sp'[s] = NoSplit
      BY <1>2, <2>1, <2>3 DEF Restored
    <3>2. book[s].orig_acc = None
      <4>1. ~(i <= Len(orig))
        BY <1>4, <2>3
      <4> QED BY <1>1, <2>1, <4>1 DEF FrontOf
    <3>3. \A j \in DOMAIN orig : orig[j].guid # s
      BY <1>3, <1>5, <2>1, <2>3 DEF IsInjective
    <3> QED BY <1>6, <3>1, <3>2, <3>3 DEF OrigSet
  <2> QED BY <2>2, <2>3
<1>8. ~NoSplit.live /\ NoSplit = NoSplit /\ ~NoSplit.destroying /\ NoSplit.acc = NoSplit.orig_acc
  BY DEF NoSplit
<1> HIDE DEF kept, orig
<1>9. Confined(t, ToSet(list))
  <2>1. \A s \in ToSet(list) : s \in Listed(t) \/ ~sp[s].live
    BY DEF Pends
  <2> QED BY <1>2, <1>3, <2>1 DEF Confined
<1>10. ~Open(t)' /\ tx'[t].orig = <<>> /\ tx'[t].splits = kept
  BY <1>2 DEF Open, kept
<1>11. \A s \in ToSet(kept) : /\ s \in ToSet(list) /\ \E i \in DOMAIN orig : s = orig[i].guid
  BY <1>5, <1>6 DEF OrigSet, orig
<1>12. \A a \in Accounts, s \in Splits :
         s \in ac'[a].splits <=> sp'[s].live /\ sp'[s].orig_acc = a
  <2> SUFFICES ASSUME NEW a \in Accounts, NEW s \in Splits
               PROVE  s \in ac[a].splits <=> sp'[s].live /\ sp'[s].orig_acc = a
    BY <1>2
  <2>1. s \in ac[a].splits <=> book[s].live /\ book[s].orig_acc = a
    BY <1>3 DEF BookSound
  <2>2. CASE s \notin ToSet(list)
    BY <1>2, <1>3, <2>1, <2>2
  <2>3. CASE s \in ToSet(list) /\ \E i \in DOMAIN orig : s = orig[i].guid
    BY <1>5, <2>1, <2>3 DEF PutBack
  <2>4. CASE s \in ToSet(list) /\ sp'[s] = NoSplit /\ book[s].orig_acc = None
    <3>1. a # None
      BY Ids
    <3> QED BY <1>8, <2>1, <2>4, <3>1
  <2> QED BY <1>7, <2>2, <2>3, <2>4
<1>13. OwnInv'
  <2>1. \A s \in ToSet(list) : SplitSound(sp'[s]) /\ (sp'[s].live => sp'[s].parent = t)
    <3>1. \A d, x : PutBack(x, t, d) => SplitSound(x) /\ x.parent = t
      BY DEF PutBack, SplitSound
    <3>2. SplitSound(NoSplit)
      BY <1>8 DEF SplitSound
    <3> QED BY <1>5, <1>7, <1>8, <3>1, <3>2
  <2>2. IsInjective(tx'[t].splits)
    BY <1>2
  <2>3. \A s \in Splits : s \in ToSet(tx'[t].splits) <=> sp'[s].live /\ sp'[s].parent = t
    <3> SUFFICES ASSUME NEW s \in Splits
                 PROVE  s \in ToSet(kept) <=> sp'[s].live /\ sp'[s].parent = t
      BY <1>10
    <3>1. CASE s \notin ToSet(list)
      BY <1>2, <1>3, <1>11, <3>1
    <3>2. CASE s \in ToSet(list) /\ \E i \in DOMAIN orig : s = orig[i].guid
      <4>1. s \in ToSet(kept)
        BY <1>6, <3>2 DEF OrigSet, orig
      <4> QED BY <1>5, <3>2, <4>1 DEF PutBack
    <3>3. CASE s \notin ToSet(kept) /\ sp'[s] = NoSplit
      BY <1>8, <3>3
    <3> QED BY <1>7, <3>1, <3>2, <3>3
  <2>4. \A s \in ToSet(tx'[t].splits) : ~sp'[s].dirty
    BY <1>5, <1>10, <1>11 DEF PutBack
  <2> QED BY <1>9, <1>10, <1>12, <2>1, <2>2, <2>3, <2>4, OwnStep
<1>14. OrigScrubbed(t)
  BY DEF ScrubInv
<1>15. \A i \in DOMAIN orig : OrigOf(t, orig[i].guid) = orig[i]
  <2> SUFFICES ASSUME NEW i \in DOMAIN orig
               PROVE  OrigOf(t, orig[i].guid) = orig[i]
    OBVIOUS
  <2>1. \A j \in DOMAIN orig : orig[j].guid = orig[i].guid => j = i
    BY <1>3, <1>5 DEF IsInjective
  <2> QED BY <2>1 DEF OrigOf, orig
<1>16. InOrder(kept, sp')
  <2>1. \A s \in ToSet(kept) :
          [r \in Splits |-> OrigOf(t, r).value][s] = ValueIn(sp')[s]
    <3> SUFFICES ASSUME NEW i \in DOMAIN orig
                 PROVE  [r \in Splits |-> OrigOf(t, r).value][orig[i].guid]
                           = ValueIn(sp')[orig[i].guid]
      BY <1>11
    <3>1. orig[i].guid \in Splits /\ PutBack(sp'[orig[i].guid], t, orig[i])
      BY <1>5
    <3> QED BY <1>15, <3>1 DEF ValueIn, PutBack
  <2>2. Sum(ToSet(kept), ValueIn(sp')) = 0
    <3>1. Sum(ToSet(kept), [r \in Splits |-> OrigOf(t, r).value]) = 0
      BY <1>6, <1>14 DEF OrigScrubbed
    <3> QED BY <2>1, <3>1, SumSame
  <2>3. \A i \in DOMAIN orig : orig[i].acc # None /\ orig[i].amount = orig[i].value
    BY <1>14 DEF OrigScrubbed, orig
  <2> QED BY <1>5, <1>11, <2>2, <2>3 DEF InOrder, PutBack
<1>17. ScrubInv'
  BY <1>9, <1>10, <1>16, ScrubStep
<1>18. FrontInv'
  BY <1>9, <1>10, FrontStep
<1>19. Inv'
  BY <1>13, <1>17, <1>18
<1>20. ASSUME NEW o \in {tx[t].orig}
       PROVE  IsBackTo(t, o)'
  <2>0. o = orig
    BY DEF orig
  <2>1. kept = [i \in DOMAIN orig |-> orig[i].guid]
    <3>1. kept \in Seq(Splits)
      BY <1>10 DEF TypeOK, Transaction
    <3>2. DOMAIN kept = DOMAIN orig /\ \A i \in DOMAIN orig : kept[i] = orig[i].guid
      BY <1>2, <1>5 DEF Restored, kept, orig
    <3> QED BY <3>1, <3>2
  <2>2. ASSUME NEW i \in DOMAIN orig, NEW s, s = orig[i].guid
        PROVE  /\ sp'[s].live /\ sp'[s].parent = t
               /\ <<sp'[s].acc, sp'[s].value, sp'[s].amount>>
                    = <<orig[i].acc, orig[i].value, orig[i].amount>>
               /\ ~sp'[s].dirty /\ ~sp'[s].destroying
               /\ \A a \in Accounts : s \in ac'[a].splits <=> a = orig[i].acc
    <3>1. s \in Splits /\ PutBack(sp'[s], t, orig[i])
      BY <1>5, <2>2
    <3>2. \A a \in Accounts : s \in ac'[a].splits <=> a = orig[i].acc
      BY <1>12, <3>1 DEF PutBack
    <3> QED BY <3>1, <3>2 DEF PutBack
  <2> QED BY <1>10, <2>0, <2>1, <2>2 DEF IsBackTo
<1> QED BY <1>19, <1>20

-----------------------------------------------------------------------------
(* Splits cleared.                                                         *)

LEMMA ClearedFacts ==
    ASSUME Inv, NEW t \in Trans, Cleared(t, sp)
    PROVE  /\ \A a \in Accounts, s \in Splits :
                s \in ac'[a].splits <=> sp'[s].live /\ sp'[s].orig_acc = a
           /\ \A s \in Listed(t) : ~sp'[s].live /\ SplitSound(sp'[s])
           /\ \A s \in Splits \ Listed(t) : sp'[s] = sp[s]
           /\ ~Rollbacks => BalInv'
<1> USE DEF Inv
<1> DEFINE own == {s \in Listed(t) : sp[s].parent = t}
           book == [s \in Splits |->
                      IF s \in own
                      THEN [sp[s] EXCEPT !.destroying = TRUE, !.dirty = TRUE]
                      ELSE sp[s]]
<1>1. /\ own = Listed(t) /\ BookSound(sp) /\ Listed(t) \in SUBSET Splits
      /\ \A s \in Listed(t) : sp[s] \in Split /\ sp[s].live
  BY Owned, ListType
<1>2. CommitSplits(tx[t].splits, own, book)
  BY DEF Cleared
<1>3. /\ \A s \in Splits \ own : book[s] = sp[s]
      /\ \A s \in own : book[s] = [sp[s] EXCEPT !.destroying = TRUE, !.dirty = TRUE]
  BY <1>1
<1> HIDE DEF own
<1>4. book \in [Splits -> Split]
  <2>1. \A s \in Splits : sp[s] \in Split
    BY DEF TypeOK
  <2>2. \A s \in Splits : [sp[s] EXCEPT !.destroying = TRUE, !.dirty = TRUE] \in Split
    BY <2>1 DEF Split
  <2> QED BY <2>1, <2>2
<1> HIDE DEF book
<1>5. ASSUME NEW s \in own
      PROVE  /\ book[s].live /\ book[s].destroying /\ book[s].dirty
             /\ book[s].orig_acc = sp[s].orig_acc /\ SplitSound(book[s])
  <2>1. sp[s] \in Split /\ sp[s].live /\ SplitSound(sp[s])
    BY <1>1 DEF BookSound
  <2>2. /\ book[s].live /\ book[s].destroying /\ book[s].dirty
        /\ book[s].orig_acc = sp[s].orig_acc /\ book[s].parent = sp[s].parent
        /\ book[s].orig_parent = sp[s].orig_parent /\ book[s].refused = sp[s].refused
    BY <1>3, <2>1 DEF Split
  <2> QED BY <2>1, <2>2 DEF SplitSound
<1>6. BookSound(book)
  <2>1. \A s \in Splits : SplitSound(book[s])
    BY <1>1, <1>3, <1>5 DEF BookSound
  <2>2. \A a \in Accounts, s \in Splits :
         s \in ac[a].splits <=> book[s].live /\ book[s].orig_acc = a
    <3> SUFFICES ASSUME NEW a \in Accounts, NEW s \in Splits
                 PROVE  s \in ac[a].splits <=> book[s].live /\ book[s].orig_acc = a
      OBVIOUS
    <3>1. s \in ac[a].splits <=> sp[s].live /\ sp[s].orig_acc = a
      BY <1>1 DEF BookSound
    <3>2. CASE s \in own
      BY <1>1, <1>5, <3>1, <3>2
    <3>3. CASE s \notin own
      BY <1>3, <3>1, <3>3
    <3> QED BY <3>2, <3>3
  <2> QED BY <1>4, <2>1, <2>2 DEF BookSound
<1>7. own \in SUBSET Splits /\ \A s \in own : book[s].live
  BY <1>1, <1>5
<1>8. /\ \A a \in Accounts, s \in Splits :
             s \in ac'[a].splits <=> sp'[s].live /\ sp'[s].orig_acc = a
      /\ \A s \in Splits : SplitSound(sp'[s])
      /\ \A s \in Splits \ own : sp'[s] = book[s]
      /\ \A s \in own : book[s].destroying => ~sp'[s].live
  <2> DEFINE list == tx[t].splits
  <2>1. CommitSplits(list, own, book)
    BY <1>2
  <2>2. TypeOK
    OBVIOUS
  <2> HIDE DEF list, Inv
  <2>3. /\ \A a \in Accounts, s \in Splits :
             s \in ac'[a].splits <=> sp'[s].live /\ sp'[s].orig_acc = a
        /\ \A s \in Splits : SplitSound(sp'[s])
        /\ \A s \in Splits \ own : sp'[s] = book[s]
        /\ \A s \in own : book[s].destroying => ~sp'[s].live
        /\ \A s \in own : ~book[s].destroying =>
                /\ sp'[s].live /\ sp'[s].parent = book[s].parent /\ sp'[s].acc = book[s].acc
                /\ sp'[s].value = book[s].value /\ sp'[s].amount = book[s].amount
                /\ sp'[s].dirty => sp'[s].refused
                /\ ~sp'[s].destroying /\ sp'[s].orig_acc = sp'[s].acc
    BY <1>6, <1>7, <2>1, <2>2, CommitFacts
  <2> QED BY <2>3
<1>9. ~Rollbacks => BalInv'
  <2>1. \A s \in Splits \ own : book[s].dirty = sp[s].dirty /\ book[s].amount = sp[s].amount
    BY <1>3
  <2> QED BY <1>2, <1>6, <1>7, <2>1, CommitBalance
<1> QED BY <1>1, <1>3, <1>5, <1>8, <1>9

LEMMA ClearedStep ==
    ASSUME Inv, TypeOK', NEW t \in Trans, Cleared(t, sp),
           \A u \in Trans \ {t} : tx'[u] = tx[u],
           tx'[t].splits = <<>>, Open(t)' => Clears, ~Open(t)' => tx'[t].orig = <<>>
    PROVE  Inv'
<1> USE DEF Inv
<1>1. /\ \A a \in Accounts, s \in Splits :
                s \in ac'[a].splits <=> sp'[s].live /\ sp'[s].orig_acc = a
      /\ \A s \in Listed(t) : ~sp'[s].live /\ SplitSound(sp'[s])
      /\ \A s \in Splits \ Listed(t) : sp'[s] = sp[s]
      /\ ~Rollbacks => BalInv'
  BY ClearedFacts
<1>2. Listed(t) \in SUBSET Splits /\ \A s \in Splits \ Listed(t) : ~(sp[s].live /\ sp[s].parent = t)
  BY Owned, ListType
<1>3. Confined(t, Listed(t))
  BY <1>1, <1>2 DEF Confined
<1>5. IsInjective(tx'[t].splits) /\ ToSet(tx'[t].splits) = {}
  BY DEF IsInjective, ToSet
<1>6. OwnInv'
  <2>1. \A s \in Listed(t) : SplitSound(sp'[s]) /\ (sp'[s].live => sp'[s].parent = t)
    BY <1>1
  <2>2. \A s \in Splits : s \in ToSet(tx'[t].splits) <=> sp'[s].live /\ sp'[s].parent = t
    BY <1>1, <1>2, <1>5
  <2> QED BY <1>1, <1>3, <1>5, <2>1, <2>2, OwnStep
<1>7. ScrubInv'
  <2>1. ValueIn(sp') \in [Splits -> Int]
    <3>1. sp' \in [Splits -> Split]
      BY DEF TypeOK
    <3> QED BY <3>1, Numbers
  <2>2. IsFiniteSet({}) /\ {} \in SUBSET Splits
    BY FS_EmptySet
  <2>3. Sum({}, ValueIn(sp')) = 0
    BY <2>1, <2>2, SumSteps
  <2>4. InOrder(tx'[t].splits, sp')
    BY <1>5, <2>3 DEF InOrder
  <2> QED BY <1>3, <2>4, ScrubStep
<1>8. ASSUME ~Clears
      PROVE  FrontInv'
  BY <1>3, <1>8, FrontStep
<1> QED BY <1>1, <1>6, <1>7, <1>8

-----------------------------------------------------------------------------
(* The changes of an open transaction, and the steps that change no split. *)

LEMMA SameOrig ==
    ASSUME NEW t \in Trans, tx'[t].orig = tx[t].orig
    PROVE  OrigScrubbed(t)' <=> OrigScrubbed(t)
<1>1. OrigSet(t)' = OrigSet(t) /\ \A s : OrigOf(t, s)' = OrigOf(t, s)
  BY DEF OrigSet, OrigOf
<1>2. [s \in Splits |-> OrigOf(t, s).value]' = [s \in Splits |-> OrigOf(t, s).value]
  BY <1>1
<1> QED BY <1>1, <1>2 DEF OrigScrubbed

\* A step that changes transaction t alone, and neither its list nor a split.
LEMMA NoSplitStep ==
    ASSUME Inv, TypeOK', NEW t \in Trans, \A u \in Trans \ {t} : tx'[u] = tx[u],
           sp' = sp, ac' = ac, tx'[t].splits = tx[t].splits,
           Open(t)' <=> Open(t), tx'[t].orig = tx[t].orig
    PROVE  Inv'
<1> USE DEF Inv
<1>1. \A u \in Trans : /\ tx'[u].splits = tx[u].splits /\ tx'[u].orig = tx[u].orig
                       /\ (Open(u)' <=> Open(u)) /\ Listed(u)' = Listed(u)
  BY DEF Open, Listed
<1>2. OwnInv'
  BY <1>1 DEF OwnInv, MembershipAgrees, OwnedOnce
<1>3. \A u \in Trans : OrigScrubbed(u)' <=> OrigScrubbed(u)
  BY <1>1, SameOrig
<1>4. ValueIn(sp)' = ValueIn(sp) /\ AmountIn(sp)' = AmountIn(sp)
  BY DEF ValueIn, AmountIn
<1>5. ClosedIsScrubbed'
  BY <1>1, <1>4 DEF ScrubInv, ClosedIsScrubbed
<1>6. ASSUME FrontInv
      PROVE  FrontInv'
  <2> SUFFICES ASSUME NEW u \in Trans, Open(u)'
               PROVE  FrontOf(u, sp, tx[u].splits)'
    BY DEF FrontInv
  <2>1. FrontOf(u, sp, tx[u].splits)
    BY <1>1, <1>6 DEF FrontInv
  <2>2. tx'[u].splits = tx[u].splits /\ tx'[u].orig = tx[u].orig
    BY <1>1
  <2> QED BY <2>1, <2>2 DEF FrontOf
<1>7. BalInv => BalInv'
  BY <1>4 DEF BalInv
<1> QED BY <1>1, <1>2, <1>3, <1>5, <1>6, <1>7 DEF ScrubInv

LEMMA BeginStep ==
    ASSUME Inv, TypeOK', NEW t \in Trans, BeginEdit(t)
    PROVE  Inv'
<1> USE DEF Inv
<1> DEFINE list == tx[t].splits
           n == Len(list)
<1>1. /\ tx'[t].editlevel = tx[t].editlevel + 1 /\ tx'[t].splits = list
      /\ tx'[t].orig = (IF Open(t) THEN tx[t].orig ELSE Duped(t))
      /\ \A u \in Trans \ {t} : tx'[u] = tx[u]
      /\ sp' = sp /\ ac' = ac
  BY DEF BeginEdit, TypeOK, Transaction
<1>2. Open(t)'
  BY <1>1, ListType DEF Open
<1>3. CASE Open(t)
  BY <1>1, <1>2, <1>3, NoSplitStep
<1>4. CASE ~Open(t)
  <2> DEFINE orig == Duped(t)
  <2>1. tx'[t].orig = orig
    BY <1>1, <1>4
  <2>2. Confined(t, {})
    BY <1>1 DEF Confined
  <2>3. OwnInv'
    <3>1. /\ IsInjective(list)
          /\ \A s \in Splits : s \in ToSet(list) <=> sp[s].live /\ sp[s].parent = t
          /\ \A a \in Accounts, s \in Splits :
               s \in ac[a].splits <=> sp[s].live /\ sp[s].orig_acc = a
      BY Owned DEF BookSound, Listed
    <3> QED BY <1>1, <1>2, <2>2, <3>1, OwnStep
  <2>4. \A s \in Listed(t) : /\ s \in Splits /\ sp[s].acc # None /\ sp[s].acc = sp[s].orig_acc
                             /\ sp[s].amount = sp[s].value /\ sp[s].orig_parent = t
    BY <1>4, Owned DEF ScrubInv, ClosedIsScrubbed, BookSound, SplitSound
  <2>5. /\ orig \in Seq(Dupe) /\ DOMAIN orig = 1 .. n /\ Len(orig) = n
        /\ \A i \in 1 .. n : /\ list[i] \in Listed(t) /\ orig[i].guid = list[i]
                             /\ orig[i].acc = sp[list[i]].acc
                             /\ orig[i].value = sp[list[i]].value
                             /\ orig[i].amount = sp[list[i]].amount
        /\ DOMAIN list = 1 .. n /\ n \in Nat
    <3>1. DOMAIN list = 1 .. n /\ n \in Nat
      BY ListType
    <3>2. /\ orig \in Seq(Dupe) /\ DOMAIN orig = 1 .. n /\ Len(orig) = n
      BY DupedType
    <3>3. \A i \in 1 .. n : list[i] \in Listed(t)
      BY <3>1 DEF Listed, ToSet
    <3>5. ASSUME NEW i \in 1 .. n
          PROVE  /\ orig[i].guid = list[i] /\ orig[i].acc = sp[list[i]].acc
                 /\ orig[i].value = sp[list[i]].value
                 /\ orig[i].amount = sp[list[i]].amount
      <4>1. orig[i] = [guid |-> list[i], acc |-> sp[list[i]].acc,
                       value |-> sp[list[i]].value, amount |-> sp[list[i]].amount]
        BY <3>1 DEF Duped
      <4> QED BY <4>1
    <3> HIDE DEF orig, list, n
    <3> QED BY <3>1, <3>2, <3>3, <3>5
  <2> HIDE DEF orig
  <2>6. FrontOf(t, sp, tx[t].splits)'
    <3>1. \A i \in 1 .. n : i <= n
      BY <2>5
    <3>2. Len(tx'[t].orig) <= Len(list)
      BY <2>1, <2>5
    <3> QED BY <1>1, <2>1, <2>4, <2>5, <3>1, <3>2 DEF FrontOf
  <2>7. FrontInv => FrontInv'
    BY <2>2, <2>6, FrontStep
  <2>8. OrigScrubbed(t)'
    <3>1. OrigSet(t)' = Listed(t)
      <4>1. OrigSet(t)' = {orig[i].guid : i \in 1 .. n}
        BY <2>1, <2>5 DEF OrigSet
      <4>2. Listed(t) = {list[i] : i \in 1 .. n}
        BY <2>5 DEF Listed, ToSet
      <4>3. \A i \in 1 .. n : orig[i].guid = list[i]
        BY <2>5
      <4> HIDE DEF list, n
      <4> QED BY <4>1, <4>2, <4>3
    <3>2. \A i \in 1 .. n : OrigOf(t, list[i])' = orig[i]
      <4> SUFFICES ASSUME NEW i \in 1 .. n
                   PROVE  OrigOf(t, list[i])' = orig[i]
        OBVIOUS
      <4>1. \A j \in DOMAIN orig : orig[j].guid = list[i] => j = i
        BY <2>5, Owned DEF IsInjective
      <4>2. tx'[t].orig[CHOOSE j \in DOMAIN tx'[t].orig : tx'[t].orig[j].guid = list[i]] = orig[i]
        BY <2>1, <2>5, <4>1
      <4> QED BY <1>1, <4>2 DEF OrigOf
    <3>3. \A s \in Listed(t) : \E i \in 1 .. n : s = list[i]
      BY <2>5 DEF Listed, ToSet
    <3> DEFINE f == [s \in Splits |-> OrigOf(t, s)'.value]
    <3>4. \A s \in Listed(t) : f[s] = ValueIn(sp)[s]
      <4> SUFFICES ASSUME NEW i \in 1 .. n
                   PROVE  f[list[i]] = ValueIn(sp)[list[i]]
        BY <3>3
      <4>1. list[i] \in Splits /\ OrigOf(t, list[i])' = orig[i]
        BY <2>4, <2>5, <3>2
      <4> QED BY <1>1, <2>5, <4>1 DEF ValueIn
    <3>5. Sum(Listed(t), ValueIn(sp)) = 0
      BY <1>4 DEF ScrubInv, ClosedIsScrubbed
    <3>6. Sum(Listed(t), f) = 0
      BY <3>4, <3>5, SumSame
    <3>7. \A i \in DOMAIN orig : orig[i].acc # None /\ orig[i].amount = orig[i].value
      BY <2>4, <2>5
    <3> QED BY <2>1, <3>1, <3>6, <3>7 DEF OrigScrubbed
  <2>9. ScrubInv'
    BY <1>2, <2>2, <2>8, ScrubStep
  <2>10. BalInv => BalInv'
    <3>1. AmountIn(sp)' = AmountIn(sp)
      BY <1>1 DEF AmountIn
    <3> QED BY <1>1, <3>1 DEF BalInv
  <2> QED BY <2>3, <2>7, <2>9, <2>10
<1> QED BY <1>3, <1>4

LEMMA NewSplitStep ==
    ASSUME Inv, TypeOK', NEW t \in Trans, NEW s \in Splits,
           NEW a \in UserAccounts \cup {None}, NewSplit(t, s, a)
    PROVE  Inv'
<1> USE DEF Inv
<1> DEFINE list == tx[t].splits
           all == tx'[t].splits
           n == Len(list)
<1>1. /\ Open(t) /\ ~sp[s].live /\ ~sp[s].refused /\ ac' = ac
      /\ sp' = [sp EXCEPT ![s] = [NoSplit EXCEPT
                  !.live = TRUE, !.parent = t, !.acc = a, !.dirty = TRUE]]
      /\ tx' = [tx EXCEPT ![t].splits = Append(@, s)]
  BY DEF NewSplit, Unused
<1>2. /\ all = Append(list, s) /\ tx'[t].editlevel = tx[t].editlevel
      /\ tx'[t].orig = tx[t].orig /\ \A u \in Trans \ {t} : tx'[u] = tx[u]
  BY <1>1 DEF TypeOK, Transaction
<1>3. /\ sp'[s].live /\ sp'[s].parent = t /\ sp'[s].dirty /\ ~sp'[s].refused
      /\ sp'[s].orig_parent = None /\ sp'[s].orig_acc = None
      /\ \A r \in Splits \ {s} : sp'[r] = sp[r]
  <2> DEFINE x == [NoSplit EXCEPT !.live = TRUE, !.parent = t, !.acc = a, !.dirty = TRUE]
  <2>1. /\ x.live /\ x.parent = t /\ x.dirty /\ ~x.refused
        /\ x.orig_parent = None /\ x.orig_acc = None
    BY DEF NoSplit
  <2> HIDE DEF x
  <2> QED BY <1>1, <2>1 DEF TypeOK, x
<1>4. /\ BookSound(sp) /\ IsInjective(list) /\ list \in Seq(Splits)
      /\ \A r \in Splits : r \in Listed(t) <=> sp[r].live /\ sp[r].parent = t
      /\ Listed(t) = ToSet(list) /\ n \in Nat /\ Len(tx[t].orig) \in Nat
  BY Owned, ListType DEF Listed
<1>5. s \notin ToSet(list)
  BY <1>1, <1>4
<1>6. /\ ToSet(all) = ToSet(list) \cup {s} /\ Len(all) = n + 1
      /\ DOMAIN all = 1 .. n + 1 /\ DOMAIN list = 1 .. n
      /\ \A i \in DOMAIN list : all[i] = list[i]
      /\ all[n + 1] = s /\ IsInjective(all)
  BY <1>2, <1>4, <1>5, OneMore
<1> HIDE DEF all, list, n
<1>7. Open(t)'
  BY <1>1, <1>2 DEF Open
<1>8. Confined(t, {s})
  BY <1>1, <1>2, <1>3 DEF Confined
<1>9. OwnInv'
  <2>1. SplitSound(sp'[s])
    BY <1>3 DEF SplitSound
  <2>2. \A r \in Splits : r \in ToSet(all) <=> sp'[r].live /\ sp'[r].parent = t
    BY <1>3, <1>4, <1>6
  <2>3. ASSUME NEW b \in Accounts, NEW r \in Splits
        PROVE  r \in ac'[b].splits <=> sp'[r].live /\ sp'[r].orig_acc = b
    <3>1. r \in ac[b].splits <=> sp[r].live /\ sp[r].orig_acc = b
      BY <1>4 DEF BookSound
    <3>2. b # None
      BY Ids
    <3> QED BY <1>1, <1>3, <3>1, <3>2
  <2> QED BY <1>3, <1>6, <1>7, <1>8, <2>1, <2>2, <2>3, OwnStep DEF all
<1>10. ScrubInv'
  <2>1. OrigScrubbed(t)' <=> OrigScrubbed(t)
    BY <1>2, SameOrig
  <2> QED BY <1>1, <1>7, <1>8, <2>1, ScrubStep DEF ScrubInv
<1>11. ASSUME FrontInv
       PROVE  FrontInv'
  <2>1. FrontOf(t, sp, list)
    BY <1>1, <1>11 DEF FrontInv, list
  <2>2. \A i \in 1 .. n : list[i] \in ToSet(list) /\ list[i] \in Splits /\ list[i] # s
    BY <1>4, <1>5, <1>6 DEF ToSet
  <2>3. Len(tx[t].orig) <= n /\ ~(n + 1 <= Len(tx[t].orig)) /\ Len(tx[t].orig) <= n + 1
    BY <1>4, <2>1 DEF FrontOf, n
  <2>4. \A i \in 1 .. n + 1 : i \in 1 .. n \/ i = n + 1
    BY <1>4
  <2>5. FrontOf(t, sp, tx[t].splits)'
    <3>1. Len(tx[t].orig)' = Len(tx[t].orig)
      BY <1>2
    <3> DEFINE k == Len(tx[t].orig)
    <3>2. \A i \in 1 .. n :
         IF i <= k
         THEN /\ all[i] = tx'[t].orig[i].guid
              /\ sp'[all[i]].orig_parent = t
              /\ sp'[all[i]].orig_acc = tx'[t].orig[i].acc
              /\ ~sp'[all[i]].dirty =>
                   /\ sp'[all[i]].value = tx'[t].orig[i].value
                   /\ sp'[all[i]].amount = tx'[t].orig[i].amount
         ELSE /\ sp'[all[i]].orig_parent = None /\ sp'[all[i]].orig_acc = None
              /\ sp'[all[i]].dirty
      <4> SUFFICES ASSUME NEW i \in 1 .. n
                   PROVE  IF i <= k
         THEN /\ all[i] = tx'[t].orig[i].guid
              /\ sp'[all[i]].orig_parent = t
              /\ sp'[all[i]].orig_acc = tx'[t].orig[i].acc
              /\ ~sp'[all[i]].dirty =>
                   /\ sp'[all[i]].value = tx'[t].orig[i].value
                   /\ sp'[all[i]].amount = tx'[t].orig[i].amount
         ELSE /\ sp'[all[i]].orig_parent = None /\ sp'[all[i]].orig_acc = None
              /\ sp'[all[i]].dirty
        OBVIOUS
      <4>0. i \in DOMAIN list /\ all[i] = list[i]
        BY <1>6
      <4>1. /\ i \in DOMAIN list /\ all[i] = list[i] /\ sp'[all[i]] = sp[list[i]]
            /\ tx'[t].orig = tx[t].orig
        BY <1>2, <1>3, <2>2, <4>0
      <4> QED BY <2>1, <4>1 DEF FrontOf
    <3>3. Len(tx'[t].orig) <= Len(all)
      BY <1>2, <1>6, <2>3
    <3> QED BY <1>2, <1>3, <1>6, <2>3, <2>4, <3>2, <3>3 DEF FrontOf, all
  <2> QED BY <1>8, <1>11, <2>5, FrontStep
<1>12. ASSUME BalInv
       PROVE  BalInv'
  <2> SUFFICES ASSUME NEW b \in Accounts, \A r \in ac'[b].splits : ~sp'[r].dirty
               PROVE  ac'[b].balance = Sum(ac'[b].splits, AmountIn(sp'))
    BY DEF BalInv
  <2>1. \A r \in ac[b].splits : r \in Splits /\ r # s
    BY <1>1, <1>4 DEF BookSound, TypeOK, Account
  <2>2. \A r \in ac[b].splits : AmountIn(sp)[r] = AmountIn(sp')[r]
    BY <1>3, <2>1 DEF AmountIn
  <2>3. Sum(ac[b].splits, AmountIn(sp)) = Sum(ac[b].splits, AmountIn(sp'))
    BY <2>2, SumSame
  <2>4. ac[b].balance = Sum(ac[b].splits, AmountIn(sp))
    BY <1>1, <1>3, <1>12, <2>1 DEF BalInv
  <2> QED BY <1>1, <2>3, <2>4
<1> QED BY <1>9, <1>10, <1>11, <1>12

LEMMA ChangedStep ==
    ASSUME Inv, TypeOK', NEW s \in Splits,
           \/ \E a \in Accounts : SetAccount(s, a)
           \/ \E v \in Values : SetValue(s, v) \/ SetAmount(s, v)
           \/ SetReconcile(s) \/ SplitDestroy(s)
    PROVE  Inv'
<1> USE DEF Inv
<1>1. PICK x \in Split :
        /\ Changed(s, x)
        /\ x.dirty /\ sp[s].parent # None
        /\ x = [sp[s] EXCEPT !.acc = x.acc, !.value = x.value, !.amount = x.amount,
                             !.destroying = x.destroying, !.dirty = TRUE]
        /\ \/ ac' = ac
           \/ ac' = [a \in Accounts |->
                IF a = sp[s].acc THEN Recomputed(ac[a].splits, sp) ELSE ac[a]]
              /\ x = [sp[s] EXCEPT !.dirty = TRUE]
  BY OneSplit
<1>2. BookSound(sp) /\ sp[s] \in Split /\ SplitSound(sp[s])
  BY DEF BookSound, OwnInv, MembershipAgrees, TypeOK
<1>3. PICK t \in Trans : t = sp[s].parent /\ (~sp[s].live => sp[s].refused)
  <2>1. NoSplit.parent = None
    BY DEF NoSplit
  <2> QED BY <1>1, <1>2, <2>1 DEF SplitSound, Split
<1>4. /\ x.live = sp[s].live /\ x.parent = t /\ x.orig_parent = sp[s].orig_parent
      /\ x.orig_acc = sp[s].orig_acc /\ x.dirty /\ x.refused = sp[s].refused
  <2>1. sp[s].live = x.live /\ sp[s].parent = x.parent /\ sp[s].orig_parent = x.orig_parent
        /\ sp[s].orig_acc = x.orig_acc /\ sp[s].refused = x.refused
    BY <1>1, <1>2 DEF Split
  <2> QED BY <1>1, <1>3, <2>1
<1>5. /\ sp'[s] = x /\ \A r \in Splits \ {s} : sp'[r] = sp[r]
      /\ tx' = tx /\ Open(t)
  BY <1>1, <1>2, <1>3 DEF Changed, TypeOK, Editable
<1>6. \A a \in Accounts : /\ ac'[a].splits = ac[a].splits
                          /\ ac'[a] = ac[a] \/ ac'[a].balance = Sum(ac[a].splits, AmountIn(sp))
  BY <1>1 DEF Recomputed
<1>7. /\ (s \in Listed(t) \/ ~sp[s].live) /\ Open(t)'
      /\ tx'[t].splits = tx[t].splits
  BY <1>3, <1>5, Owned DEF Listed, Open
<1>8. Confined(t, {s})
  BY <1>5, <1>7 DEF Confined
<1>9. OwnInv'
  <2>1. SplitSound(sp'[s])
    BY <1>2, <1>3, <1>4, <1>5 DEF SplitSound
  <2>2. \A r \in Splits : r \in ToSet(tx'[t].splits) <=> sp'[r].live /\ sp'[r].parent = t
    BY <1>3, <1>4, <1>5, <1>7, Owned DEF Listed
  <2>3. ASSUME NEW b \in Accounts, NEW r \in Splits
        PROVE  r \in ac'[b].splits <=> sp'[r].live /\ sp'[r].orig_acc = b
    <3>1. r \in ac[b].splits <=> sp[r].live /\ sp[r].orig_acc = b
      BY <1>2 DEF BookSound
    <3> QED BY <1>3, <1>4, <1>5, <1>6, <3>1
  <2>4. IsInjective(tx'[t].splits)
    BY <1>3, <1>7, Owned
  <2> QED BY <1>3, <1>4, <1>5, <1>7, <1>8, <2>1, <2>2, <2>3, <2>4, OwnStep
<1>10. ScrubInv'
  <2>1. OrigScrubbed(t)' <=> OrigScrubbed(t)
    BY <1>3, <1>5, SameOrig
  <2> QED BY <1>3, <1>5, <1>7, <1>8, <2>1, ScrubStep DEF ScrubInv
<1>11. ASSUME FrontInv
       PROVE  FrontInv'
  <2>1. FrontOf(t, sp, tx[t].splits)
    BY <1>3, <1>5, <1>11 DEF FrontInv
  <2>2. \A i \in DOMAIN tx[t].splits :
          LET r == tx[t].splits[i] IN
          /\ sp'[r].orig_parent = sp[r].orig_parent /\ sp'[r].orig_acc = sp[r].orig_acc
          /\ sp'[r].dirty \/ sp'[r] = sp[r]
          /\ sp[r].dirty => sp'[r].dirty
    <3> SUFFICES ASSUME NEW r \in Listed(t)
                 PROVE  /\ sp'[r].orig_parent = sp[r].orig_parent
                        /\ sp'[r].orig_acc = sp[r].orig_acc
                        /\ sp'[r].dirty \/ sp'[r] = sp[r]
                        /\ sp[r].dirty => sp'[r].dirty
      BY DEF Listed, ToSet
    <3>1. r \in Splits
      BY <1>3, ListType
    <3> QED BY <1>4, <1>5, <3>1
  <2>3. FrontOf(t, sp, tx[t].splits)'
    <3>1. FrontOf(t, sp', tx[t].splits)
      BY <2>1, <2>2 DEF FrontOf
    <3> QED BY <1>5, <3>1 DEF FrontOf
  <2> QED BY <1>3, <1>8, <1>11, <2>3, FrontStep
<1>12. ASSUME BalInv
       PROVE  BalInv'
  <2> SUFFICES ASSUME NEW b \in Accounts, \A r \in ac'[b].splits : ~sp'[r].dirty
               PROVE  ac'[b].balance = Sum(ac'[b].splits, AmountIn(sp'))
    BY DEF BalInv
  <2>1. \A r \in ac[b].splits : r \in Splits /\ r # s
    BY <1>4, <1>5, <1>6 DEF TypeOK, Account
  <2>2. \A r \in ac[b].splits : AmountIn(sp)[r] = AmountIn(sp')[r]
    BY <1>5, <2>1 DEF AmountIn
  <2>3. Sum(ac[b].splits, AmountIn(sp)) = Sum(ac[b].splits, AmountIn(sp'))
    BY <2>2, SumSame
  <2>4. \A r \in ac[b].splits : ~sp[r].dirty
    BY <1>5, <1>6, <2>1
  <2>5. ac[b].balance = Sum(ac[b].splits, AmountIn(sp))
    BY <1>12, <2>4 DEF BalInv
  <2> QED BY <1>6, <2>3, <2>5
<1> QED BY <1>9, <1>10, <1>11, <1>12

-----------------------------------------------------------------------------
(* The inductive invariant.                                                *)

LEMMA InvInit == Init => Inv
<1> SUFFICES ASSUME Init
             PROVE  Inv
  OBVIOUS
<1>1. TypeOK
  BY TypeInit
<1>2. /\ \A t \in Trans : tx[t].splits = <<>> /\ tx[t].orig = <<>> /\ ~Open(t)
      /\ \A s \in Splits : sp[s] = NoSplit
      /\ \A a \in Accounts : ac[a].splits = {} /\ ac[a].balance = 0
  BY DEF Init, NoTrans, Open
<1>3. ~NoSplit.live /\ SplitSound(NoSplit)
  BY DEF NoSplit, SplitSound
<1>4. \A t \in Trans : Listed(t) = {} /\ IsInjective(tx[t].splits)
  BY <1>2 DEF Listed, ToSet, IsInjective
<1>5. OwnInv
  BY <1>2, <1>3, <1>4 DEF OwnInv, MembershipAgrees, OwnedOnce
<1>6. \A f \in [Splits -> Int] : Sum({}, f) = 0
  BY FS_EmptySet, SumSteps
<1>7. ValueIn(sp) \in [Splits -> Int] /\ AmountIn(sp) \in [Splits -> Int]
  BY <1>1, Numbers DEF TypeOK
<1>8. ScrubInv
  <2>1. \A t \in Trans : Sum(Listed(t), ValueIn(sp)) = 0
    BY <1>4, <1>6, <1>7
  <2> QED BY <1>2, <1>4, <2>1 DEF ScrubInv, ClosedIsScrubbed
<1>9. FrontInv
  BY <1>2 DEF FrontInv
<1>10. BalInv
  <2>1. \A a \in Accounts : Sum(ac[a].splits, AmountIn(sp)) = 0
    BY <1>2, <1>6, <1>7
  <2> QED BY <1>2, <2>1 DEF BalInv
<1> QED BY <1>1, <1>5, <1>8, <1>9, <1>10 DEF Inv

\* A rollback, and a commit that is refused.
LEMMA BackStep ==
    ASSUME Inv, TypeOK', ~Clears, NEW t \in Trans,
           RollbackEdit(t) \/ \E b \in Splits \cup {None} : CommitFails(t, b)
    PROVE  Inv' /\ \A o \in {tx[t].orig} : IsBackTo(t, o)'
<1>1. TypeOK /\ OwnInv
  BY DEF Inv
<1>2. Rollbacks /\ Open(t)
  BY DEF RollbackEdit, CommitFails, Open
<1>3. \E book, list : Pends(t, book, list) /\ Restore(t, book, list)
  <2>1. CASE Restore(t, sp, tx[t].splits)
    BY <1>1, <2>1, NoScrub
  <2>2. CASE \E b \in Balancer(t) : Restore(t, Scrubbed(t, b), ScrubbedList(t, b))
    BY <1>1, <2>2, Scrubs
  <2> QED BY <2>1, <2>2 DEF RollbackEdit, CommitFails
<1> QED BY <1>2, <1>3, RestoreStep

LEMMA InvNext == ~(Rollbacks /\ Clears) /\ Inv /\ [Next]_vars => Inv'
<1> SUFFICES ASSUME ~(Rollbacks /\ Clears), Inv, [Next]_vars
             PROVE  Inv'
  OBVIOUS
<1>0. TypeOK /\ TypeOK'
  BY TypeNext DEF Inv
<1>1. ASSUME NEW t \in Trans, Malloc(t)
      PROVE  Inv'
  <2>1. /\ tx'[t].splits = tx[t].splits /\ tx'[t].orig = tx[t].orig
        /\ tx'[t].editlevel = tx[t].editlevel /\ sp' = sp /\ ac' = ac
        /\ \A u \in Trans \ {t} : tx'[u] = tx[u]
    BY <1>0, <1>1 DEF Malloc, TypeOK, Transaction
  <2>2. Open(t)' <=> Open(t)
    BY <2>1 DEF Open
  <2> QED BY <1>0, <2>1, <2>2, NoSplitStep
<1>2. ASSUME NEW t \in Trans, Destroy(t)
      PROVE  Inv'
  <2>1. /\ tx'[t].splits = tx[t].splits /\ tx'[t].orig = tx[t].orig
        /\ tx'[t].editlevel = tx[t].editlevel /\ sp' = sp /\ ac' = ac
        /\ \A u \in Trans \ {t} : tx'[u] = tx[u]
    BY <1>0, <1>2 DEF Destroy, TypeOK, Transaction
  <2>2. Open(t)' <=> Open(t)
    BY <2>1 DEF Open
  <2> QED BY <1>0, <2>1, <2>2, NoSplitStep
<1>3. ASSUME NEW t \in Trans, EndNested(t)
      PROVE  Inv'
  <2>1. /\ tx'[t].splits = tx[t].splits /\ tx'[t].orig = tx[t].orig
        /\ tx'[t].editlevel = tx[t].editlevel - 1 /\ sp' = sp /\ ac' = ac
        /\ \A u \in Trans \ {t} : tx'[u] = tx[u] /\ tx[t].editlevel > 1
    BY <1>0, <1>3 DEF EndNested, TypeOK, Transaction
  <2>2. Open(t)' /\ Open(t)
    <3>1. tx[t].editlevel \in Nat /\ tx[t].editlevel > 1
      BY <1>0, <1>3, ListType DEF EndNested
    <3> QED BY <2>1, <3>1 DEF Open
  <2> QED BY <1>0, <2>1, <2>2, NoSplitStep
<1>4. ASSUME NEW t \in Trans, ClearSplits(t)
      PROVE  Inv'
  <2>1. /\ tx'[t].splits = <<>> /\ tx'[t].editlevel = tx[t].editlevel
        /\ \A u \in Trans \ {t} : tx'[u] = tx[u] /\ Clears /\ Open(t) /\ Cleared(t, sp)
    BY <1>0, <1>4 DEF ClearSplits, TypeOK, Transaction
  <2>2. Clears /\ Cleared(t, sp) /\ Open(t)'
    BY <1>4, <2>1 DEF ClearSplits, Open
  <2> QED BY <1>0, <2>1, <2>2, ClearedStep
<1>5. ASSUME NEW t \in Trans, CommitDestroy(t)
      PROVE  Inv'
  <2>1. /\ tx'[t] = NoTrans /\ Cleared(t, sp)
        /\ \A u \in Trans \ {t} : tx'[u] = tx[u]
    BY <1>0, <1>5 DEF CommitDestroy, TypeOK
  <2>2. tx'[t].splits = <<>> /\ tx'[t].orig = <<>> /\ ~Open(t)'
    BY <2>1 DEF NoTrans, Open
  <2> QED BY <1>0, <2>1, <2>2, ClearedStep
<1>6. CASE UNCHANGED vars
  <2>1. tx' = tx /\ sp' = sp /\ ac' = ac
    BY <1>6 DEF vars
  <2>2. \A t \in Trans : Open(t)' <=> Open(t)
    BY <2>1 DEF Open
  <2>3. CASE Trans = {}
    BY <1>0, <2>1, <2>3 DEF Inv, OwnInv, MembershipAgrees, OwnedOnce, ScrubInv,
         ClosedIsScrubbed, FrontInv, BalInv
  <2>4. CASE Trans # {}
    <3>1. PICK t \in Trans : TRUE
      BY <2>4
    <3> QED BY <1>0, <2>1, <2>2, <3>1, NoSplitStep
  <2> QED BY <2>3, <2>4
<1>7. ASSUME NEW t \in Trans, RollbackEdit(t) \/ \E b \in Splits \cup {None} : CommitFails(t, b)
      PROVE  Inv'
  <2>1. ~Clears
    BY <1>7 DEF RollbackEdit, CommitFails
  <2> QED BY <1>0, <1>7, <2>1, BackStep
<1> QED BY <1>0, <1>1, <1>2, <1>3, <1>4, <1>5, <1>6, <1>7, BeginStep, NewSplitStep,
           CommitStep, ChangedStep DEF Next

\* What the splits, the lists and the balances keep, for any splits, accounts
\* and nesting, and any order of the edits of several transactions: unless
\* splits are both cleared and put back within an edit.
THEOREM Invariant == ~(Rollbacks /\ Clears) => (Spec => []Inv)
<1> SUFFICES ASSUME ~(Rollbacks /\ Clears)
             PROVE  Spec => []Inv
  OBVIOUS
<1>1. Inv /\ [Next]_vars => Inv'
  BY InvNext
<1> QED BY <1>1, InvInit, PTL DEF Spec

\* The lists of the accounts and of the transactions, and the splits, agree on
\* what belongs where, whichever commits of splits and of transactions the
\* backend refuses (xaccSplitCommitEdit, gnc_account_insert_split).
THEOREM ListsAgree == ~(Rollbacks /\ Clears) => (Spec => []MembershipAgrees)
<1>1. Inv => MembershipAgrees
  BY DEF Inv, OwnInv
<1> QED BY <1>1, Invariant, PTL

\* A transaction that is not being edited balances, with an account and the
\* right amount for every split, and nothing pending but for splits that the
\* backend refused to commit (xaccTransScrubImbalance, xaccSplitCommitEdit).
THEOREM ClosedInOrder == ~(Rollbacks /\ Clears) => (Spec => []ClosedIsScrubbed)
<1>1. Inv => ClosedIsScrubbed
  BY DEF Inv, ScrubInv
<1> QED BY <1>1, Invariant, PTL

\* An account's balance is the sum of its splits when none of them is being
\* edited or was refused by the backend, as long as no edit is rolled back
\* (xaccAccountRecomputeBalance).
THEOREM BalancesAreSums == ~Rollbacks => (Spec => []BalanceIsSum)
<1> SUFFICES ASSUME ~Rollbacks
             PROVE  Spec => []BalanceIsSum
  OBVIOUS
<1>1. Inv => BalanceIsSum
  <2> SUFFICES ASSUME Inv, NEW a \in Accounts,
                      \A s \in ac[a].splits : ~Editable(s) /\ ~sp[s].refused
               PROVE  ac[a].balance = Sum(ac[a].splits, AmountIn(sp))
    BY DEF BalanceIsSum
  <2>1. TypeOK /\ OwnInv /\ BalInv
    BY DEF Inv
  <2>2. ASSUME NEW s \in ac[a].splits
        PROVE  ~sp[s].dirty
    <3>1. s \in Splits /\ sp[s].live /\ SplitSound(sp[s])
      BY <2>1 DEF OwnInv, MembershipAgrees, TypeOK, Account
    <3>2. PICK t \in Trans : t = sp[s].parent /\ s \in Listed(t)
      BY <2>1, <3>1, Owned DEF SplitSound
    <3>3. ~Open(t)
      BY <3>2, Ids DEF Editable
    <3> QED BY <2>1, <3>2, <3>3 DEF OwnInv
  <2> QED BY <2>1, <2>2 DEF BalInv
<1> QED BY <1>1, Invariant, PTL

\* What the rollback relies on: the splits at the front of the list are those of
\* the original, in its order, and those behind them are new.
THEOREM FrontStays == ~Clears => (Spec => []FrontIsOriginal)
<1> SUFFICES ASSUME ~Clears
             PROVE  Spec => []FrontIsOriginal
  OBVIOUS
<1>1. Inv => FrontIsOriginal
  <2> SUFFICES ASSUME Inv, NEW t \in Trans
               PROVE  /\ Len(tx[t].orig) <= Len(tx[t].splits)
                      /\ \A i \in DOMAIN tx[t].splits :
                           IF i <= Len(tx[t].orig)
                           THEN tx[t].splits[i] = tx[t].orig[i].guid
                           ELSE Open(t) => sp[tx[t].splits[i]].orig_parent = None
    BY DEF FrontIsOriginal
  <2>1. TypeOK /\ OwnInv /\ FrontInv
    BY DEF Inv
  <2>2. CASE Open(t)
    <3>1. FrontOf(t, sp, tx[t].splits)
      BY <2>1, <2>2 DEF FrontInv
    <3> QED BY <3>1 DEF FrontOf
  <2>3. CASE ~Open(t)
    <3>1. Len(tx[t].orig) = 0
      BY <2>1, <2>3 DEF OwnInv
    <3>2. /\ Len(tx[t].splits) \in Nat
          /\ DOMAIN tx[t].splits = 1 .. Len(tx[t].splits)
      BY <2>1, ListType
    <3>3. 0 <= Len(tx[t].splits) /\ \A i \in DOMAIN tx[t].splits : ~(i <= 0)
      BY <3>2
    <3> QED BY <2>3, <3>1, <3>3
  <2> QED BY <2>2, <2>3
<1> QED BY <1>1, Invariant, PTL

\* A rollback, and a commit that the backend refuses, put the transaction, its
\* splits and the lists of their accounts back to the original
\* (xaccTransRollbackEdit, trans_on_error).
THEOREM RollbacksRestore == ~Clears => (Spec => RollbackRestores)
<1> SUFFICES ASSUME ~Clears
             PROVE  Spec => RollbackRestores
  OBVIOUS
<1> DEFINE Goes(t) == RollbackEdit(t) \/ (\E b \in Splits \cup {None} : CommitFails(t, b))
           Back == \A t \in Trans : \A o \in {tx[t].orig} : Goes(t) => IsBackTo(t, o)'
<1>1. Inv /\ Inv' /\ [Next]_vars => [Back]_vars
  <2> SUFFICES ASSUME Inv, Inv', NEW t \in Trans, NEW o \in {tx[t].orig}, Goes(t)
               PROVE  IsBackTo(t, o)'
    OBVIOUS
  <2>1. TypeOK'
    BY DEF Inv
  <2> QED BY <2>1, BackStep
<1>2. Spec => []Inv
  BY Invariant
<1>3. Spec => [][Back]_vars
  BY <1>1, <1>2, PTL DEF Spec
<1> QED BY <1>3 DEF RollbackRestores
=============================================================================
