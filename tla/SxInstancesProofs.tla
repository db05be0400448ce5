-------------------------- MODULE SxInstancesProofs --------------------------
(***************************************************************************)
(* A scheduled transaction and its dialogs, for any number of dialogs,     *)
(* occurrences, days of advance, decisions and failures.                   *)
(*                                                                         *)
(* The inductive invariant Inv says of the schedule (SxOk) where its       *)
(* postponed occurrences are and which dates it would list again; of what  *)
(* was created (HistoryOk), that it is behind the last date and not        *)
(* postponed; and of the list of each dialog (ListOk) what its dates and   *)
(* states have to do with both.  The lists are where the work is: a list   *)
(* is generated (GeneratedOk), merged with one generated later (MergedOk), *)
(* changed by the user (ChangedFit) and put into effect, one instance at a *)
(* time: PassInv is what holds after the i-th (StepInv), and PassOk the    *)
(* induction over the list.                                                *)
(***************************************************************************)
EXTENDS SxInstances, SequenceTheorems, WellFoundedInduction, TLAPS

-----------------------------------------------------------------------------
(* Numbers.                                                                *)

Less == {pair \in Nat \X Nat : pair[1] < pair[2]}

LEMMA Least ==
    ASSUME NEW T \in SUBSET Nat, T # {}
    PROVE  Min(T) \in T /\ \A k \in T : Min(T) <= k
<1>1. IsWellFoundedOn(Less, Nat)
  BY NatLessThanWellFounded DEF OpToRel, Less
<1>2. PICK m \in T : \A k \in T : ~(<<k, m>> \in Less)
  BY <1>1, WFMin
<1>3. \A k \in T : m <= k
  <2> SUFFICES ASSUME NEW k \in T PROVE m <= k
    OBVIOUS
  <2>1. k \in Nat /\ m \in Nat /\ ~(k < m)
    BY <1>2 DEF Less
  <2> QED BY <2>1
<1> QED BY <1>3 DEF Min

LEMMA Greatest ==
    ASSUME NEW top \in Nat, NEW T \in SUBSET (0 .. top), T # {}
    PROVE  Max(T) \in T /\ \A k \in T : k <= Max(T)
<1> DEFINE D == {top - k : k \in T}
<1>1. D \in SUBSET Nat /\ D # {}
  <2>1. \A k \in T : top - k \in Nat
    OBVIOUS
  <2> QED BY <2>1
<1>2. Min(D) \in D /\ \A k \in D : Min(D) <= k
  <2> HIDE DEF D
  <2> QED BY <1>1, Least
<1>3. PICK m \in T : Min(D) = top - m
  BY <1>2
<1>4. \A k \in T : k <= m
  <2> SUFFICES ASSUME NEW k \in T PROVE k <= m
    OBVIOUS
  <2>1. top - m <= top - k
    BY <1>2, <1>3
  <2> QED BY <2>1
<1> QED BY <1>4 DEF Max

LEMMA MaxOfTwo ==
    ASSUME NEW a \in Int, NEW b \in Int
    PROVE  Max({a, b}) \in {a, b} /\ Max({a, b}) >= a /\ Max({a, b}) >= b
<1>1. CASE a >= b
  BY <1>1 DEF Max
<1>2. CASE b >= a
  BY <1>2 DEF Max
<1> QED BY <1>1, <1>2

LEMMA MinOfTwo ==
    ASSUME NEW a \in Int, NEW b \in Int
    PROVE  Min({a, b}) \in {a, b} /\ Min({a, b}) <= a /\ Min({a, b}) <= b
<1>1. CASE a >= b
  BY <1>1 DEF Min
<1>2. CASE b >= a
  BY <1>2 DEF Min
<1> QED BY <1>1, <1>2

\* What holds of 0 and goes from each number to the next holds up to n.
LEMMA UpTo ==
    ASSUME NEW n \in Nat, NEW S, 0 \in S, \A i \in 1 .. n : i - 1 \in S => i \in S
    PROVE  \A i \in 0 .. n : i \in S
<1> SUFFICES ASSUME {i \in 0 .. n : i \notin S} # {} PROVE FALSE
  OBVIOUS
<1> DEFINE T == {i \in 0 .. n : i \notin S}
<1>1. T \in SUBSET Nat /\ T # {}
  OBVIOUS
<1>2. Min(T) \in T /\ \A k \in T : Min(T) <= k
  <2> HIDE DEF T
  <2> QED BY <1>1, Least
<1>3. Min(T) \in 1 .. n /\ Min(T) - 1 \in 0 .. n
  BY <1>2
<1>4. Min(T) - 1 \in S
  BY <1>2, <1>3
<1> QED BY <1>2, <1>3, <1>4

-----------------------------------------------------------------------------
(* The pass over a list, step by step.                                     *)

Stage(run, i, list, outcome) ==
    IF i = 0 THEN Before(list) ELSE Effected(run[i - 1], i, outcome)

IsRun(run, n, list, outcome) == run = [i \in 0 .. n |-> Stage(run, i, list, outcome)]

LEMMA RunExists ==
    ASSUME NEW list, NEW outcome, NEW n \in Nat
    PROVE  \E run : IsRun(run, n, list, outcome)
<1> DEFINE S == {k \in Nat : \E run : IsRun(run, k, list, outcome)}
<1>1. 0 \in S
  <2> DEFINE g == [i \in 0 .. 0 |-> Before(list)]
  <2>1. \A i \in 0 .. 0 : g[i] = Stage(g, i, list, outcome)
    BY DEF Stage
  <2>2. g = [i \in 0 .. 0 |-> Stage(g, i, list, outcome)]
    BY <2>1
  <2> HIDE DEF g
  <2> QED BY <2>2 DEF IsRun
<1>2. ASSUME NEW k \in 1 .. n, k - 1 \in S PROVE k \in S
  <2>1. PICK h : IsRun(h, k - 1, list, outcome)
    BY <1>2
  <2>2. \A i \in 0 .. k - 1 : h[i] = Stage(h, i, list, outcome)
    BY <2>1 DEF IsRun
  <2> DEFINE g == [i \in 0 .. k |-> IF i = k THEN Stage(h, k, list, outcome) ELSE h[i]]
  <2>3. \A i \in 0 .. k : g[i] = IF i = k THEN Stage(h, k, list, outcome) ELSE h[i]
    OBVIOUS
  <2>4. \A i \in 0 .. k - 1 : g[i] = h[i]
    BY <2>3
  <2>5. DOMAIN g = 0 .. k /\ g = [i \in 0 .. k |-> g[i]]
    OBVIOUS
  <2> HIDE DEF g
  <2>6. \A i \in 0 .. k : g[i] = Stage(g, i, list, outcome)
    <3> SUFFICES ASSUME NEW i \in 0 .. k PROVE g[i] = Stage(g, i, list, outcome)
      OBVIOUS
    <3>1. g[i] = Stage(h, i, list, outcome)
      BY <2>2, <2>3
    <3>2. i # 0 => g[i - 1] = h[i - 1]
      BY <2>4
    <3> QED BY <3>1, <3>2 DEF Stage
  <2>7. g = [i \in 0 .. k |-> Stage(g, i, list, outcome)]
    BY <2>5, <2>6
  <2> QED BY <2>7 DEF IsRun
<1> HIDE DEF S
<1>3. n \in S
  BY <1>1, <1>2, UpTo
<1> QED BY <1>3 DEF S

\* Pass is what the last of the steps leaves.
LEMMA PassSteps ==
    ASSUME NEW list, Len(list) \in Nat, NEW outcome
    PROVE  \E run : /\ run[0] = Before(list)
                    /\ \A i \in 1 .. Len(list) : run[i] = Effected(run[i - 1], i, outcome)
                    /\ Pass(list, outcome) = run[Len(list)]
<1>1. Pass(list, outcome) = (CHOOSE run : IsRun(run, Len(list), list, outcome))[Len(list)]
  BY DEF Pass, IsRun, Stage
<1>2. PICK run : run = CHOOSE r : IsRun(r, Len(list), list, outcome)
  OBVIOUS
<1>3. IsRun(run, Len(list), list, outcome)
  BY <1>2, RunExists
<1>4. \A i \in 0 .. Len(list) : run[i] = Stage(run, i, list, outcome)
  BY <1>3 DEF IsRun
<1>5. run[0] = Before(list)
  BY <1>4 DEF Stage
<1>6. \A i \in 1 .. Len(list) : run[i] = Effected(run[i - 1], i, outcome)
  BY <1>4 DEF Stage
<1> QED BY <1>1, <1>2, <1>5, <1>6

-----------------------------------------------------------------------------
(* Lists of instances.                                                     *)

Lists == Seq(InstanceType)
Deferrals == Seq(Temporal)

\* The same instances, perhaps in other states.
Alike(new, old) ==
    /\ new \in Lists /\ Len(new) = Len(old)
    /\ \A i \in 1 .. Len(old) : new[i].tsd = old[i].tsd /\ new[i].orig = old[i].orig

LEMMA InstanceTypes ==
    ASSUME NEW list \in Lists, NEW i \in 1 .. Len(list)
    PROVE  /\ list[i] \in InstanceType /\ list[i].tsd \in Temporal
           /\ list[i].orig \in States /\ list[i].state \in States
           /\ Date(list[i]) \in Nat \ {0}
<1>1. list[i] \in InstanceType
  BY DEF Lists
<1>2. list[i].tsd \in Temporal /\ list[i].orig \in States /\ list[i].state \in States
  BY <1>1 DEF InstanceType
<1> QED BY <1>1, <1>2 DEF Date, Temporal

LEMMA AlikeDates ==
    ASSUME NEW new, NEW old, Alike(new, old), NEW i \in 1 .. Len(old)
    PROVE  Date(new[i]) = Date(old[i])
BY DEF Alike, Date

NewState(list, i, state, j) ==
    IF j = i THEN state
    ELSE IF state = "REMINDER" THEN (IF j > i THEN "REMINDER" ELSE list[j].state)
    ELSE IF j < i /\ list[j].state = "REMINDER" THEN "POSTPONED" ELSE list[j].state

LEMMA ChangedIs ==
    ASSUME NEW list \in Lists, NEW i \in 1 .. Len(list), NEW state \in States
    PROVE  /\ Alike(Changed(list, i, state), list)
           /\ \A j \in 1 .. Len(list) :
                Changed(list, i, state)[j].state = NewState(list, i, state, j)
<1> DEFINE new == Changed(list, i, state)
<1>1. DOMAIN list = 1 .. Len(list) /\ Len(list) \in Nat
  BY DEF Lists
<1>2. DOMAIN new = 1 .. Len(list)
  BY <1>1 DEF Changed
<1>3. ASSUME NEW j \in 1 .. Len(list)
      PROVE  /\ new[j] \in InstanceType /\ new[j].tsd = list[j].tsd
             /\ new[j].orig = list[j].orig /\ new[j].state = NewState(list, i, state, j)
  <2>1. list[j] \in InstanceType /\ list[j].state \in States
    BY <1>3, InstanceTypes
  <2>2. NewState(list, i, state, j) \in States
    BY <2>1 DEF NewState, States
  <2>3. new[j] = [list[j] EXCEPT !.state = NewState(list, i, state, j)]
    BY <1>1, <1>3 DEF Changed, NewState
  <2> QED BY <2>1, <2>2, <2>3 DEF InstanceType
<1>4. new \in Lists /\ Len(new) = Len(list)
  <2>1. new = [j \in 1 .. Len(list) |-> new[j]]
    BY <1>1 DEF Changed
  <2>2. \A j \in 1 .. Len(list) : new[j] \in InstanceType
    BY <1>3
  <2> HIDE DEF new
  <2>3. new \in [1 .. Len(list) -> InstanceType]
    BY <2>1, <2>2
  <2>4. new \in Seq(InstanceType)
    BY <1>1, <2>3, SeqDef
  <2>5. Len(new) = Len(list)
    BY <1>1, <1>2, <2>4, LenProperties DEF new
  <2> QED BY <2>4, <2>5 DEF Lists
<1> QED BY <1>3, <1>4 DEF Alike

LEMMA Glue ==
    ASSUME NEW S, NEW a \in Seq(S), NEW b \in Seq(S)
    PROVE  /\ a \o b \in Seq(S) /\ Len(a \o b) = Len(a) + Len(b)
           /\ \A i \in 1 .. Len(a) : (a \o b)[i] = a[i]
           /\ \A i \in Len(a) + 1 .. Len(a) + Len(b) : (a \o b)[i] = b[i - Len(a)]
<1>1. Len(a) \in Nat /\ Len(b) \in Nat
  OBVIOUS
<1> QED BY <1>1, ConcatProperties

\* Merging keeps a front of the old list, up to a difference in dates or the end.
IsMerge(list, k, old, new) ==
    /\ list \in Lists /\ Len(list) = Len(new)
    /\ k \in 0 .. Len(new) /\ k <= Len(old)
    /\ \A i \in 1 .. k : list[i] = old[i] /\ Date(old[i]) = Date(new[i])
    /\ \A i \in k + 1 .. Len(new) : list[i] = new[i]
    /\ k < Len(new) /\ k < Len(old) => Date(old[k + 1]) # Date(new[k + 1])

LEMMA MergeIs ==
    ASSUME NEW old \in Lists, NEW new \in Lists
    PROVE  \E k : IsMerge(Merge(old, new), k, old, new)
<1> DEFINE Same(k) == k <= Len(old) /\ k <= Len(new)
                      /\ \A i \in 1 .. k : Date(old[i]) = Date(new[i])
           T == {k \in 0 .. Len(new) : Same(k)}
<1>1. Len(old) \in Nat /\ Len(new) \in Nat
  BY DEF Lists
<1>2. T \in SUBSET (0 .. Len(new)) /\ 0 \in T
  BY <1>1
<1> DEFINE kept == Max(T)
<1>3. Merge(old, new) = SubSeq(old, 1, kept) \o SubSeq(new, kept + 1, Len(new))
  BY DEF Merge
<1>4. kept \in T /\ \A k \in T : k <= kept
  <2> HIDE DEF T
  <2> QED BY <1>1, <1>2, Greatest
<1> HIDE DEF kept
<1>5. PICK k \in 0 .. Len(new) : k = kept
  BY <1>4
<1>6. Same(k) /\ \A j \in T : j <= k
  BY <1>4, <1>5
<1>7. k < Len(new) /\ k < Len(old) => Date(old[k + 1]) # Date(new[k + 1])
  <2> SUFFICES ASSUME k < Len(new), k < Len(old), Date(old[k + 1]) = Date(new[k + 1])
               PROVE  FALSE
    OBVIOUS
  <2>1. k + 1 \in 0 .. Len(new) /\ k + 1 <= Len(old)
    BY <1>1
  <2>2. \A i \in 1 .. k + 1 : Date(old[i]) = Date(new[i])
    BY <1>6
  <2>3. k + 1 \in T
    BY <2>1, <2>2
  <2> QED BY <1>6, <2>3
<1>8. /\ SubSeq(old, 1, k) \in Lists /\ Len(SubSeq(old, 1, k)) = k
      /\ \A i \in 1 .. k : SubSeq(old, 1, k)[i] = old[i]
  <2>1. \A i \in 1 .. k : i \in DOMAIN old
    BY <1>1, <1>6 DEF Lists
  <2> QED BY <1>1, <1>6, <2>1, SubSeqProperties DEF Lists
<1>9. /\ SubSeq(new, k + 1, Len(new)) \in Lists
      /\ Len(SubSeq(new, k + 1, Len(new))) = Len(new) - k
      /\ \A i \in 1 .. Len(new) - k : SubSeq(new, k + 1, Len(new))[i] = new[k + i]
  <2>1. \A i \in k + 1 .. Len(new) : i \in DOMAIN new
    BY <1>1 DEF Lists
  <2> QED BY <1>1, <2>1, SubSeqProperties DEF Lists
<1>10. /\ Merge(old, new) \in Lists /\ Len(Merge(old, new)) = Len(new)
       /\ \A i \in 1 .. k : Merge(old, new)[i] = old[i]
       /\ \A i \in k + 1 .. Len(new) : Merge(old, new)[i] = new[i]
  <2> DEFINE a == SubSeq(old, 1, k)
             b == SubSeq(new, k + 1, Len(new))
  <2>1. Merge(old, new) = a \o b
    BY <1>3, <1>5
  <2>2. a \in Seq(InstanceType) /\ b \in Seq(InstanceType) /\ Len(a) = k /\ Len(b) = Len(new) - k
    BY <1>8, <1>9 DEF Lists
  <2>3. \A i \in 1 .. k : a[i] = old[i]
    BY <1>8
  <2>4. \A i \in k + 1 .. Len(new) : b[i - k] = new[i]
    <3> SUFFICES ASSUME NEW i \in k + 1 .. Len(new) PROVE b[i - k] = new[i]
      OBVIOUS
    <3>1. i - k \in 1 .. Len(new) - k /\ k + (i - k) = i
      BY <1>1
    <3> QED BY <1>9, <3>1
  <2> HIDE DEF a, b
  <2>5. /\ a \o b \in Seq(InstanceType) /\ Len(a \o b) = k + (Len(new) - k)
        /\ \A i \in 1 .. k : (a \o b)[i] = a[i]
        /\ \A i \in k + 1 .. k + (Len(new) - k) : (a \o b)[i] = b[i - k]
    BY <2>2, Glue
  <2>6. k + (Len(new) - k) = Len(new)
    BY <1>1
  <2> QED BY <2>1, <2>3, <2>4, <2>5, <2>6 DEF Lists
<1> QED BY <1>1, <1>6, <1>7, <1>10 DEF IsMerge

\* One more in a list, at p; one less, at p.
Inserted(new, old, p, t) ==
    /\ Len(new) = Len(old) + 1 /\ p \in 1 .. Len(old) + 1
    /\ new[p] = t
    /\ \A i \in 1 .. p - 1 : new[i] = old[i]
    /\ \A i \in p .. Len(old) : new[i + 1] = old[i]

Removed(new, old, p) ==
    /\ Len(old) = Len(new) + 1 /\ p \in 1 .. Len(old)
    /\ \A i \in 1 .. p - 1 : new[i] = old[i]
    /\ \A i \in p + 1 .. Len(old) : new[i - 1] = old[i]

LEMMA InsertAtIs ==
    ASSUME NEW S, NEW s \in Seq(S), NEW p \in 1 .. Len(s) + 1, NEW t \in S
    PROVE  InsertAt(s, p, t) \in Seq(S) /\ Inserted(InsertAt(s, p, t), s, p, t)
<1>1. Len(s) \in Nat /\ \A i \in 1 .. Len(s) : s[i] \in S
  OBVIOUS
<1> DEFINE a == SubSeq(s, 1, p - 1)
           b == SubSeq(s, p, Len(s))
           one == <<t>>
<1>2. a \in Seq(S) /\ Len(a) = p - 1 /\ \A i \in 1 .. p - 1 : a[i] = s[i]
  BY <1>1, SubSeqProperties
<1>3. b \in Seq(S) /\ Len(b) = Len(s) - p + 1 /\ \A i \in 1 .. Len(s) - p + 1 : b[i] = s[p + i - 1]
  BY <1>1, SubSeqProperties
<1>4. one \in Seq(S) /\ Len(one) = 1 /\ one[1] = t
  OBVIOUS
<1>5. InsertAt(s, p, t) = (a \o one) \o b
  BY DEF InsertAt
<1> HIDE DEF a, b, one
<1> DEFINE c == a \o one
<1>6. c \in Seq(S) /\ Len(c) = p /\ \A i \in 1 .. p - 1 : c[i] = s[i]
  <2>1. c \in Seq(S) /\ Len(c) = Len(a) + Len(one) /\ \A i \in 1 .. Len(a) : c[i] = a[i]
    BY <1>2, <1>4, Glue
  <2>2. Len(a) + Len(one) = p
    BY <1>1, <1>2, <1>4
  <2> QED BY <1>2, <2>1, <2>2
<1>7. c[p] = t
  BY <1>2, <1>4, Glue
<1> HIDE DEF c
<1> DEFINE new == c \o b
<1>8. new \in Seq(S) /\ Len(new) = Len(s) + 1 /\ (\A i \in 1 .. p : new[i] = c[i])
      /\ \A i \in p + 1 .. Len(s) + 1 : new[i] = b[i - p]
  BY <1>1, <1>3, <1>6, Glue
<1> HIDE DEF new
<1>9. \A i \in p .. Len(s) : new[i + 1] = s[i]
  <2> SUFFICES ASSUME NEW i \in p .. Len(s) PROVE new[i + 1] = s[i]
    OBVIOUS
  <2>1. new[i + 1] = b[i + 1 - p]
    BY <1>1, <1>8
  <2>2. b[i + 1 - p] = s[p + (i + 1 - p) - 1]
    BY <1>1, <1>3
  <2> QED BY <2>1, <2>2
<1>10. InsertAt(s, p, t) = new
  BY <1>5 DEF c, new
<1> QED BY <1>1, <1>6, <1>7, <1>8, <1>9, <1>10 DEF Inserted

LEMMA RemoveAtIs ==
    ASSUME NEW S, NEW s \in Seq(S), NEW p \in 1 .. Len(s)
    PROVE  RemoveAt(s, p) \in Seq(S) /\ Removed(RemoveAt(s, p), s, p)
<1>1. Len(s) \in Nat /\ \A i \in 1 .. Len(s) : s[i] \in S
  OBVIOUS
<1> DEFINE a == SubSeq(s, 1, p - 1)
           b == SubSeq(s, p + 1, Len(s))
           new == a \o b
<1>2. a \in Seq(S) /\ Len(a) = p - 1 /\ \A i \in 1 .. p - 1 : a[i] = s[i]
  BY <1>1, SubSeqProperties
<1>3. b \in Seq(S) /\ Len(b) = Len(s) - p /\ \A i \in 1 .. Len(s) - p : b[i] = s[p + i]
  <2>1. Len(b) = Len(s) - p
    BY <1>1, SubSeqProperties
  <2>2. b \in Seq(S)
    BY <1>1, SubSeqProperties
  <2>3. \A i \in 1 .. Len(s) - p : b[i] = s[(p + 1) + i - 1]
    BY <1>1, SubSeqProperties
  <2> QED BY <2>1, <2>2, <2>3
<1> HIDE DEF a, b
<1>4. new \in Seq(S) /\ Len(new) = Len(s) - 1 /\ (\A i \in 1 .. p - 1 : new[i] = a[i])
      /\ \A i \in p .. Len(s) - 1 : new[i] = b[i - (p - 1)]
  BY <1>1, <1>2, <1>3, Glue
<1> HIDE DEF new
<1>5. \A i \in p + 1 .. Len(s) : new[i - 1] = s[i]
  <2> SUFFICES ASSUME NEW i \in p + 1 .. Len(s) PROVE new[i - 1] = s[i]
    OBVIOUS
  <2>1. new[i - 1] = b[i - 1 - (p - 1)]
    BY <1>1, <1>4
  <2>2. b[i - p] = s[p + (i - p)]
    BY <1>1, <1>3
  <2> QED BY <2>1, <2>2
<1>6. RemoveAt(s, p) = new
  BY DEF RemoveAt, a, b, new
<1> QED BY <1>1, <1>2, <1>4, <1>5, <1>6 DEF Removed

-----------------------------------------------------------------------------
(* Schedules and the lists made of them.                                   *)

SxType == [last : Dates \cup {0}, count : Nat, remain : 0 .. Total,
           deferred : Seq(Temporal), auto : BOOLEAN, enabled : BOOLEAN]

\* The postponed occurrences are in order, and before what was worked off.
DeferralsOk(q, last) ==
    /\ q \in Deferrals
    /\ \A i \in 1 .. Len(q) : q[i].last + 1 \in Dates /\ q[i].last < last
    /\ \A i, j \in 1 .. Len(q) : i < j => q[i].last <= q[j].last

DatesOf(q) == {q[i].last + 1 : i \in 1 .. Len(q)}

ScheduleOk(s) == s \in SxType /\ DeferralsOk(s.deferred, s.last)

\* How many instances come after the postponed ones.
Left(s, end) ==
    LET due == IF end + Remind > Start(s).last THEN end + Remind - Start(s).last ELSE 0
    IN  IF Total = 0 \/ due <= Start(s).rem THEN due
        ELSE IF Start(s).rem > 0 THEN Start(s).rem ELSE 0

IsGenerated(list, s, end) ==
    LET n == Len(s.deferred) IN
    /\ list \in Lists /\ Len(list) = n + Left(s, end)
    /\ \A i \in 1 .. n : list[i] = Instance(s.deferred[i], "POSTPONED")
    /\ \A i \in n + 1 .. Len(list) :
         /\ Date(list[i]) = Start(s).last + (i - n) /\ Date(list[i]) <= end + Remind
         /\ list[i].state = IF Date(list[i]) <= end THEN "TO_CREATE" ELSE "REMINDER"
         /\ list[i].orig = list[i].state

LEMMA StartIs ==
    ASSUME NEW s, ScheduleOk(s)
    PROVE  /\ Start(s).last \in 0 .. s.last /\ Start(s).rem \in Int /\ Start(s).num \in Nat
           /\ Total = 0 => Start(s).rem \in Nat
           /\ s.last \in Nat /\ s.remain \in Nat /\ Len(s.deferred) \in Nat
           /\ s.deferred = <<>> => Start(s).last = s.last /\ Start(s).rem = s.remain
           /\ s.deferred # <<>> =>
                /\ Len(s.deferred) > 0
                /\ Start(s).last = s.deferred[Len(s.deferred)].last + 1
<1> DEFINE q == s.deferred
           n == Len(q)
<1>1. /\ q \in Seq(Temporal) /\ n \in Nat /\ s.last \in Nat /\ s.remain \in Nat /\ s.count \in Nat
      /\ Total \in Nat /\ \A i \in 1 .. n : q[i].last < s.last
  BY SxAssumption DEF ScheduleOk, SxType, DeferralsOk, Dates
<1>2. CASE q = <<>>
  <2>1. Start(s) = [last |-> s.last, rem |-> s.remain, num |-> s.count]
    BY <1>2 DEF Start
  <2> QED BY <1>1, <1>2, <2>1
<1>3. CASE q # <<>>
  <2>1. n > 0
    BY <1>1, <1>3, EmptySeq
  <2>2. Last(q) = q[n] /\ q[n] \in Temporal /\ q[n].last < s.last
    BY <1>1, <2>1 DEF Last
  <2>3. q[n].last \in Nat /\ q[n].rem \in Nat /\ q[n].num \in Nat
    BY <2>2 DEF Temporal
  <2>4. Start(s) = [last |-> q[n].last + 1, num |-> q[n].num + 1,
                    rem |-> IF Total = 0 THEN q[n].rem ELSE q[n].rem - 1]
    BY <1>3, <2>2 DEF Start, After
  <2> QED BY <1>1, <1>3, <2>1, <2>2, <2>3, <2>4
<1> QED BY <1>2, <1>3

LEMMA GenerateIs ==
    ASSUME NEW s, ScheduleOk(s), NEW end \in Nat
    PROVE  IsGenerated(Generate(s, end), s, end) /\ Left(s, end) \in Nat
<1> DEFINE q == s.deferred
           n == Len(q)
           start == Start(s)
           due == Max({0, end + Remind - start.last})
           left == IF Total = 0 THEN due ELSE Min({due, start.rem})
           t(i) == After(start, i - 1)
           a == [i \in DOMAIN q |-> Instance(q[i], "POSTPONED")]
           b == [i \in 1 .. left |->
                    Instance(t(i), IF t(i).last + 1 <= end THEN "TO_CREATE" ELSE "REMINDER")]
<1>1. /\ start.last \in Nat /\ start.rem \in Int /\ start.num \in Nat /\ n \in Nat
      /\ Remind \in Nat /\ Total \in Nat /\ (Total = 0 => start.rem \in Nat)
  BY StartIs, SxAssumption
<1>2. Left(s, end) \in Nat /\ 1 .. left = 1 .. Left(s, end)
      /\ (Left(s, end) > 0 => Left(s, end) <= end + Remind - start.last)
      /\ (Left(s, end) > 0 => Total = 0 \/ Left(s, end) <= start.rem)
  <2>1. due = IF end + Remind > start.last THEN end + Remind - start.last ELSE 0
    <3>1. PICK x \in Int : x = end + Remind - start.last
      BY <1>1
    <3>2. Max({0, x}) \in {0, x} /\ Max({0, x}) >= 0 /\ Max({0, x}) >= x
      BY MaxOfTwo
    <3>3. due = Max({0, x})
      BY <3>1
    <3> HIDE DEF due
    <3> QED BY <1>1, <3>1, <3>2, <3>3
  <2>2. due \in Nat
    BY <1>1, <2>1
  <2>3. Total # 0 => left \in {due, start.rem} /\ left <= due /\ left <= start.rem
    <3> HIDE DEF due
    <3>1. PICK x \in Int, y \in Int : x = due /\ y = start.rem
      BY <1>1, <2>2
    <3>2. Min({x, y}) \in {x, y} /\ Min({x, y}) <= x /\ Min({x, y}) <= y
      BY MinOfTwo
    <3>3. Total # 0 => left = Min({x, y})
      BY <3>1
    <3> HIDE DEF left
    <3> QED BY <3>1, <3>2, <3>3
  <2>4. Total = 0 => left = due
    OBVIOUS
  <2> HIDE DEF due, left
  <2>5. Left(s, end) = IF Total = 0 \/ due <= start.rem THEN due
                       ELSE IF start.rem > 0 THEN start.rem ELSE 0
    BY <2>1 DEF Left
  <2>6. Left(s, end) \in Nat /\ Left(s, end) <= due
    BY <1>1, <2>2, <2>5
  <2>7. Left(s, end) = left \/ (Left(s, end) = 0 /\ left \in Int /\ left <= 0)
    BY <1>1, <2>2, <2>3, <2>4, <2>5
  <2>8. Left(s, end) > 0 => Left(s, end) <= end + Remind - start.last
    BY <1>1, <2>1, <2>2, <2>6
  <2>9. 1 .. left = 1 .. Left(s, end)
    BY <2>6, <2>7
  <2>10. Left(s, end) > 0 => Total = 0 \/ Left(s, end) <= start.rem
    BY <1>1, <2>2, <2>5
  <2> QED BY <2>6, <2>8, <2>9, <2>10
<1>3. Generate(s, end) = a \o b
  BY DEF Generate
<1> HIDE DEF left
<1>4. \A i \in 1 .. n : q[i] \in Temporal
  BY DEF ScheduleOk, SxType
<1>5. a \in Seq(InstanceType) /\ Len(a) = n /\ \A i \in 1 .. n : a[i] = Instance(q[i], "POSTPONED")
  <2>1. DOMAIN q = 1 .. n
    BY DEF ScheduleOk, SxType
  <2>2. \A i \in 1 .. n : Instance(q[i], "POSTPONED") \in InstanceType
    BY <1>4 DEF Instance, InstanceType, States
  <2>3. a \in [1 .. n -> InstanceType]
    BY <2>1, <2>2
  <2>4. a \in Seq(InstanceType) /\ DOMAIN a = 1 .. n
    BY <1>1, <2>1, <2>3, SeqDef
  <2>5. Len(a) = n
    BY <1>1, <2>4, LenProperties
  <2> QED BY <2>1, <2>4, <2>5
<1>6. ASSUME NEW i \in 1 .. Left(s, end)
      PROVE  /\ b[i] \in InstanceType /\ Date(b[i]) = start.last + i
             /\ Date(b[i]) <= end + Remind
             /\ b[i].state = IF Date(b[i]) <= end THEN "TO_CREATE" ELSE "REMINDER"
             /\ b[i].orig = b[i].state
  <2>1. t(i) = [last |-> start.last + (i - 1), num |-> start.num + (i - 1),
                rem |-> IF Total = 0 THEN start.rem ELSE start.rem - (i - 1)]
    BY DEF After
  <2>2. i \in Nat /\ Left(s, end) \in Nat /\ 1 <= i /\ i <= Left(s, end)
    BY <1>2
  <2> DEFINE u == t(i)
  <2>3. u.last = start.last + (i - 1) /\ u.num = start.num + (i - 1)
        /\ u.rem = IF Total = 0 THEN start.rem ELSE start.rem - (i - 1)
    BY <2>1
  <2>4. u = [last |-> u.last, rem |-> u.rem, num |-> u.num]
    BY <2>1
  <2>5. b[i] = Instance(u, IF u.last + 1 <= end THEN "TO_CREATE" ELSE "REMINDER")
    BY <1>2
  <2> HIDE DEF u, t, b, start
  <2>6. u.last \in Nat /\ u.last + 1 = start.last + i /\ u.num \in Nat
    BY <1>1, <2>2, <2>3
  <2>7. start.last + i <= end + Remind
    BY <1>1, <1>2, <2>2
  <2>8. u.rem \in Nat
    BY <1>1, <1>2, <2>2, <2>3
  <2>9. u \in Temporal
    BY <2>4, <2>6, <2>8 DEF Temporal
  <2> QED BY <2>5, <2>6, <2>7, <2>9 DEF Instance, InstanceType, States, Date
<1> HIDE DEF a, b
<1>7. b \in Seq(InstanceType) /\ Len(b) = Left(s, end)
  <2>1. b \in [1 .. Left(s, end) -> InstanceType]
    <3>1. \A i \in 1 .. Left(s, end) : b[i] \in InstanceType
      BY <1>6
    <3>2. b = [i \in 1 .. Left(s, end) |-> b[i]]
      BY <1>2 DEF b
    <3> QED BY <3>1, <3>2
  <2>2. b \in Seq(InstanceType) /\ DOMAIN b = 1 .. Left(s, end)
    BY <1>2, <2>1, SeqDef
  <2> QED BY <1>2, <2>2, LenProperties
<1>8. /\ a \o b \in Seq(InstanceType) /\ Len(a \o b) = n + Left(s, end)
      /\ \A i \in 1 .. n : (a \o b)[i] = a[i]
      /\ \A i \in n + 1 .. n + Left(s, end) : (a \o b)[i] = b[i - n]
  <2>1. /\ a \o b \in Seq(InstanceType) /\ Len(a \o b) = Len(a) + Len(b)
        /\ \A i \in 1 .. Len(a) : (a \o b)[i] = a[i]
        /\ \A i \in Len(a) + 1 .. Len(a) + Len(b) : (a \o b)[i] = b[i - Len(a)]
    BY <1>5, <1>7, Glue, ZenonT(60)
  <2>2. Len(a) = n /\ Len(b) = Left(s, end)
    BY <1>5, <1>7
  <2> HIDE DEF n
  <2> QED BY <2>1, <2>2
<1>9. ASSUME NEW i \in n + 1 .. n + Left(s, end)
      PROVE  (a \o b)[i] = b[i - n] /\ i - n \in 1 .. Left(s, end)
  BY <1>1, <1>2, <1>8
<1> DEFINE list == a \o b
<1>10. \A i \in 1 .. n : list[i] = Instance(s.deferred[i], "POSTPONED")
  BY <1>5, <1>8
<1>11. \A i \in n + 1 .. n + Left(s, end) :
         /\ Date(list[i]) = start.last + (i - n) /\ Date(list[i]) <= end + Remind
         /\ list[i].state = IF Date(list[i]) <= end THEN "TO_CREATE" ELSE "REMINDER"
         /\ list[i].orig = list[i].state
  BY <1>6, <1>9
<1>12. list \in Seq(InstanceType) /\ Len(list) = n + Left(s, end)
  BY <1>8
<1>13. Generate(s, end) = list
  BY <1>3
<1> HIDE DEF list
<1> QED BY <1>2, <1>10, <1>11, <1>12, <1>13 DEF IsGenerated, Lists

-----------------------------------------------------------------------------
(* What holds of the lists that the dialogs show: of a list with the dates *)
(* up to end, for the schedule s, where E are the dates that are exposed,  *)
(* F those that failed, and M counts what was made.                        *)

\* First what was worked off, then one day after the other; without a limit up to
\* the last day.
Shaped(list, end, s) ==
    \E n \in 0 .. Len(list), b \in 0 .. s.last :
        /\ \A i \in 1 .. n : Date(list[i]) <= s.last
        /\ \A i \in n + 1 .. Len(list) : Date(list[i]) = b + (i - n)
        /\ Total = 0 /\ n < Len(list) => b + (Len(list) - n) = end + Remind

OrigWorked(list, s) ==
    \A i \in 1 .. Len(list) : list[i].orig = "POSTPONED" => Date(list[i]) <= s.last

RemindersFollow(list, s) ==
    Total = 0 => \A i, j \in 1 .. Len(list) :
        i < j /\ list[i].state = "REMINDER" /\ Date(list[i]) > s.last
            => list[j].state = "REMINDER"

CreatedMade(list, M) ==
    \A i \in 1 .. Len(list) : list[i].state = "CREATED" => M[Date(list[i])] > 0

WorkedKnown(list, s, E, F) ==
    \A i \in 1 .. Len(list) :
        \/ Date(list[i]) > s.last \/ list[i].state = "CREATED"
        \/ Date(list[i]) \in E \cup F \cup DatesOf(s.deferred)

ListedOnce(list, E) ==
    \A i, j \in 1 .. Len(list) :
        i < j /\ Date(list[i]) = Date(list[j]) => Date(list[i]) \in E

OrigKnown(list, s, E) ==
    \A i \in 1 .. Len(list) :
        Date(list[i]) \in DatesOf(s.deferred) => Date(list[i]) \in E \/ list[i].orig = "POSTPONED"

InOrder(list) ==
    \A i, j \in 1 .. Len(list) :
        i < j /\ list[i].state = "REMINDER" => list[j].state = "REMINDER"

LastUnless(list, E) ==
    (\A i \in 1 .. Len(list) : Date(list[i]) \notin E) => InOrder(list)

\* A list for a schedule of which nothing is postponed.
FreshLen(s, end) ==
    LET due == IF end + Remind > s.last THEN end + Remind - s.last ELSE 0
    IN  IF Total = 0 \/ due <= s.remain THEN due ELSE s.remain

Fresh(list, end, s) ==
    /\ FreshLen(s, end) <= Len(list)
    /\ \A i \in 1 .. Len(list) : Date(list[i]) = s.last + i

StartKnown(list, end, s) ==
    list = <<>> \/ Date(list[1]) <= s.last \/ Fresh(list, end, s)

SameDates(a, b) ==
    Len(a) = Len(b) /\ \A i \in 1 .. Len(b) : Date(a[i]) = Date(b[i])

AsGenerated(list, end, s, E) ==
    list = <<>> \/ DatesOf(s.deferred) \subseteq E \/ SameDates(list, Generate(s, end))

ListFit(list, end, s, E, M) ==
    /\ list \in Lists /\ \A i \in 1 .. Len(list) : Date(list[i]) \in Dates
    /\ Shaped(list, end, s) /\ OrigWorked(list, s)
    /\ RemindersFollow(list, s) /\ CreatedMade(list, M)
    /\ ListedOnce(list, E) /\ OrigKnown(list, s, E)
    /\ LastUnless(list, E) /\ StartKnown(list, end, s) /\ AsGenerated(list, end, s, E)

ListOk(list, end, s, E, F, M) ==
    ListFit(list, end, s, E, M) /\ WorkedKnown(list, s, E, F)

\* What holds of the schedule.
PostponedOnce(q, E) ==
    \A i, j \in 1 .. Len(q) : i < j /\ q[i].last = q[j].last => q[i].last + 1 \in E

SxOk(s, E) ==
    /\ ScheduleOk(s) /\ PostponedOnce(s.deferred, E)
    /\ Start(s).last + 1 .. s.last \subseteq E
    /\ E \subseteq 1 .. s.last

\* The schedule t follows s, and list is what becomes of the list old.
Follows(t, s, E) ==
    /\ s.last \in Nat /\ s.remain \in Nat
    /\ t.deferred = s.deferred /\ t.last >= s.last /\ t.remain <= s.remain
    /\ \/ t.last = s.last /\ t.count = s.count /\ t.remain = s.remain
       \/ DatesOf(s.deferred) \subseteq E

MergeCase(list, k, old, end, t, s, E, F, M) ==
    /\ IsMerge(list, k, old, Generate(t, end))
    /\ ListFit(old, end, s, E, M)
    /\ SxOk(t, E) /\ Follows(t, s, E) /\ end \in 0 .. MaxDate

LEMMA EmptyListOk ==
    ASSUME NEW end, NEW s, NEW E, NEW F, NEW M, s.last \in Nat
    PROVE  ListOk(<<>>, end, s, E, F, M)
<1>1. <<>> \in Lists /\ Len(<<>>) = 0
  BY DEF Lists
<1>2. Shaped(<<>>, end, s)
  <2>1. 0 \in 0 .. Len(<<>>) /\ 0 \in 0 .. s.last
    BY <1>1
  <2> QED BY <1>1, <2>1 DEF Shaped
<1> QED BY <1>1, <1>2 DEF ListOk, ListFit, OrigWorked, RemindersFollow, CreatedMade, WorkedKnown,
           ListedOnce, OrigKnown, LastUnless, InOrder, StartKnown, AsGenerated

\* The dates of a generated list.
Dated(new, t, end) ==
    LET n == Len(t.deferred) IN
    /\ new \in Lists /\ n \in 0 .. Len(new) /\ Len(new) \in Nat
    /\ Start(t).last \in 0 .. t.last /\ t.last \in Nat /\ end \in Nat
    /\ \A i \in 1 .. n :
         /\ Date(new[i]) = t.deferred[i].last + 1 /\ Date(new[i]) <= Start(t).last
         /\ Date(new[i]) \in DatesOf(t.deferred)
         /\ new[i].orig = "POSTPONED" /\ new[i].state = "POSTPONED"
    /\ \A i \in n + 1 .. Len(new) :
         /\ Date(new[i]) = Start(t).last + (i - n) /\ Date(new[i]) <= end + Remind
         /\ Date(new[i]) > Start(t).last /\ Date(new[i]) \notin DatesOf(t.deferred)
         /\ new[i].state = IF Date(new[i]) <= end THEN "TO_CREATE" ELSE "REMINDER"
         /\ new[i].orig = new[i].state
    /\ \A i \in 1 .. Len(new) : Date(new[i]) \in Dates

LEMMA GeneratedDates ==
    ASSUME NEW t, ScheduleOk(t), NEW end \in 0 .. MaxDate, NEW new, IsGenerated(new, t, end)
    PROVE  Dated(new, t, end)
<1> DEFINE n == Len(t.deferred)
<1>1. /\ Start(t).last \in 0 .. t.last /\ t.last \in Nat /\ n \in Nat
      /\ (n > 0 => Start(t).last = t.deferred[n].last + 1)
  <2>1. n > 0 => t.deferred # <<>>
    BY DEF ScheduleOk, SxType
  <2> QED BY <2>1, StartIs
<1>2. Left(t, end) \in Nat /\ end \in Nat /\ MaxDate \in Nat /\ Remind \in Nat /\ end <= MaxDate
  BY SxAssumption, GenerateIs
<1>3. new \in Lists /\ n \in 0 .. Len(new) /\ Len(new) \in Nat
  BY <1>1, <1>2 DEF IsGenerated
<1>4. ASSUME NEW i \in 1 .. n
      PROVE  /\ t.deferred[i].last \in Nat /\ t.deferred[i].last + 1 \in Dates
             /\ t.deferred[i].last + 1 <= Start(t).last
  <2>1. n \in 1 .. n /\ t.deferred[i] \in Temporal /\ t.deferred[n] \in Temporal
    BY <1>1 DEF ScheduleOk, SxType
  <2>2. i = n \/ t.deferred[i].last <= t.deferred[n].last
    BY <1>1, <2>1 DEF ScheduleOk, DeferralsOk
  <2>3. t.deferred[i].last \in Nat /\ t.deferred[n].last \in Nat
    BY <2>1 DEF Temporal
  <2>4. t.deferred[i].last + 1 \in Dates
    BY DEF ScheduleOk, DeferralsOk
  <2> QED BY <1>1, <2>2, <2>3, <2>4
<1>5. ASSUME NEW i \in 1 .. n
      PROVE  /\ Date(new[i]) = t.deferred[i].last + 1 /\ Date(new[i]) <= Start(t).last
             /\ Date(new[i]) \in DatesOf(t.deferred) /\ Date(new[i]) \in Dates
             /\ new[i].orig = "POSTPONED" /\ new[i].state = "POSTPONED"
  <2>1. new[i] = Instance(t.deferred[i], "POSTPONED")
    BY DEF IsGenerated
  <2>2. /\ new[i].tsd = t.deferred[i] /\ new[i].orig = "POSTPONED"
        /\ new[i].state = "POSTPONED"
    BY <2>1 DEF Instance
  <2>3. Date(new[i]) = t.deferred[i].last + 1
    BY <2>2 DEF Date
  <2> QED BY <1>4, <2>2, <2>3 DEF DatesOf
<1>6. ASSUME NEW i \in n + 1 .. Len(new)
      PROVE  /\ Date(new[i]) = Start(t).last + (i - n) /\ Date(new[i]) <= end + Remind
             /\ Date(new[i]) > Start(t).last /\ Date(new[i]) \notin DatesOf(t.deferred)
             /\ Date(new[i]) \in Dates
             /\ new[i].state = IF Date(new[i]) <= end THEN "TO_CREATE" ELSE "REMINDER"
             /\ new[i].orig = new[i].state
  <2>1. /\ Date(new[i]) = Start(t).last + (i - n) /\ Date(new[i]) <= end + Remind
        /\ new[i].state = IF Date(new[i]) <= end THEN "TO_CREATE" ELSE "REMINDER"
        /\ new[i].orig = new[i].state
    BY DEF IsGenerated
  <2>2. Date(new[i]) > Start(t).last /\ Date(new[i]) \in Nat
    BY <1>1, <1>3, <2>1
  <2>3. Date(new[i]) \notin DatesOf(t.deferred)
    <3> SUFFICES ASSUME NEW j \in 1 .. n, Date(new[i]) = t.deferred[j].last + 1 PROVE FALSE
      BY DEF DatesOf
    <3> QED BY <1>1, <1>4, <2>2
  <2>4. Date(new[i]) \in Dates
    BY <1>1, <1>2, <2>1, <2>2 DEF Dates
  <2> QED BY <2>1, <2>2, <2>3, <2>4
<1>7. \A i \in 1 .. Len(new) : i \in 1 .. n \/ i \in n + 1 .. Len(new)
  BY <1>1, <1>3
<1> QED BY <1>1, <1>2, <1>3, <1>5, <1>6, <1>7 DEF Dated

LEMMA MergeFacts ==
    ASSUME NEW list, NEW k, NEW old, NEW end, NEW t, NEW s, NEW E, NEW F, NEW M,
           MergeCase(list, k, old, end, t, s, E, F, M)
    PROVE  /\ IsGenerated(Generate(t, end), t, end) /\ Dated(Generate(t, end), t, end)
           /\ list \in Lists /\ Len(list) \in Nat /\ Len(old) \in Nat /\ k \in Nat
           /\ SameDates(list, Generate(t, end))
           /\ s.last \in Nat /\ t.last \in Nat /\ s.last <= t.last
<1> DEFINE new == Generate(t, end)
<1>1. ScheduleOk(t) /\ end \in 0 .. MaxDate /\ end \in Nat /\ MaxDate \in Nat
      /\ IsMerge(list, k, old, new) /\ old \in Lists
  BY SxAssumption DEF MergeCase, SxOk, ListFit
<1>2. IsGenerated(new, t, end)
  BY <1>1, GenerateIs
<1>3. Dated(new, t, end)
  BY <1>1, <1>2, GeneratedDates
<1> HIDE DEF new
<1>4. list \in Lists /\ Len(list) \in Nat /\ Len(old) \in Nat /\ k \in Nat
      /\ Len(new) \in Nat /\ Len(list) = Len(new)
  BY <1>1, <1>3 DEF IsMerge, Dated, Lists
<1>5. SameDates(list, new)
  <2> SUFFICES ASSUME NEW i \in 1 .. Len(new) PROVE Date(list[i]) = Date(new[i])
    BY <1>4 DEF SameDates
  <2>1. CASE i <= k
    BY <1>1, <1>4, <2>1 DEF IsMerge
  <2>2. CASE i > k
    <3>1. i \in k + 1 .. Len(new)
      BY <1>4, <2>2
    <3> QED BY <1>1, <3>1 DEF IsMerge
  <2> QED BY <1>4, <2>1, <2>2
<1>6. s.last \in Nat /\ t.last \in Nat /\ s.last <= t.last
  BY <1>3 DEF MergeCase, Follows, Dated
<1> QED BY <1>2, <1>3, <1>4, <1>5, <1>6 DEF new

\* The instances of a merged list.
LEMMA MergedFrom ==
    ASSUME NEW list, NEW k, NEW old, NEW end, NEW t, NEW s, NEW E, NEW F, NEW M,
           MergeCase(list, k, old, end, t, s, E, F, M), NEW i \in 1 .. Len(list)
    PROVE  \/ i <= k /\ i \in 1 .. Len(old) /\ list[i] = old[i]
           \/ i > k /\ i \in 1 .. Len(Generate(t, end)) /\ list[i] = Generate(t, end)[i]
<1> DEFINE new == Generate(t, end)
<1>1. Len(list) \in Nat /\ Len(old) \in Nat /\ k \in Nat /\ IsMerge(list, k, old, new)
  BY MergeFacts DEF MergeCase
<1> HIDE DEF new
<1>2. CASE i <= k
  BY <1>1, <1>2 DEF IsMerge
<1>3. ASSUME i > k PROVE i \in 1 .. Len(new) /\ list[i] = new[i]
  <2>1. Len(list) = Len(new) /\ \A j \in k + 1 .. Len(new) : list[j] = new[j]
    BY <1>1 DEF IsMerge
  <2>2. i \in k + 1 .. Len(new) /\ i \in 1 .. Len(new)
    BY <1>1, <1>3, <2>1
  <2> QED BY <2>1, <2>2
<1> QED BY <1>1, <1>2, <1>3 DEF new

LEMMA MergedShaped ==
    ASSUME NEW list, NEW k, NEW old, NEW end, NEW t, NEW s, NEW E, NEW F, NEW M,
           MergeCase(list, k, old, end, t, s, E, F, M)
    PROVE  Shaped(list, end, t)
<1> DEFINE new == Generate(t, end)
           n == Len(t.deferred)
           b == Start(t).last
<1>1. IsGenerated(new, t, end) /\ Dated(new, t, end) /\ SameDates(list, new) /\ Len(list) \in Nat
  BY MergeFacts
<1> HIDE DEF new
<1>2. n \in 0 .. Len(list) /\ b \in 0 .. t.last /\ t.last \in Nat /\ end \in Nat
  BY <1>1 DEF Dated, SameDates
<1>3. \A i \in 1 .. n : Date(list[i]) <= t.last
  <2> SUFFICES ASSUME NEW i \in 1 .. n PROVE Date(list[i]) <= t.last
    OBVIOUS
  <2>1. Date(list[i]) = t.deferred[i].last + 1 /\ t.deferred[i].last < t.last
        /\ t.deferred[i].last \in Nat
    <3>1. ScheduleOk(t)
      BY DEF MergeCase, SxOk
    <3>2. t.deferred[i] \in Temporal /\ t.deferred[i].last < t.last
      BY <3>1 DEF ScheduleOk, DeferralsOk, SxType
    <3>3. i \in 1 .. Len(new) /\ Date(new[i]) = t.deferred[i].last + 1
      BY <1>1, <1>2 DEF Dated, SameDates
    <3> QED BY <1>1, <3>2, <3>3 DEF SameDates, Temporal
  <2> QED BY <1>2, <2>1
<1>4. \A i \in n + 1 .. Len(list) : Date(list[i]) = b + (i - n)
  <2> SUFFICES ASSUME NEW i \in n + 1 .. Len(list) PROVE Date(list[i]) = b + (i - n)
    OBVIOUS
  <2>1. i \in 1 .. Len(list)
    BY <1>1, <1>2
  <2> QED BY <1>1, <2>1 DEF Dated, SameDates
<1>5. Total = 0 /\ n < Len(list) => b + (Len(list) - n) = end + Remind
  <2>1. Total = 0 /\ n < Len(list) => Len(list) - n = end + Remind - b
    <3>1. Len(list) = n + Left(t, end) /\ n \in Nat
      BY <1>1, <1>2 DEF IsGenerated, SameDates
    <3>2. Total = 0 => Left(t, end) = IF end + Remind > b THEN end + Remind - b ELSE 0
      BY DEF Left
    <3>3. Remind \in Nat
      BY SxAssumption
    <3> QED BY <1>1, <1>2, <3>1, <3>2, <3>3
  <2>2. Remind \in Nat
    BY SxAssumption
  <2> QED BY <1>1, <1>2, <2>1, <2>2
<1> HIDE DEF n, b
<1> QED BY <1>2, <1>3, <1>4, <1>5 DEF Shaped

LEMMA MergedOrig ==
    ASSUME NEW list, NEW k, NEW old, NEW end, NEW t, NEW s, NEW E, NEW F, NEW M,
           MergeCase(list, k, old, end, t, s, E, F, M)
    PROVE  OrigWorked(list, t)
<1> DEFINE new == Generate(t, end)
<1>1. Dated(new, t, end) /\ s.last \in Nat /\ t.last \in Nat /\ s.last <= t.last
  BY MergeFacts
<1>2. \A i \in 1 .. Len(old) : old[i].orig = "POSTPONED" => Date(old[i]) <= s.last
  BY DEF MergeCase, ListFit, OrigWorked
<1>3. \A i \in 1 .. Len(old) : Date(old[i]) \in Nat
  <2>1. old \in Lists
    BY DEF MergeCase, ListFit
  <2> QED BY <2>1, InstanceTypes
<1>4. \A i \in 1 .. Len(new) : new[i].orig = "POSTPONED" => Date(new[i]) <= t.last
  <2> SUFFICES ASSUME NEW i \in 1 .. Len(new), new[i].orig = "POSTPONED"
               PROVE  Date(new[i]) <= t.last
    OBVIOUS
  <2>1. i \in Len(t.deferred) + 1 .. Len(new) => new[i].orig \in {"TO_CREATE", "REMINDER"}
    BY <1>1 DEF Dated
  <2>2. i \in 1 .. Len(t.deferred)
    BY <1>1, <2>1 DEF Dated
  <2>3. Date(new[i]) <= Start(t).last /\ Date(new[i]) \in Dates
    BY <1>1, <2>2 DEF Dated
  <2> QED BY <1>1, <2>3 DEF Dated, Dates
<1> HIDE DEF new
<1> SUFFICES ASSUME NEW i \in 1 .. Len(list), list[i].orig = "POSTPONED"
             PROVE  Date(list[i]) <= t.last
  BY DEF OrigWorked
<1>5. \/ i \in 1 .. Len(old) /\ list[i] = old[i]
      \/ i \in 1 .. Len(new) /\ list[i] = new[i]
  BY MergedFrom DEF new
<1> QED BY <1>1, <1>2, <1>3, <1>4, <1>5

LEMMA MergedCreated ==
    ASSUME NEW list, NEW k, NEW old, NEW end, NEW t, NEW s, NEW E, NEW F, NEW M,
           MergeCase(list, k, old, end, t, s, E, F, M)
    PROVE  CreatedMade(list, M)
<1> DEFINE new == Generate(t, end)
<1>1. Dated(new, t, end)
  BY MergeFacts
<1>2. \A i \in 1 .. Len(new) : new[i].state # "CREATED"
  <2> SUFFICES ASSUME NEW i \in 1 .. Len(new) PROVE new[i].state # "CREATED"
    OBVIOUS
  <2>1. i \in 1 .. Len(t.deferred) \/ i \in Len(t.deferred) + 1 .. Len(new)
    BY <1>1 DEF Dated
  <2> QED BY <1>1, <2>1 DEF Dated
<1> HIDE DEF new
<1>3. CreatedMade(old, M)
  BY DEF MergeCase, ListFit
<1> SUFFICES ASSUME NEW i \in 1 .. Len(list), list[i].state = "CREATED"
             PROVE  M[Date(list[i])] > 0
  BY DEF CreatedMade
<1>4. \/ i \in 1 .. Len(old) /\ list[i] = old[i]
      \/ i \in 1 .. Len(new) /\ list[i] = new[i]
  BY MergedFrom DEF new
<1> QED BY <1>2, <1>3, <1>4 DEF CreatedMade

LEMMA MergedReminders ==
    ASSUME NEW list, NEW k, NEW old, NEW end, NEW t, NEW s, NEW E, NEW F, NEW M,
           MergeCase(list, k, old, end, t, s, E, F, M)
    PROVE  RemindersFollow(list, t)
<1> DEFINE new == Generate(t, end)
<1>1. /\ Dated(new, t, end) /\ SameDates(list, new) /\ IsMerge(list, k, old, new)
      /\ s.last \in Nat /\ t.last \in Nat /\ s.last <= t.last
      /\ Len(list) \in Nat /\ Len(old) \in Nat /\ k \in Nat
  BY MergeFacts DEF MergeCase
<1>2. Shaped(list, end, t) /\ Shaped(old, end, s) /\ RemindersFollow(old, s)
  BY MergedShaped DEF MergeCase, ListFit
<1>3. ASSUME NEW i \in 1 .. Len(list)
      PROVE  \/ i <= k /\ i \in 1 .. Len(old) /\ list[i] = old[i]
             \/ i > k /\ i \in 1 .. Len(new) /\ list[i] = new[i]
  BY MergedFrom
<1>4. \A i \in 1 .. Len(list) : Date(list[i]) \in Nat
  <2>1. list \in Lists
    BY MergeFacts
  <2> QED BY <2>1, InstanceTypes
<1> HIDE DEF new
<1> SUFFICES ASSUME Total = 0, NEW i \in 1 .. Len(list), NEW j \in 1 .. Len(list), i < j,
                    list[i].state = "REMINDER", Date(list[i]) > t.last
             PROVE  list[j].state = "REMINDER"
  BY DEF RemindersFollow
<1>5. CASE j <= k
  <2>1. i <= k
    BY <1>1, <1>5
  <2>2. i \in 1 .. Len(old) /\ j \in 1 .. Len(old) /\ list[i] = old[i] /\ list[j] = old[j]
    BY <1>1, <1>3, <1>5, <2>1
  <2>3. Date(old[i]) > s.last
    BY <1>1, <1>4, <2>2
  <2> QED BY <1>2, <2>2, <2>3 DEF RemindersFollow
<1>6. CASE i > k
  <2>1. i \in 1 .. Len(new) /\ j \in 1 .. Len(new) /\ list[i] = new[i] /\ list[j] = new[j]
    BY <1>1, <1>3, <1>6
  <2>2. PICK n \in 0 .. Len(new) : n = Len(t.deferred)
    BY <1>1 DEF Dated
  <2>3. i \in n + 1 .. Len(new)
    <3>1. \A p \in 1 .. n : new[p].state = "POSTPONED"
      BY <1>1, <2>2 DEF Dated
    <3>2. i \notin 1 .. n
      BY <2>1, <3>1
    <3>3. Len(new) \in Nat
      BY <1>1 DEF Dated
    <3> QED BY <2>1, <3>2, <3>3
  <2>4. j \in n + 1 .. Len(new)
    <3>1. Len(new) \in Nat
      BY <1>1 DEF Dated
    <3> QED BY <2>1, <2>3, <3>1
  <2>5. /\ Date(new[i]) = Start(t).last + (i - n) /\ Date(new[j]) = Start(t).last + (j - n)
        /\ new[i].state = IF Date(new[i]) <= end THEN "TO_CREATE" ELSE "REMINDER"
        /\ new[j].state = IF Date(new[j]) <= end THEN "TO_CREATE" ELSE "REMINDER"
        /\ Start(t).last \in Nat /\ end \in Nat
    BY <1>1, <2>2, <2>3, <2>4 DEF Dated
  <2>6. Date(new[i]) > end
    BY <2>1, <2>5
  <2>7. Date(new[j]) > end
    BY <2>5, <2>6
  <2> QED BY <2>1, <2>5, <2>7
<1>7. CASE i <= k /\ k < j
  <2>1. i \in 1 .. Len(old) /\ list[i] = old[i]
    BY <1>3, <1>1, <1>7
  <2>2. PICK n \in 0 .. Len(list), b \in 0 .. t.last :
          /\ \A p \in 1 .. n : Date(list[p]) <= t.last
          /\ \A p \in n + 1 .. Len(list) : Date(list[p]) = b + (p - n)
          /\ n < Len(list) => b + (Len(list) - n) = end + Remind
    BY <1>2 DEF Shaped
  <2>3. PICK n1 \in 0 .. Len(old), b1 \in 0 .. s.last :
          /\ \A p \in 1 .. n1 : Date(old[p]) <= s.last
          /\ \A p \in n1 + 1 .. Len(old) : Date(old[p]) = b1 + (p - n1)
          /\ n1 < Len(old) => b1 + (Len(old) - n1) = end + Remind
    BY <1>2 DEF Shaped
  <2>4. i \in n + 1 .. Len(list)
    <3>1. i \notin 1 .. n
      BY <1>1, <1>4, <2>2
    <3> QED BY <1>1, <3>1
  <2>5. i \in n1 + 1 .. Len(old)
    <3>1. i \notin 1 .. n1
      BY <1>1, <1>4, <2>1, <2>3
    <3> QED BY <1>1, <2>1, <3>1
  <2>6. b + (i - n) = b1 + (i - n1) /\ b + (Len(list) - n) = b1 + (Len(old) - n1)
    <3>1. n < Len(list) /\ n1 < Len(old)
      BY <1>1, <2>4, <2>5
    <3>2. Date(list[i]) = b + (i - n) /\ Date(old[i]) = b1 + (i - n1)
      BY <2>2, <2>3, <2>4, <2>5
    <3>3. b + (Len(list) - n) = end + Remind /\ b1 + (Len(old) - n1) = end + Remind
      BY <2>2, <2>3, <3>1
    <3> QED BY <2>1, <3>2, <3>3
  <2>7. Len(old) = Len(list) /\ b - n = b1 - n1
    BY <1>1, <2>6
  <2>8. k < Len(new) /\ k < Len(old) /\ Len(list) = Len(new)
    BY <1>1, <1>7, <2>7 DEF SameDates
  <2>9. Date(old[k + 1]) # Date(new[k + 1])
    BY <1>1, <2>8 DEF IsMerge
  <2>10. k + 1 \in n + 1 .. Len(list) /\ k + 1 \in n1 + 1 .. Len(old) /\ k + 1 \in 1 .. Len(new)
    BY <1>1, <1>7, <2>4, <2>5, <2>8
  <2>11. Date(list[k + 1]) = b + (k + 1 - n) /\ Date(old[k + 1]) = b1 + (k + 1 - n1)
    <3>1. PICK p \in Nat : p = k + 1
      BY <1>1
    <3>2. Date(list[p]) = b + (p - n) /\ Date(old[p]) = b1 + (p - n1)
      BY <2>2, <2>3, <2>10, <3>1
    <3>3. k \in Nat /\ n \in Nat /\ n1 \in Nat /\ b \in Nat /\ b1 \in Nat
      BY <1>1, <2>2, <2>3
    <3> QED BY <3>1, <3>2, <3>3
  <2>12. Date(list[k + 1]) = Date(new[k + 1])
    BY <1>1, <2>10 DEF SameDates
  <2>13. b + (k + 1 - n) = b1 + (k + 1 - n1)
    <3>1. b \in Nat /\ b1 \in Nat /\ n \in Nat /\ n1 \in Nat /\ k \in Nat
      BY <1>1, <2>2, <2>3
    <3> QED BY <2>7, <3>1
  <2> QED BY <2>9, <2>11, <2>12, <2>13
<1> QED BY <1>1, <1>5, <1>6, <1>7

LEMMA MergedWorked ==
    ASSUME NEW list, NEW k, NEW old, NEW end, NEW t, NEW s, NEW E, NEW F, NEW M,
           MergeCase(list, k, old, end, t, s, E, F, M)
    PROVE  WorkedKnown(list, t, E, F)
<1> DEFINE new == Generate(t, end)
           n == Len(t.deferred)
<1>1. Dated(new, t, end) /\ SameDates(list, new)
  BY MergeFacts
<1> HIDE DEF new
<1> SUFFICES ASSUME NEW i \in 1 .. Len(list)
             PROVE  Date(list[i]) > t.last \/ Date(list[i]) \in E \cup F \cup DatesOf(t.deferred)
  BY DEF WorkedKnown
<1>2. Date(list[i]) = Date(new[i]) /\ i \in 1 .. Len(new)
  BY <1>1 DEF SameDates
<1>3. i \in 1 .. n \/ i \in n + 1 .. Len(new)
  BY <1>1, <1>2 DEF Dated
<1>4. CASE i \in 1 .. n
  BY <1>1, <1>2, <1>4 DEF Dated
<1>5. CASE i \in n + 1 .. Len(new)
  <2>1. Date(new[i]) > Start(t).last /\ Start(t).last \in Nat /\ t.last \in Nat
    BY <1>1, <1>5 DEF Dated
  <2>2. Date(new[i]) \in Nat
    BY <1>1, <1>2 DEF Dated, Dates
  <2>3. Start(t).last + 1 .. t.last \subseteq E
    BY DEF MergeCase, SxOk
  <2>4. Date(new[i]) > t.last \/ Date(new[i]) \in Start(t).last + 1 .. t.last
    BY <2>1, <2>2
  <2> QED BY <1>2, <2>3, <2>4
<1> QED BY <1>3, <1>4, <1>5

LEMMA MergedOnce ==
    ASSUME NEW list, NEW k, NEW old, NEW end, NEW t, NEW s, NEW E, NEW F, NEW M,
           MergeCase(list, k, old, end, t, s, E, F, M)
    PROVE  ListedOnce(list, E)
<1> DEFINE new == Generate(t, end)
           n == Len(t.deferred)
<1>1. Dated(new, t, end) /\ SameDates(list, new)
  BY MergeFacts
<1> HIDE DEF new
<1> SUFFICES ASSUME NEW i \in 1 .. Len(list), NEW j \in 1 .. Len(list), i < j,
                    Date(list[i]) = Date(list[j])
             PROVE  Date(list[i]) \in E
  BY DEF ListedOnce
<1>2. /\ i \in 1 .. Len(new) /\ j \in 1 .. Len(new)
      /\ Date(list[i]) = Date(new[i]) /\ Date(new[i]) = Date(new[j])
  BY <1>1 DEF SameDates
<1>3. n \in Nat /\ Len(new) \in Nat /\ Start(t).last \in Nat /\ Date(new[i]) \in Nat
  BY <1>1, <1>2 DEF Dated, Dates
<1>4. CASE j \in 1 .. n
  <2>1. i \in 1 .. n
    BY <1>2, <1>3, <1>4
  <2>2. Date(new[i]) = t.deferred[i].last + 1 /\ Date(new[j]) = t.deferred[j].last + 1
    BY <1>1, <1>4, <2>1 DEF Dated
  <2>3. ScheduleOk(t) /\ PostponedOnce(t.deferred, E)
    BY DEF MergeCase, SxOk
  <2>4. t.deferred[i] \in Temporal /\ t.deferred[j] \in Temporal
    BY <1>4, <2>1, <2>3 DEF ScheduleOk, SxType
  <2>5. t.deferred[i].last = t.deferred[j].last
    <3>1. t.deferred[i].last \in Nat /\ t.deferred[j].last \in Nat
      BY <2>4 DEF Temporal
    <3>2. t.deferred[i].last + 1 = t.deferred[j].last + 1
      BY <1>2, <2>2
    <3> QED BY <3>1, <3>2, SMTT(30)
  <2> QED BY <1>2, <1>4, <2>1, <2>2, <2>3, <2>5 DEF PostponedOnce
<1>5. CASE j \in n + 1 .. Len(new)
  <2>1. Date(new[j]) = Start(t).last + (j - n) /\ Date(new[j]) > Start(t).last
    BY <1>1, <1>5 DEF Dated
  <2>2. i \in 1 .. n => Date(new[i]) <= Start(t).last
    BY <1>1 DEF Dated
  <2>3. i \in n + 1 .. Len(new) => Date(new[i]) = Start(t).last + (i - n)
    BY <1>1 DEF Dated
  <2>4. i \in n + 1 .. Len(new)
    BY <1>2, <1>3, <2>1, <2>2
  <2> QED BY <1>2, <1>3, <1>5, <2>1, <2>3, <2>4
<1> QED BY <1>2, <1>3, <1>4, <1>5

LEMMA MergedOrigKnown ==
    ASSUME NEW list, NEW k, NEW old, NEW end, NEW t, NEW s, NEW E, NEW F, NEW M,
           MergeCase(list, k, old, end, t, s, E, F, M)
    PROVE  OrigKnown(list, t, E)
<1> DEFINE new == Generate(t, end)
<1>1. Dated(new, t, end)
  BY MergeFacts
<1>2. OrigKnown(old, s, E) /\ t.deferred = s.deferred
  BY DEF MergeCase, ListFit, Follows
<1> SUFFICES ASSUME NEW i \in 1 .. Len(list), Date(list[i]) \in DatesOf(t.deferred)
             PROVE  Date(list[i]) \in E \/ list[i].orig = "POSTPONED"
  BY DEF OrigKnown
<1>3. \/ i \in 1 .. Len(old) /\ list[i] = old[i]
      \/ i \in 1 .. Len(new) /\ list[i] = new[i]
  BY MergedFrom
<1> HIDE DEF new
<1>4. CASE i \in 1 .. Len(old) /\ list[i] = old[i]
  BY <1>2, <1>4 DEF OrigKnown
<1>5. CASE i \in 1 .. Len(new) /\ list[i] = new[i]
  <2>1. i \in 1 .. Len(t.deferred) \/ i \in Len(t.deferred) + 1 .. Len(new)
    BY <1>1, <1>5 DEF Dated
  <2>2. i \notin Len(t.deferred) + 1 .. Len(new)
    BY <1>1, <1>5 DEF Dated
  <2> QED BY <1>1, <1>5, <2>1, <2>2 DEF Dated
<1> QED BY <1>3, <1>4, <1>5

LEMMA LeftIsFresh ==
    ASSUME NEW t, ScheduleOk(t), t.deferred = <<>>, NEW end \in Nat
    PROVE  Left(t, end) = FreshLen(t, end) /\ Start(t).last = t.last /\ Len(t.deferred) = 0
<1>1. Start(t).last = t.last /\ Start(t).rem = t.remain /\ t.remain \in Nat /\ t.last \in Nat
  BY StartIs
<1>2. Len(t.deferred) = 0
  OBVIOUS
<1>3. Remind \in Nat
  BY SxAssumption
<1> QED BY <1>1, <1>2, <1>3 DEF Left, FreshLen

LEMMA MergedStart ==
    ASSUME NEW list, NEW k, NEW old, NEW end, NEW t, NEW s, NEW E, NEW F, NEW M,
           MergeCase(list, k, old, end, t, s, E, F, M)
    PROVE  StartKnown(list, end, t)
<1> DEFINE new == Generate(t, end)
<1>1. /\ IsGenerated(new, t, end) /\ Dated(new, t, end) /\ SameDates(list, new)
      /\ Len(list) \in Nat /\ ScheduleOk(t) /\ end \in Nat
  <2>1. IsGenerated(new, t, end) /\ Dated(new, t, end) /\ SameDates(list, new) /\ Len(list) \in Nat
    BY MergeFacts
  <2>2. ScheduleOk(t)
    BY DEF MergeCase, SxOk
  <2> QED BY <2>1, <2>2 DEF Dated
<1> HIDE DEF new
<1>2. CASE t.deferred = <<>>
  <2>1. /\ Len(new) = Left(t, end) /\ Left(t, end) = FreshLen(t, end)
        /\ Start(t).last = t.last /\ Len(t.deferred) = 0
    <3>1. Left(t, end) = FreshLen(t, end) /\ Start(t).last = t.last /\ Len(t.deferred) = 0
      BY <1>1, <1>2, LeftIsFresh
    <3>2. Left(t, end) \in Nat
      BY <1>1, GenerateIs
    <3>3. Len(new) = Len(t.deferred) + Left(t, end)
      BY <1>1 DEF IsGenerated
    <3> QED BY <3>1, <3>2, <3>3
  <2>2. FreshLen(t, end) <= Len(list)
    BY <1>1, <2>1 DEF SameDates
  <2>3. \A i \in 1 .. Len(list) : Date(list[i]) = t.last + i
    <3> SUFFICES ASSUME NEW i \in 1 .. Len(list) PROVE Date(list[i]) = t.last + i
      OBVIOUS
    <3>1. i \in 0 + 1 .. Len(new) /\ Date(list[i]) = Date(new[i])
      BY <1>1 DEF SameDates
    <3>2. Date(new[i]) = t.last + (i - 0)
      BY <1>1, <2>1, <3>1 DEF Dated
    <3> QED BY <3>1, <3>2
  <2> QED BY <2>2, <2>3 DEF StartKnown, Fresh
<1>3. CASE t.deferred # <<>>
  <2>1. Len(t.deferred) > 0 /\ Len(t.deferred) \in Nat /\ t.last \in Nat /\ Start(t).last \in 0 .. t.last
    BY <1>1, <1>3, StartIs
  <2>2. 1 \in 1 .. Len(t.deferred) /\ 1 \in 1 .. Len(new)
    BY <1>1, <2>1 DEF Dated
  <2>3. Date(new[1]) <= Start(t).last /\ Date(new[1]) \in Nat
    BY <1>1, <2>2 DEF Dated, Dates
  <2>4. Date(list[1]) = Date(new[1])
    BY <1>1, <2>2 DEF SameDates
  <2>5. Date(list[1]) <= t.last
    BY <2>1, <2>3, <2>4
  <2> QED BY <2>5 DEF StartKnown
<1> QED BY <1>2, <1>3

LEMMA GeneratedInOrder ==
    ASSUME NEW t, NEW end, NEW new, Dated(new, t, end)
    PROVE  InOrder(new)
<1> DEFINE n == Len(t.deferred)
<1>1. n \in Nat /\ Len(new) \in Nat /\ Start(t).last \in Nat /\ end \in Nat
  BY DEF Dated
<1> SUFFICES ASSUME NEW i \in 1 .. Len(new), NEW j \in 1 .. Len(new), i < j,
                    new[i].state = "REMINDER"
             PROVE  new[j].state = "REMINDER"
  BY DEF InOrder
<1>2. i \notin 1 .. n
  BY DEF Dated
<1>3. i \in n + 1 .. Len(new) /\ j \in n + 1 .. Len(new)
  BY <1>1, <1>2
<1>4. /\ Date(new[i]) = Start(t).last + (i - n) /\ Date(new[j]) = Start(t).last + (j - n)
      /\ new[i].state = IF Date(new[i]) <= end THEN "TO_CREATE" ELSE "REMINDER"
      /\ new[j].state = IF Date(new[j]) <= end THEN "TO_CREATE" ELSE "REMINDER"
  BY <1>3 DEF Dated
<1>5. ~(Date(new[i]) <= end)
  BY <1>4
<1>6. ~(Date(new[j]) <= end)
  BY <1>1, <1>3, <1>4, <1>5
<1> QED BY <1>4, <1>6

\* A merged list is either the old one or the new one, unless it has an exposed date.
LEMMA MergedLast ==
    ASSUME NEW list, NEW k, NEW old, NEW end, NEW t, NEW s, NEW E, NEW F, NEW M,
           MergeCase(list, k, old, end, t, s, E, F, M)
    PROVE  LastUnless(list, E)
<1> DEFINE new == Generate(t, end)
<1>1. /\ IsGenerated(new, t, end) /\ Dated(new, t, end) /\ SameDates(list, new)
      /\ IsMerge(list, k, old, new) /\ Len(list) \in Nat /\ Len(old) \in Nat /\ k \in Nat
      /\ s.last \in Nat /\ t.last \in Nat /\ s.last <= t.last /\ end \in Nat
  BY MergeFacts DEF MergeCase, Dated
<1>2. SxOk(t, E) /\ Follows(t, s, E) /\ ScheduleOk(t) /\ ListFit(old, end, s, E, M)
  BY DEF MergeCase, SxOk
<1>3. ASSUME NEW i \in 1 .. Len(list)
      PROVE  \/ i <= k /\ i \in 1 .. Len(old) /\ list[i] = old[i]
             \/ i > k /\ i \in 1 .. Len(new) /\ list[i] = new[i]
  BY MergedFrom
<1>4. Len(new) = Len(list)
  BY <1>1 DEF SameDates
<1> SUFFICES ASSUME \A i \in 1 .. Len(list) : Date(list[i]) \notin E
             PROVE  InOrder(list)
  BY DEF LastUnless
<1>5. CASE k = 0
  <2>1. \A i \in 1 .. Len(list) : i \in 1 .. Len(new) /\ list[i] = new[i]
    BY <1>1, <1>3, <1>5
  <2>2. InOrder(new)
    BY <1>1, GeneratedInOrder
  <2> HIDE DEF new
  <2> QED BY <2>1, <2>2 DEF InOrder
\* What is kept of the old list, if that is all and has no exposed date.
<1>6. ASSUME k = Len(new), InOrder(old) PROVE InOrder(list)
  <2>1. \A i \in 1 .. Len(list) : i \in 1 .. Len(old) /\ list[i] = old[i]
    BY <1>1, <1>3, <1>4, <1>6
  <2> QED BY <1>6, <2>1 DEF InOrder
<1>7. CASE k # 0 /\ t.deferred # <<>>
  <2>1. ~(DatesOf(s.deferred) \subseteq E)
    <3>1. Len(t.deferred) > 0 /\ Len(t.deferred) \in Nat
      BY <1>2, <1>7, StartIs
    <3>2. 1 \in 1 .. Len(t.deferred) /\ 1 \in 1 .. Len(new)
      BY <1>1, <3>1 DEF Dated
    <3>3. Date(list[1]) = Date(new[1]) /\ Date(new[1]) \in DatesOf(t.deferred)
      BY <1>1, <3>2 DEF Dated, SameDates
    <3>4. Date(list[1]) \notin E /\ t.deferred = s.deferred
      BY <1>2, <1>4, <3>2 DEF Follows
    <3> QED BY <3>3, <3>4
  <2>2. t.deferred = s.deferred /\ t.last = s.last /\ t.count = s.count /\ t.remain = s.remain
    BY <1>2, <2>1 DEF Follows
  <2>3. new = Generate(s, end)
    BY <2>2 DEF Generate, Start
  <2>4. old # <<>>
    BY <1>1, <1>7 DEF IsMerge
  <2>5. SameDates(old, new)
    BY <1>2, <2>1, <2>3, <2>4 DEF ListFit, AsGenerated
  <2> HIDE DEF new
  <2>6. k = Len(new)
    <3> SUFFICES ASSUME k # Len(new) PROVE FALSE
      OBVIOUS
    <3>1. k < Len(new) /\ k < Len(old) /\ k + 1 \in 1 .. Len(new)
      BY <1>1, <1>4, <2>5 DEF SameDates, IsMerge
    <3> QED BY <1>1, <2>5, <3>1 DEF SameDates, IsMerge
  <2>7. \A i \in 1 .. Len(old) : Date(old[i]) \notin E
    <3>1. Len(old) = Len(list)
      BY <1>4, <2>5 DEF SameDates
    <3>2. \A i \in 1 .. Len(list) : Date(old[i]) = Date(list[i])
      BY <1>1, <1>4, <2>5 DEF SameDates
    <3> QED BY <3>1, <3>2
  <2>8. InOrder(old)
    BY <1>2, <2>7 DEF ListFit, LastUnless
  <2> QED BY <1>6, <2>6, <2>8
<1>8. CASE k # 0 /\ t.deferred = <<>>
  <2>1. /\ Len(new) = FreshLen(t, end) /\ Start(t).last = t.last /\ Len(t.deferred) = 0
    <3>1. Left(t, end) = FreshLen(t, end) /\ Start(t).last = t.last /\ Len(t.deferred) = 0
      BY <1>1, <1>2, <1>8, LeftIsFresh
    <3>2. Left(t, end) \in Nat
      BY <1>1, <1>2, GenerateIs
    <3>3. Len(new) = Len(t.deferred) + Left(t, end)
      BY <1>1 DEF IsGenerated
    <3> QED BY <3>1, <3>2, <3>3
  <2> HIDE DEF new
  <2>2. \A i \in 1 .. Len(new) : Date(new[i]) = t.last + i
    <3> SUFFICES ASSUME NEW i \in 1 .. Len(new) PROVE Date(new[i]) = t.last + i
      OBVIOUS
    <3>1. i \in 0 + 1 .. Len(new)
      OBVIOUS
    <3>2. Date(new[i]) = t.last + (i - 0)
      BY <1>1, <2>1, <3>1 DEF Dated
    <3> QED BY <1>1, <3>2
  <2>3. k <= Len(new) /\ k <= Len(old) /\ 1 \in 1 .. k /\ 1 \in 1 .. Len(new) /\ 1 \in 1 .. Len(old)
    BY <1>1, <1>4, <1>8 DEF IsMerge
  <2>4. Date(old[1]) = t.last + 1
    BY <1>1, <2>2, <2>3 DEF IsMerge
  <2>5. old # <<>>
    BY <2>3
  <2>6. Fresh(old, end, s)
    <3>1. ~(Date(old[1]) <= s.last)
      BY <1>1, <2>4
    <3> QED BY <1>2, <2>5, <3>1 DEF ListFit, StartKnown
  <2>7. s.last = t.last
    <3>1. Date(old[1]) = s.last + 1
      BY <2>3, <2>6 DEF Fresh
    <3> QED BY <1>1, <2>4, <3>1
  <2>8. Len(new) <= Len(old)
    <3>1. FreshLen(t, end) <= FreshLen(s, end)
      <4>1. t.remain \in Nat /\ s.remain \in Nat /\ t.remain <= s.remain
        BY <1>2, StartIs DEF Follows
      <4>2. Remind \in Nat
        BY SxAssumption
      <4> QED BY <1>1, <2>7, <4>1, <4>2 DEF FreshLen
    <3>2. FreshLen(s, end) <= Len(old)
      BY <2>6 DEF Fresh
    <3>3. FreshLen(s, end) \in Int
      <4>1. s.remain \in Nat
        BY <1>2 DEF Follows
      <4>2. Remind \in Nat
        BY SxAssumption
      <4> QED BY <1>1, <4>1, <4>2 DEF FreshLen
    <3> QED BY <1>1, <1>4, <2>1, <3>1, <3>2, <3>3
  <2>9. k = Len(new)
    <3> SUFFICES ASSUME k # Len(new) PROVE FALSE
      OBVIOUS
    <3>1. k < Len(new) /\ k < Len(old) /\ k + 1 \in 1 .. Len(new) /\ k + 1 \in 1 .. Len(old)
      BY <1>1, <1>4, <2>3, <2>8
    <3>2. Date(old[k + 1]) = s.last + (k + 1) /\ Date(new[k + 1]) = t.last + (k + 1)
      BY <2>2, <2>6, <3>1 DEF Fresh
    <3> QED BY <1>1, <2>7, <3>1, <3>2 DEF IsMerge
  <2>10. \A i \in 1 .. Len(old) : Date(old[i]) \notin E
    <3> SUFFICES ASSUME NEW i \in 1 .. Len(old), Date(old[i]) \in E PROVE FALSE
      OBVIOUS
    <3>1. Date(old[i]) = t.last + i
      BY <2>6, <2>7 DEF Fresh
    <3>2. E \subseteq 1 .. t.last
      BY <1>2 DEF SxOk
    <3> QED BY <1>1, <3>1, <3>2
  <2>11. InOrder(old)
    BY <1>2, <2>10 DEF ListFit, LastUnless
  <2> QED BY <1>6, <2>9, <2>11
<1> QED BY <1>5, <1>7, <1>8

LEMMA MergedOk ==
    ASSUME NEW list, NEW k, NEW old, NEW end, NEW t, NEW s, NEW E, NEW F, NEW M,
           MergeCase(list, k, old, end, t, s, E, F, M)
    PROVE  ListOk(list, end, t, E, F, M) /\ SameDates(list, Generate(t, end))
<1>1. list \in Lists /\ SameDates(list, Generate(t, end)) /\ Dated(Generate(t, end), t, end)
  BY MergeFacts
<1>2. \A i \in 1 .. Len(list) : Date(list[i]) \in Dates
  BY <1>1 DEF SameDates, Dated
<1>3. AsGenerated(list, end, t, E)
  BY <1>1 DEF AsGenerated
<1> QED BY <1>1, <1>2, <1>3, MergedShaped, MergedOrig, MergedReminders, MergedCreated, MergedWorked,
           MergedOnce, MergedOrigKnown, MergedLast, MergedStart DEF ListOk, ListFit

LEMMA GeneratedOk ==
    ASSUME NEW t, NEW E, NEW F, NEW M, NEW end \in 0 .. MaxDate, SxOk(t, E)
    PROVE  ListOk(Generate(t, end), end, t, E, F, M)
<1> DEFINE new == Generate(t, end)
<1>1. ScheduleOk(t) /\ end \in Nat
  BY SxAssumption DEF SxOk
<1>2. IsGenerated(new, t, end) /\ t.last \in Nat /\ t.remain \in Nat
  BY <1>1, GenerateIs, StartIs
<1>3. new \in Lists /\ Len(new) \in Nat
  BY <1>2 DEF IsGenerated, Lists
<1>4. IsMerge(new, 0, <<>>, new)
  <2> HIDE DEF new
  <2> QED BY <1>3 DEF IsMerge
<1>5. ListFit(<<>>, end, t, E, M)
  BY <1>2, EmptyListOk DEF ListOk
<1>6. Follows(t, t, E)
  BY <1>2 DEF Follows
<1>7. MergeCase(new, 0, <<>>, end, t, t, E, F, M)
  BY <1>4, <1>5, <1>6 DEF MergeCase
<1> QED BY <1>7, MergedOk

\* The models of the dialogs.
ModelType == [open : BOOLEAN, end : 0 .. MaxDate, listed : BOOLEAN, list : Lists]

DialogOk(m, s, E, F, M) ==
    /\ m \in ModelType /\ (~m.open => m.list = <<>>)
    /\ ListOk(m.list, m.end, s, E, F, M)

LEMMA ToldOk ==
    ASSUME NEW m, NEW s, NEW t, NEW E, NEW F, NEW M,
           DialogOk(m, s, E, F, M), SxOk(t, E), Follows(t, s, E)
    PROVE  DialogOk(Told(m, t), t, E, F, M) /\ Told(m, t).open = m.open
<1>1. /\ m.open \in BOOLEAN /\ m.end \in 0 .. MaxDate /\ m.listed \in BOOLEAN /\ m.list \in Lists
      /\ m = [open |-> m.open, end |-> m.end, listed |-> m.listed, list |-> m.list]
  BY DEF DialogOk, ModelType
<1>2. ScheduleOk(t) /\ t.last \in Nat /\ t.enabled \in BOOLEAN
  BY StartIs DEF SxOk, ScheduleOk, SxType
<1>3. ASSUME NEW list, ListOk(list, m.end, t, E, F, M),
             m.open, Told(m, t) = [m EXCEPT !.listed = t.enabled, !.list = list]
      PROVE  DialogOk(Told(m, t), t, E, F, M) /\ Told(m, t).open = m.open
  <2>1. Told(m, t) = [open |-> m.open, end |-> m.end, listed |-> t.enabled, list |-> list]
    BY <1>1, <1>3
  <2>2. list \in Lists
    BY <1>3 DEF ListOk, ListFit
  <2> QED BY <1>1, <1>2, <1>3, <2>1, <2>2 DEF DialogOk, ModelType
<1>4. CASE ~m.open
  <2>1. Told(m, t) = m /\ m.list = <<>>
    BY <1>4 DEF Told, DialogOk
  <2>2. ListOk(<<>>, m.end, t, E, F, M)
    BY <1>2, EmptyListOk
  <2> QED BY <2>1, <2>2 DEF DialogOk
<1>5. CASE m.open /\ ~t.enabled
  <2>1. Told(m, t) = [m EXCEPT !.listed = t.enabled, !.list = <<>>]
    BY <1>5 DEF Told
  <2>2. ListOk(<<>>, m.end, t, E, F, M)
    BY <1>2, EmptyListOk
  <2> QED BY <1>3, <1>5, <2>1, <2>2
<1>6. CASE m.open /\ t.enabled /\ ~m.listed
  <2>1. Told(m, t) = [m EXCEPT !.listed = t.enabled, !.list = Generate(t, m.end)]
    BY <1>6 DEF Told
  <2>2. ListOk(Generate(t, m.end), m.end, t, E, F, M)
    BY <1>1, GeneratedOk
  <2> QED BY <1>3, <1>6, <2>1, <2>2
<1>7. CASE m.open /\ t.enabled /\ m.listed
  <2> DEFINE new == Generate(t, m.end)
             list == Merge(m.list, new)
  <2>1. Told(m, t) = [m EXCEPT !.listed = t.enabled, !.list = list]
    BY <1>7 DEF Told
  <2>2. new \in Lists
    BY <1>1, GeneratedOk DEF ListOk, ListFit
  <2>3. PICK k : IsMerge(list, k, m.list, new)
    <3> HIDE DEF new
    <3> QED BY <1>1, <2>2, MergeIs
  <2>4. MergeCase(list, k, m.list, m.end, t, s, E, F, M)
    BY <1>1, <2>3 DEF MergeCase, DialogOk, ListOk
  <2>5. ListOk(list, m.end, t, E, F, M)
    BY <2>4, MergedOk
  <2> HIDE DEF list
  <2> QED BY <1>3, <1>7, <2>1, <2>5
<1> QED BY <1>1, <1>2, <1>4, <1>5, <1>6, <1>7

LEMMA TellOk ==
    ASSUME NEW m, NEW s, NEW t, NEW E, NEW F, NEW M,
           DialogOk(m, s, E, F, M), SxOk(t, E), Follows(t, s, E)
    PROVE  DialogOk(Tell(m, s, t), t, E, F, M) /\ Tell(m, s, t).open = m.open
<1>1. CASE t = s
  BY <1>1 DEF Tell
<1>2. CASE t # s
  BY <1>2, ToldOk DEF Tell
<1> QED BY <1>1, <1>2

\* The decision of the user.
LEMMA ChangedFit ==
    ASSUME NEW list, NEW end, NEW s, NEW E, NEW M, ListFit(list, end, s, E, M),
           s.last \in Nat, NEW i \in 1 .. Len(list), NEW state \in States,
           state = "CREATED" => M[Date(list[i])] > 0
    PROVE  ListFit(Changed(list, i, state), end, s, E, M)
<1> DEFINE new == Changed(list, i, state)
<1>1. list \in Lists /\ Len(list) \in Nat
  BY DEF ListFit, Lists
<1>2. Alike(new, list) /\ \A j \in 1 .. Len(list) : new[j].state = NewState(list, i, state, j)
  BY <1>1, ChangedIs
<1>3. new \in Lists /\ Len(new) = Len(list)
  BY <1>2 DEF Alike
<1>4. \A j \in 1 .. Len(list) : Date(new[j]) = Date(list[j]) /\ new[j].orig = list[j].orig
  BY <1>2, AlikeDates DEF Alike
<1>5. ListFit(list, end, s, E, M)
  OBVIOUS
<1> HIDE DEF new
<1>6. \A j \in 1 .. Len(new) : Date(new[j]) \in Dates
  BY <1>3, <1>4, <1>5 DEF ListFit
<1>7. Shaped(new, end, s)
  <2>1. PICK n \in 0 .. Len(list), b \in 0 .. s.last :
          /\ \A p \in 1 .. n : Date(list[p]) <= s.last
          /\ \A p \in n + 1 .. Len(list) : Date(list[p]) = b + (p - n)
          /\ Total = 0 /\ n < Len(list) => b + (Len(list) - n) = end + Remind
    BY <1>5 DEF ListFit, Shaped
  <2>2. \A p \in 1 .. n : Date(new[p]) <= s.last
    BY <1>1, <1>4, <2>1
  <2>3. \A p \in n + 1 .. Len(list) : Date(new[p]) = b + (p - n)
    BY <1>1, <1>4, <2>1
  <2> QED BY <1>3, <2>1, <2>2, <2>3 DEF Shaped
<1>8. OrigWorked(new, s) /\ ListedOnce(new, E) /\ OrigKnown(new, s, E)
  BY <1>3, <1>4, <1>5 DEF ListFit, OrigWorked, ListedOnce, OrigKnown
<1>9. ASSUME NEW p \in 1 .. Len(list), NEW q \in 1 .. Len(list), p < q, new[p].state = "REMINDER",
             list[p].state = "REMINDER" => list[q].state = "REMINDER"
      PROVE  new[q].state = "REMINDER"
  BY <1>2, <1>9 DEF NewState
<1>10. RemindersFollow(new, s)
  <2> SUFFICES ASSUME Total = 0, NEW p \in 1 .. Len(list), NEW q \in 1 .. Len(list), p < q,
                      new[p].state = "REMINDER", Date(new[p]) > s.last
               PROVE  new[q].state = "REMINDER"
    BY <1>3 DEF RemindersFollow
  <2>1. list[p].state = "REMINDER" => list[q].state = "REMINDER"
    BY <1>4, <1>5 DEF ListFit, RemindersFollow
  <2> QED BY <1>9, <2>1
<1>11. LastUnless(new, E)
  <2> SUFFICES ASSUME \A p \in 1 .. Len(new) : Date(new[p]) \notin E,
                      NEW p \in 1 .. Len(list), NEW q \in 1 .. Len(list), p < q,
                      new[p].state = "REMINDER"
               PROVE  new[q].state = "REMINDER"
    BY <1>3 DEF LastUnless, InOrder
  <2>1. InOrder(list)
    BY <1>3, <1>4, <1>5 DEF ListFit, LastUnless
  <2>2. list[p].state = "REMINDER" => list[q].state = "REMINDER"
    BY <2>1 DEF InOrder
  <2> QED BY <1>9, <2>2
<1>12. CreatedMade(new, M)
  <2> SUFFICES ASSUME NEW p \in 1 .. Len(list), new[p].state = "CREATED" PROVE M[Date(list[p])] > 0
    BY <1>3, <1>4 DEF CreatedMade
  <2>1. NewState(list, i, state, p) = "CREATED"
    BY <1>2
  <2>2. (p = i /\ state = "CREATED") \/ list[p].state = "CREATED"
    BY <2>1 DEF NewState
  <2> QED BY <1>5, <2>2 DEF ListFit, CreatedMade
<1>13. StartKnown(new, end, s) /\ AsGenerated(new, end, s, E)
  <2>1. 1 \in 1 .. Len(list)
    BY <1>1
  <2>2. list # <<>>
    BY <1>1
  <2>3. Date(new[1]) = Date(list[1])
    BY <1>4, <2>1
  <2>4. Fresh(list, end, s) => Fresh(new, end, s)
    BY <1>3, <1>4 DEF Fresh
  <2>5. StartKnown(new, end, s)
    BY <1>5, <2>2, <2>3, <2>4 DEF ListFit, StartKnown
  <2>6. ASSUME SameDates(list, Generate(s, end)) PROVE SameDates(new, Generate(s, end))
    BY <1>3, <1>4, <2>6 DEF SameDates
  <2>7. AsGenerated(new, end, s, E)
    BY <1>5, <2>2, <2>6 DEF ListFit, AsGenerated
  <2> QED BY <2>5, <2>7
<1> QED BY <1>3, <1>6, <1>7, <1>8, <1>10, <1>11, <1>12, <1>13 DEF ListFit, new

-----------------------------------------------------------------------------
(* What one instance does to a run.                                        *)

RunType ==
    [list : Lists, deferred : Deferrals, last : Dates \cup {0}, count : Nat,
     remain : 0 .. Total, failures : Nat, made : [Dates -> 0 .. 2],
     ignored : SUBSET Dates, failed : SUBSET Dates, withdrawn : SUBSET Dates]

Creates(inst) == inst.state = "TO_CREATE"
Defers(inst) == inst.state = "POSTPONED" /\ inst.orig # "POSTPONED"
Counts(inst, result) ==
    inst.state \in {"IGNORED", "POSTPONED"} \/ (Creates(inst) /\ result = "ok")

IsEffect(new, run, i, inst, result) ==
    LET d == Date(inst)
    IN  /\ new.list = IF Creates(inst) /\ result = "ok"
                      THEN Changed(run.list, i, "CREATED") ELSE run.list
        /\ new.deferred = IF Unpostpone(inst) THEN Resolve(run.deferred, inst.tsd)
                          ELSE IF Defers(inst) THEN Postpone(run.deferred, inst.tsd)
                          ELSE run.deferred
        /\ new.last = IF Counts(inst, result) THEN Max({run.last, d}) ELSE run.last
        /\ new.count = IF Counts(inst, result) THEN inst.tsd.num + 1 ELSE run.count
        /\ new.remain = IF Counts(inst, result) /\ run.remain > 0 THEN run.remain - 1
                        ELSE run.remain
        /\ new.failures = IF Creates(inst) /\ result # "ok" THEN run.failures + 1
                          ELSE run.failures
        /\ new.made = IF Creates(inst) /\ result \in {"ok", "flawed"}
                      THEN [run.made EXCEPT ![d] = Min({@ + 1, 2})] ELSE run.made
        /\ new.ignored = IF inst.state = "IGNORED" THEN run.ignored \cup {d} ELSE run.ignored
        /\ new.failed = IF Creates(inst) /\ result # "ok" THEN run.failed \cup {d} ELSE run.failed
        /\ new.withdrawn = IF inst.state = "REMINDER" /\ Unpostpone(inst)
                           THEN run.withdrawn \cup {d} ELSE run.withdrawn

IsRecord(run) ==
    run = [list |-> run.list, deferred |-> run.deferred, last |-> run.last, count |-> run.count,
           remain |-> run.remain, failures |-> run.failures, made |-> run.made,
           ignored |-> run.ignored, failed |-> run.failed, withdrawn |-> run.withdrawn]

LEMMA EffectedIs ==
    ASSUME NEW run \in RunType, NEW i \in 1 .. Len(run.list), NEW outcome
    PROVE  IsEffect(Effected(run, i, outcome), run, i, run.list[i], outcome[i]) /\ IsRecord(Effected(run, i, outcome))
<1> DEFINE inst == run.list[i]
           new == Effected(run, i, outcome)
           d == Date(inst)
           then == IF Unpostpone(inst)
                   THEN [run EXCEPT !.deferred = Resolve(@, inst.tsd)] ELSE run
           q == IF Unpostpone(inst) THEN Resolve(run.deferred, inst.tsd) ELSE run.deferred
<1>1. IsRecord(run)
  BY DEF RunType, IsRecord
<1>2. /\ then = [run EXCEPT !.deferred = q] /\ IsRecord(then)
      /\ then.list = run.list /\ then.deferred = q /\ then.last = run.last
      /\ then.count = run.count /\ then.remain = run.remain /\ then.failures = run.failures
      /\ then.made = run.made /\ then.ignored = run.ignored /\ then.failed = run.failed
      /\ then.withdrawn = run.withdrawn
  BY <1>1 DEF IsRecord
<1>3. inst.state \in States
  BY InstanceTypes DEF RunType
<1> HIDE DEF q
<1>4. CASE inst.state = "IGNORED"
  <2>1. new = Counted([then EXCEPT !.ignored = @ \cup {d}], inst)
    BY <1>4 DEF Effected
  <2> HIDE DEF then
  <2>2. new = [list |-> run.list, deferred |-> q, last |-> Max({run.last, d}),
               count |-> inst.tsd.num + 1,
               remain |-> IF run.remain > 0 THEN run.remain - 1 ELSE run.remain,
               failures |-> run.failures, made |-> run.made, ignored |-> run.ignored \cup {d},
               failed |-> run.failed, withdrawn |-> run.withdrawn]
    BY <1>2, <2>1, ZenonT(60) DEF Counted, IsRecord
  <2> HIDE DEF new
  <2>3. IsRecord(new) /\ IsEffect(new, run, i, inst, outcome[i])
    BY <1>4, <2>2 DEF IsEffect, IsRecord, Counts, Creates, Defers, q
  <2> QED BY <2>3 DEF new
<1>5. CASE inst.state = "POSTPONED"
  <2>1. new = Counted([then EXCEPT !.deferred =
                    IF inst.orig = "POSTPONED" THEN @ ELSE Postpone(@, inst.tsd)], inst)
    BY <1>5 DEF Effected
  <2> HIDE DEF then
  <2>2. new = [list |-> run.list,
               deferred |-> IF inst.orig = "POSTPONED" THEN q ELSE Postpone(q, inst.tsd),
               last |-> Max({run.last, d}),
               count |-> inst.tsd.num + 1,
               remain |-> IF run.remain > 0 THEN run.remain - 1 ELSE run.remain,
               failures |-> run.failures,
               made |-> run.made,
               ignored |-> run.ignored,
               failed |-> run.failed,
               withdrawn |-> run.withdrawn]
    BY <1>2, <2>1, ZenonT(60) DEF Counted, Made, IsRecord
  <2> HIDE DEF new
  <2>3. IsRecord(new) /\ IsEffect(new, run, i, inst, outcome[i])
    BY <1>5, <2>2 DEF IsEffect, IsRecord, Counts, Creates, Defers, Unpostpone, q
  <2> QED BY <2>3 DEF new
<1>6. CASE inst.state = "TO_CREATE" /\ outcome[i] = "ok"
  <2>1. new = [Made(Counted(then, inst), inst) EXCEPT !.list = Changed(@, i, "CREATED")]
    BY <1>6 DEF Effected
  <2> HIDE DEF then
  <2> DEFINE mid == Counted(then, inst)
  <2>2. mid = [list |-> run.list, deferred |-> q, last |-> Max({run.last, d}),
               count |-> inst.tsd.num + 1,
               remain |-> IF run.remain > 0 THEN run.remain - 1 ELSE run.remain,
               failures |-> run.failures, made |-> run.made, ignored |-> run.ignored,
               failed |-> run.failed, withdrawn |-> run.withdrawn]
    <3>1. then = [list |-> run.list, deferred |-> q, last |-> run.last, count |-> run.count,
                  remain |-> run.remain, failures |-> run.failures, made |-> run.made,
                  ignored |-> run.ignored, failed |-> run.failed, withdrawn |-> run.withdrawn]
      BY <1>2 DEF IsRecord
    <3> HIDE DEF inst, d
    <3>2. mid = [then EXCEPT !.last = Max({@, d}), !.count = inst.tsd.num + 1,
                             !.remain = IF @ > 0 THEN @ - 1 ELSE @]
      BY DEF Counted, d
    <3> HIDE DEF mid
    <3> QED BY <3>1, <3>2
  <2> HIDE DEF mid
  <2>3. new = [list |-> Changed(run.list, i, "CREATED"),
               deferred |-> q,
               last |-> Max({run.last, d}),
               count |-> inst.tsd.num + 1,
               remain |-> IF run.remain > 0 THEN run.remain - 1 ELSE run.remain,
               failures |-> run.failures,
               made |-> [run.made EXCEPT ![d] = Min({@ + 1, 2})],
               ignored |-> run.ignored,
               failed |-> run.failed,
               withdrawn |-> run.withdrawn]
    <3>1. new = [Made(mid, inst) EXCEPT !.list = Changed(@, i, "CREATED")]
      BY <2>1 DEF mid
    <3> QED BY <2>2, <3>1 DEF Made
  <2> HIDE DEF new
  <2>4. IsRecord(new) /\ IsEffect(new, run, i, inst, outcome[i])
    BY <1>6, <2>3 DEF IsEffect, IsRecord, Counts, Creates, Defers, Unpostpone, q
  <2> QED BY <2>4 DEF new
<1>7. CASE inst.state = "TO_CREATE" /\ outcome[i] = "flawed"
  <2>1. new = [Made(then, inst) EXCEPT !.failed = @ \cup {d}, !.failures = @ + 1]
    BY <1>7 DEF Effected
  <2> HIDE DEF then
  <2>2. new = [list |-> run.list,
               deferred |-> q,
               last |-> run.last,
               count |-> run.count,
               remain |-> run.remain,
               failures |-> run.failures + 1,
               made |-> [run.made EXCEPT ![d] = Min({@ + 1, 2})],
               ignored |-> run.ignored,
               failed |-> run.failed \cup {d},
               withdrawn |-> run.withdrawn]
    BY <1>2, <2>1 DEF Counted, Made, IsRecord
  <2> HIDE DEF new
  <2>3. IsRecord(new) /\ IsEffect(new, run, i, inst, outcome[i])
    BY <1>7, <2>2 DEF IsEffect, IsRecord, Counts, Creates, Defers, Unpostpone, q
  <2> QED BY <2>3 DEF new
<1>8. CASE inst.state = "TO_CREATE" /\ outcome[i] \notin {"ok", "flawed"}
  <2>1. new = [then EXCEPT !.failed = @ \cup {d}, !.failures = @ + 1]
    BY <1>8 DEF Effected
  <2> HIDE DEF then
  <2>2. new = [list |-> run.list,
               deferred |-> q,
               last |-> run.last,
               count |-> run.count,
               remain |-> run.remain,
               failures |-> run.failures + 1,
               made |-> run.made,
               ignored |-> run.ignored,
               failed |-> run.failed \cup {d},
               withdrawn |-> run.withdrawn]
    BY <1>2, <2>1 DEF Counted, Made, IsRecord
  <2> HIDE DEF new
  <2>3. IsRecord(new) /\ IsEffect(new, run, i, inst, outcome[i])
    BY <1>8, <2>2 DEF IsEffect, IsRecord, Counts, Creates, Defers, Unpostpone, q
  <2> QED BY <2>3 DEF new
<1>9. CASE inst.state = "REMINDER" /\ Unpostpone(inst)
  <2>1. new = [then EXCEPT !.withdrawn = @ \cup {d}]
    BY <1>9 DEF Effected
  <2> HIDE DEF then
  <2>2. new = [list |-> run.list,
               deferred |-> q,
               last |-> run.last,
               count |-> run.count,
               remain |-> run.remain,
               failures |-> run.failures,
               made |-> run.made,
               ignored |-> run.ignored,
               failed |-> run.failed,
               withdrawn |-> run.withdrawn \cup {d}]
    BY <1>2, <2>1 DEF Counted, Made, IsRecord
  <2> HIDE DEF new
  <2>3. IsRecord(new) /\ IsEffect(new, run, i, inst, outcome[i])
    BY <1>9, <2>2 DEF IsEffect, IsRecord, Counts, Creates, Defers, Unpostpone, q
  <2> QED BY <2>3 DEF new
<1>10. CASE inst.state = "CREATED" \/ (inst.state = "REMINDER" /\ ~Unpostpone(inst))
  <2>1. new = then
    BY <1>10 DEF Effected
  <2> HIDE DEF then
  <2>2. new = [list |-> run.list,
               deferred |-> q,
               last |-> run.last,
               count |-> run.count,
               remain |-> run.remain,
               failures |-> run.failures,
               made |-> run.made,
               ignored |-> run.ignored,
               failed |-> run.failed,
               withdrawn |-> run.withdrawn]
    BY <1>2, <2>1 DEF Counted, Made, IsRecord
  <2> HIDE DEF new
  <2>3. IsRecord(new) /\ IsEffect(new, run, i, inst, outcome[i])
    BY <1>10, <2>2 DEF IsEffect, IsRecord, Counts, Creates, Defers, Unpostpone, q
  <2> QED BY <2>3 DEF new
<1> QED BY <1>3, <1>4, <1>5, <1>6, <1>7, <1>8, <1>9, <1>10 DEF States

-----------------------------------------------------------------------------
(* The postponed occurrences.                                              *)

LEMMA Entries ==
    ASSUME NEW q \in Deferrals, NEW i \in 1 .. Len(q)
    PROVE  q[i] \in Temporal /\ q[i].last \in Nat /\ Len(q) \in Nat
<1>1. q[i] \in Temporal /\ Len(q) \in Nat
  BY DEF Deferrals
<1> QED BY <1>1 DEF Temporal

LEMMA PostponeIs ==
    ASSUME NEW q \in Deferrals, NEW t \in Temporal
    PROVE  /\ Postpone(q, t) \in Deferrals
           /\ \E p \in 1 .. Len(q) + 1 :
                /\ Inserted(Postpone(q, t), q, p, t)
                /\ \A i \in 1 .. p - 1 : q[i].last < t.last
                /\ p <= Len(q) => q[p].last >= t.last
<1> DEFINE later == {i \in DOMAIN q : q[i].last >= t.last}
           T == later \cup {Len(q) + 1}
<1>1. Len(q) \in Nat /\ DOMAIN q = 1 .. Len(q) /\ t.last \in Nat
  BY DEF Deferrals, Temporal
<1>2. T \in SUBSET Nat /\ T # {}
  BY <1>1
<1>3. PICK p : p = Min(T)
  OBVIOUS
<1>4. p \in T /\ \A k \in T : p <= k
  <2> HIDE DEF T
  <2> QED BY <1>2, <1>3, Least
<1>5. p \in 1 .. Len(q) + 1
  BY <1>1, <1>4
<1>6. \A i \in 1 .. p - 1 : q[i].last < t.last
  <2> SUFFICES ASSUME NEW i \in 1 .. p - 1 PROVE q[i].last < t.last
    OBVIOUS
  <2>1. i \in 1 .. Len(q) /\ ~(p <= i)
    BY <1>1, <1>5
  <2>2. ~(q[i].last >= t.last)
    BY <1>1, <1>4, <2>1
  <2>3. q[i].last \in Nat
    BY <2>1, Entries
  <2> QED BY <1>1, <2>2, <2>3
<1>7. p <= Len(q) => q[p].last >= t.last
  BY <1>1, <1>4
<1>8. Postpone(q, t) = InsertAt(q, p, t)
  BY <1>3 DEF Postpone
<1>9. InsertAt(q, p, t) \in Seq(Temporal) /\ Inserted(InsertAt(q, p, t), q, p, t)
  BY <1>5, InsertAtIs DEF Deferrals
<1> QED BY <1>5, <1>6, <1>7, <1>8, <1>9 DEF Deferrals

LEMMA PostponeOk ==
    ASSUME NEW q, NEW last \in Nat, DeferralsOk(q, last), NEW t \in Temporal, t.last < last,
           t.last + 1 \in Dates
    PROVE  /\ DeferralsOk(Postpone(q, t), last)
           /\ DatesOf(Postpone(q, t)) = DatesOf(q) \cup {t.last + 1}
           /\ \A E : PostponedOnce(q, E) /\ (t.last + 1 \in DatesOf(q) => t.last + 1 \in E)
                    => PostponedOnce(Postpone(q, t), E)
<1> DEFINE r == Postpone(q, t)
<1>1. q \in Deferrals /\ Len(q) \in Nat /\ t.last \in Nat
  BY DEF DeferralsOk, Deferrals, Temporal
<1>2. r \in Deferrals
  BY <1>1, PostponeIs
<1>3. PICK p \in 1 .. Len(q) + 1 :
        /\ Inserted(r, q, p, t) /\ \A i \in 1 .. p - 1 : q[i].last < t.last
        /\ p <= Len(q) => q[p].last >= t.last
  BY <1>1, PostponeIs
<1> HIDE DEF r
<1>4. Len(r) = Len(q) + 1
  BY <1>3 DEF Inserted
\* Where each entry comes from.
<1>5. ASSUME NEW i \in 1 .. Len(r)
      PROVE  \/ i < p /\ i \in 1 .. Len(q) /\ r[i] = q[i]
             \/ i = p /\ r[i] = t
             \/ i > p /\ i - 1 \in 1 .. Len(q) /\ r[i] = q[i - 1]
  <2>1. CASE i < p
    <3>1. i \in 1 .. p - 1 /\ i \in 1 .. Len(q)
      BY <1>1, <1>4, <2>1
    <3> QED BY <1>3, <2>1, <3>1 DEF Inserted
  <2>2. CASE i = p
    BY <1>3, <2>2 DEF Inserted
  <2>3. CASE i > p
    <3>1. i - 1 \in p .. Len(q) /\ i - 1 \in 1 .. Len(q) /\ (i - 1) + 1 = i
      BY <1>1, <1>4, <2>3
    <3>2. r[(i - 1) + 1] = q[i - 1]
      BY <1>3, <3>1 DEF Inserted
    <3> QED BY <2>3, <3>1, <3>2
  <2> QED BY <2>1, <2>2, <2>3
<1>6. ASSUME NEW i \in 1 .. Len(q)
      PROVE  /\ (i < p => q[i].last < t.last) /\ (i >= p => q[i].last >= t.last)
             /\ q[i].last \in Nat /\ q[i].last + 1 \in Dates /\ q[i].last < last
  <2>1. q[i].last \in Nat /\ q[i].last + 1 \in Dates /\ q[i].last < last
    BY <1>1, Entries DEF DeferralsOk
  <2>2. i < p => q[i].last < t.last
    BY <1>1, <1>3
  <2>3. ASSUME i >= p PROVE q[i].last >= t.last
    <3>1. p \in 1 .. Len(q) /\ q[p].last >= t.last
      BY <1>1, <1>3, <2>3
    <3>2. q[p].last <= q[i].last
      <4>1. p = i \/ p < i
        BY <2>3
      <4>2. q[p].last \in Nat
        BY <1>1, <3>1, Entries
      <4> QED BY <2>1, <3>1, <4>1, <4>2 DEF DeferralsOk
    <3>3. q[p].last \in Nat
      BY <1>1, <3>1, Entries
    <3> QED BY <1>1, <2>1, <3>1, <3>2, <3>3
  <2> QED BY <2>1, <2>2, <2>3
<1>7. \A i \in 1 .. Len(r) : r[i].last + 1 \in Dates /\ r[i].last < last /\ r[i].last \in Nat
  BY <1>1, <1>5, <1>6
<1>8. ASSUME NEW i \in 1 .. Len(r), NEW j \in 1 .. Len(r), i < j
      PROVE  r[i].last <= r[j].last
  <2>1. ASSUME NEW a \in 1 .. Len(q), NEW b \in 1 .. Len(q), a <= b
        PROVE  q[a].last <= q[b].last
    BY <1>6, <2>1 DEF DeferralsOk
  <2>2. CASE j < p
    <3>1. i \in 1 .. Len(q) /\ j \in 1 .. Len(q) /\ r[i] = q[i] /\ r[j] = q[j]
      BY <1>5, <1>8, <2>2
    <3> QED BY <1>8, <2>1, <3>1
  <2>3. CASE j = p
    <3>1. i \in 1 .. Len(q) /\ i < p /\ r[i] = q[i] /\ r[j] = t
      BY <1>5, <1>8, <2>3
    <3> QED BY <1>1, <1>6, <3>1
  <2>4. CASE j > p
    <3>1. j - 1 \in 1 .. Len(q) /\ r[j] = q[j - 1] /\ j - 1 >= p
      BY <1>5, <2>4
    <3>2. CASE i < p
      <4>1. i \in 1 .. Len(q) /\ r[i] = q[i] /\ i <= j - 1
        BY <1>5, <1>8, <3>2
      <4> QED BY <2>1, <3>1, <4>1
    <3>3. CASE i = p
      <4>1. r[i] = t
        BY <1>5, <3>3
      <4> QED BY <1>6, <3>1, <4>1
    <3>4. CASE i > p
      <4>1. i - 1 \in 1 .. Len(q) /\ r[i] = q[i - 1] /\ i - 1 <= j - 1
        BY <1>5, <1>8, <3>4
      <4> QED BY <2>1, <3>1, <4>1
    <3> QED BY <3>2, <3>3, <3>4
  <2> QED BY <2>2, <2>3, <2>4
<1>9. DeferralsOk(r, last)
  BY <1>2, <1>7, <1>8 DEF DeferralsOk
\* And where each goes.
<1>10. ASSUME NEW i \in 1 .. Len(q)
       PROVE  \E j \in 1 .. Len(r) : r[j] = q[i]
  <2>1. CASE i < p
    <3>1. i \in 1 .. p - 1 /\ i \in 1 .. Len(r)
      BY <1>1, <1>4, <2>1
    <3> QED BY <1>3, <3>1 DEF Inserted
  <2>2. CASE i >= p
    <3>1. i \in p .. Len(q) /\ i + 1 \in 1 .. Len(r)
      BY <1>1, <1>4, <2>2
    <3> QED BY <1>3, <3>1 DEF Inserted
  <2> QED BY <2>1, <2>2
<1>11. DatesOf(r) = DatesOf(q) \cup {t.last + 1}
  <2>1. p \in 1 .. Len(r) /\ r[p] = t
    BY <1>1, <1>3, <1>4 DEF Inserted
  <2>2. DatesOf(r) \subseteq DatesOf(q) \cup {t.last + 1}
    BY <1>5 DEF DatesOf
  <2>3. DatesOf(q) \subseteq DatesOf(r)
    BY <1>10 DEF DatesOf
  <2>4. t.last + 1 \in DatesOf(r)
    BY <2>1 DEF DatesOf
  <2> QED BY <2>2, <2>3, <2>4
<1>12. ASSUME NEW E, PostponedOnce(q, E), t.last + 1 \in DatesOf(q) => t.last + 1 \in E
       PROVE  PostponedOnce(r, E)
  <2> SUFFICES ASSUME NEW i \in 1 .. Len(r), NEW j \in 1 .. Len(r), i < j, r[i].last = r[j].last
               PROVE  r[i].last + 1 \in E
    BY DEF PostponedOnce
  <2>1. CASE i = p \/ j = p
    <3>1. \E a \in 1 .. Len(q) : q[a].last = t.last
      BY <1>5, <2>1
    <3>2. t.last + 1 \in DatesOf(q)
      BY <3>1 DEF DatesOf
    <3>3. r[i].last = t.last
      BY <1>5, <2>1
    <3> QED BY <1>12, <3>2, <3>3
  <2>2. CASE i # p /\ j # p
    <3>1. PICK a \in 1 .. Len(q), b \in 1 .. Len(q) : a < b /\ r[i] = q[a] /\ r[j] = q[b]
      <4>1. CASE j < p
        BY <1>5, <2>2, <4>1
      <4>2. CASE i < p /\ j > p
        <5>1. i \in 1 .. Len(q) /\ r[i] = q[i] /\ j - 1 \in 1 .. Len(q) /\ r[j] = q[j - 1]
          BY <1>5, <4>2
        <5>2. i < j - 1
          BY <4>2
        <5> QED BY <5>1, <5>2
      <4>3. CASE i > p
        <5>1. i - 1 \in 1 .. Len(q) /\ r[i] = q[i - 1] /\ j - 1 \in 1 .. Len(q) /\ r[j] = q[j - 1]
          BY <1>5, <4>3
        <5>2. i - 1 < j - 1
          OBVIOUS
        <5> QED BY <5>1, <5>2
      <4> QED BY <2>2, <4>1, <4>2, <4>3
    <3> QED BY <1>12, <3>1 DEF PostponedOnce
  <2> QED BY <2>1, <2>2
<1> QED BY <1>9, <1>11, <1>12 DEF r

\* What is left if t is taken off.
IsResolved(r, q, t) ==
    /\ r \in Deferrals
    /\ \/ r = q /\ \A i \in 1 .. Len(q) : q[i].last # t.last
       \/ \E p \in 1 .. Len(q) : Removed(r, q, p) /\ q[p].last = t.last

LEMMA ResolveIs ==
    ASSUME NEW q \in Deferrals, NEW t
    PROVE  IsResolved(Resolve(q, t), q, t)
<1> DEFINE found == {i \in DOMAIN q : q[i].last = t.last}
<1>1. Len(q) \in Nat /\ DOMAIN q = 1 .. Len(q)
  BY DEF Deferrals
<1>2. CASE found = {}
  <2>1. Resolve(q, t) = q
    BY <1>2 DEF Resolve
  <2> QED BY <1>1, <1>2, <2>1 DEF IsResolved
<1>3. CASE found # {}
  <2>1. PICK p : p = Min(found)
    OBVIOUS
  <2>2. found \in SUBSET Nat
    BY <1>1
  <2>3. p \in found
    <3> HIDE DEF found
    <3> QED BY <1>3, <2>1, <2>2, Least
  <2>4. p \in 1 .. Len(q) /\ q[p].last = t.last
    BY <1>1, <2>3
  <2>5. Resolve(q, t) = RemoveAt(q, p)
    BY <1>3, <2>1 DEF Resolve
  <2>6. RemoveAt(q, p) \in Seq(Temporal) /\ Removed(RemoveAt(q, p), q, p)
    BY <2>4, RemoveAtIs DEF Deferrals
  <2> QED BY <2>4, <2>5, <2>6 DEF IsResolved, Deferrals
<1> QED BY <1>2, <1>3

LEMMA ResolveOk ==
    ASSUME NEW q, NEW last \in Nat, DeferralsOk(q, last), NEW t \in Temporal
    PROVE  /\ DeferralsOk(Resolve(q, t), last)
           /\ DatesOf(Resolve(q, t)) \subseteq DatesOf(q)
           /\ DatesOf(q) \subseteq DatesOf(Resolve(q, t)) \cup {t.last + 1}
           /\ \A E : PostponedOnce(q, E)
                => /\ PostponedOnce(Resolve(q, t), E)
                   /\ t.last + 1 \in DatesOf(Resolve(q, t)) => t.last + 1 \in E
<1> DEFINE r == Resolve(q, t)
<1>1. q \in Deferrals /\ Len(q) \in Nat /\ t.last \in Nat
  BY DEF DeferralsOk, Deferrals, Temporal
<1>2. IsResolved(r, q, t) /\ r \in Deferrals /\ Len(r) \in Nat
  <2>1. IsResolved(r, q, t)
    BY <1>1, ResolveIs
  <2>2. r \in Deferrals
    BY <2>1 DEF IsResolved
  <2> HIDE DEF r
  <2> QED BY <2>1, <2>2 DEF Deferrals
<1> HIDE DEF r
<1>3. \A i \in 1 .. Len(q) : q[i].last \in Nat
  BY <1>1, Entries
<1>4. CASE r = q /\ \A i \in 1 .. Len(q) : q[i].last # t.last
  <2>1. t.last + 1 \notin DatesOf(q)
    BY <1>1, <1>3, <1>4 DEF DatesOf
  <2> QED BY <1>4, <2>1 DEF r
<1>5. ASSUME NEW p \in 1 .. Len(q), Removed(r, q, p), q[p].last = t.last
      PROVE  /\ DeferralsOk(r, last) /\ DatesOf(r) \subseteq DatesOf(q)
             /\ DatesOf(q) \subseteq DatesOf(r) \cup {t.last + 1}
             /\ \A E : PostponedOnce(q, E)
                  => /\ PostponedOnce(r, E)
                     /\ t.last + 1 \in DatesOf(r) => t.last + 1 \in E
  <2>1. Len(q) = Len(r) + 1
    BY <1>5 DEF Removed
  <2> DEFINE from(i) == IF i < p THEN i ELSE i + 1
  <2>2. ASSUME NEW i \in 1 .. Len(r)
        PROVE  from(i) \in 1 .. Len(q) /\ from(i) # p /\ r[i] = q[from(i)]
    <3>1. CASE i < p
      <4>1. i \in 1 .. p - 1 /\ i \in 1 .. Len(q)
        BY <1>1, <1>2, <2>1, <3>1
      <4> QED BY <1>5, <3>1, <4>1 DEF Removed
    <3>2. CASE i >= p
      <4>1. i + 1 \in p + 1 .. Len(q) /\ i + 1 \in 1 .. Len(q) /\ (i + 1) - 1 = i
        BY <1>1, <1>2, <2>1, <3>2
      <4>2. r[(i + 1) - 1] = q[i + 1]
        BY <1>5, <4>1 DEF Removed
      <4> QED BY <3>2, <4>1, <4>2
    <3> QED BY <3>1, <3>2
  <2>3. ASSUME NEW i \in 1 .. Len(r), NEW j \in 1 .. Len(r), i < j
        PROVE  from(i) < from(j)
    BY <2>3
  <2> HIDE DEF from
  <2>4. DeferralsOk(r, last)
    <3>1. \A i \in 1 .. Len(r) : r[i].last + 1 \in Dates /\ r[i].last < last
      BY <2>2 DEF DeferralsOk
    <3>2. \A i, j \in 1 .. Len(r) : i < j => r[i].last <= r[j].last
      BY <2>2, <2>3 DEF DeferralsOk
    <3> QED BY <1>2, <3>1, <3>2 DEF DeferralsOk
  <2>5. DatesOf(r) \subseteq DatesOf(q)
    BY <2>2 DEF DatesOf
  <2>6. ASSUME NEW i \in 1 .. Len(q), i # p PROVE \E j \in 1 .. Len(r) : r[j] = q[i]
    <3>1. CASE i < p
      <4>1. i \in 1 .. p - 1 /\ i \in 1 .. Len(r)
        BY <1>1, <1>2, <2>1, <3>1
      <4> QED BY <1>5, <4>1 DEF Removed
    <3>2. CASE i > p
      <4>1. i \in p + 1 .. Len(q) /\ i - 1 \in 1 .. Len(r)
        BY <1>1, <1>2, <2>1, <3>2
      <4> QED BY <1>5, <4>1 DEF Removed
    <3> QED BY <2>6, <3>1, <3>2
  <2>7. DatesOf(q) \subseteq DatesOf(r) \cup {t.last + 1}
    <3> SUFFICES ASSUME NEW i \in 1 .. Len(q) PROVE q[i].last + 1 \in DatesOf(r) \cup {t.last + 1}
      BY DEF DatesOf
    <3>1. CASE i = p
      BY <1>5, <3>1
    <3>2. CASE i # p
      BY <2>6, <3>2 DEF DatesOf
    <3> QED BY <3>1, <3>2
  <2>8. ASSUME NEW E, PostponedOnce(q, E)
        PROVE  PostponedOnce(r, E) /\ (t.last + 1 \in DatesOf(r) => t.last + 1 \in E)
    <3>1. PostponedOnce(r, E)
      BY <2>2, <2>3, <2>8 DEF PostponedOnce
    <3>2. ASSUME NEW i \in 1 .. Len(r), r[i].last + 1 = t.last + 1 PROVE t.last + 1 \in E
      <4>1. from(i) \in 1 .. Len(q) /\ from(i) # p /\ r[i] = q[from(i)]
        BY <2>2
      <4>2. q[from(i)].last = t.last
        BY <1>1, <1>3, <3>2, <4>1
      <4>3. from(i) < p \/ p < from(i)
        BY <4>1
      <4> QED BY <1>5, <2>8, <4>1, <4>2, <4>3 DEF PostponedOnce
    <3> QED BY <3>1, <3>2 DEF DatesOf
  <2> QED BY <2>4, <2>5, <2>7, <2>8
<1>6. CASE \E p \in 1 .. Len(q) : Removed(r, q, p) /\ q[p].last = t.last
  BY <1>5, <1>6 DEF r
<1> QED BY <1>2, <1>4, <1>6 DEF IsResolved

-----------------------------------------------------------------------------
(* What a pass over a list has come to with its i-th instance.  The        *)
(* variables are those before the pass.                                    *)

HistoryOk(s, E, F, M) ==
    /\ \A d \in Dates : M[d] > 0 => d <= s.last \/ d \in F
    /\ \A d \in DatesOf(s.deferred) : M[d] > 0 => d \in E \cup F
    /\ \A d \in Dates : M[d] <= 1 \/ d \in E \cup F

Handled(d, q, M, I, F, W) == M[d] > 0 \/ d \in I \cup F \cup W \/ d \in DatesOf(q)

\* What the pass starts from.
PassFor(list, end) ==
    /\ SxOk(sx, exposed) /\ ListOk(list, end, sx, exposed, failed, made)
    /\ HistoryOk(sx, exposed, failed, made)
    /\ failures \in Nat /\ made \in [Dates -> 0 .. 2]
    /\ ignored \in SUBSET Dates /\ failed \in SUBSET Dates /\ withdrawn \in SUBSET Dates
    /\ Total = 0 /\ ~Database =>
         \A d \in 1 .. sx.last : Handled(d, sx.deferred, made, ignored, failed, withdrawn)

ListPassed(run, i, list, end) ==
    /\ Alike(run.list, list) /\ ListFit(run.list, end, sx, exposed, run.made)
    /\ \A j \in i + 1 .. Len(list) : run.list[j].state = list[j].state
    /\ \A j \in 1 .. i : Creates(list[j]) =>
         run.list[j].state = "CREATED" \/ Date(list[j]) \in run.failed

Grown(run) ==
    /\ \A d \in Dates : made[d] <= run.made[d]
    /\ ignored \subseteq run.ignored /\ failed \subseteq run.failed
    /\ withdrawn \subseteq run.withdrawn

LastPassed(run, i, list) ==
    /\ sx.last <= run.last /\ run.remain <= sx.remain
    /\ \/ run.last = sx.last
       \/ \E j \in 1 .. i : /\ Date(list[j]) = run.last
                            /\ list[j].state \in {"IGNORED", "POSTPONED", "TO_CREATE"}
    /\ run.last = sx.last /\ (\A j \in 1 .. Len(list) : Date(list[j]) > sx.last)
         => run.remain = sx.remain /\ run.count = sx.count

DeferredPassed(run, i, list) ==
    /\ DeferralsOk(run.deferred, run.last) /\ PostponedOnce(run.deferred, exposed)
    /\ \A d \in DatesOf(run.deferred) :
         \/ d \in DatesOf(sx.deferred)
         \/ \E j \in 1 .. i : Date(list[j]) = d /\ Defers(list[j])
    /\ \A j \in 1 .. i : Unpostpone(list[j]) =>
         Date(list[j]) \in exposed \/ Date(list[j]) \notin DatesOf(run.deferred)
    /\ (\A j \in 1 .. Len(list) : list[j].orig = "POSTPONED" <=> list[j].state = "POSTPONED")
         => run.deferred = sx.deferred

MadePassed(run, i, list) ==
    /\ \A d \in Dates : \/ run.made[d] = made[d]
                        \/ \E j \in 1 .. i : Date(list[j]) = d /\ Creates(list[j])
    /\ \A d \in Dates : run.made[d] > 0 => d <= run.last \/ d \in run.failed
    /\ \A d \in Dates : run.made[d] <= 1 \/ d \in exposed \cup run.failed

HandledBy(d, run) ==
    Handled(d, run.deferred, run.made, run.ignored, run.failed, run.withdrawn)

NoneLost(run, i, list) ==
    Total = 0 /\ ~Database =>
        /\ \A d \in 1 .. run.last : HandledBy(d, run)
        /\ \A j \in 1 .. i : Date(list[j]) > sx.last /\ list[j].state # "REMINDER"
                               => HandledBy(Date(list[j]), run)

PassInv(run, i, list, end) ==
    /\ run \in RunType /\ ListPassed(run, i, list, end) /\ Grown(run)
    /\ LastPassed(run, i, list) /\ DeferredPassed(run, i, list)
    /\ MadePassed(run, i, list) /\ NoneLost(run, i, list)

\* The i-th instance is put into effect.
StepCase(new, run, i, list, end, result) ==
    /\ PassFor(list, end) /\ i \in 1 .. Len(list) /\ PassInv(run, i - 1, list, end)
    /\ IsEffect(new, run, i, run.list[i], result) /\ IsRecord(new)

LEMMA StepFacts ==
    ASSUME NEW new, NEW run, NEW i, NEW list, NEW end, NEW result,
           StepCase(new, run, i, list, end, result)
    PROVE  /\ run.list[i] = list[i] /\ list[i] \in InstanceType /\ list[i].state \in States
           /\ list[i].tsd \in Temporal /\ Date(list[i]) \in Dates
           /\ Date(list[i]) = list[i].tsd.last + 1 /\ list[i].tsd.last \in Nat
           /\ i \in Nat /\ i - 1 \in Nat /\ i - 1 + 1 = i /\ i \in 1 .. i
           /\ Len(list) \in Nat /\ list \in Lists /\ i \in 1 .. Len(list)
           /\ run.list \in Lists /\ Len(run.list) = Len(list)
           /\ 1 .. i - 1 \subseteq 1 .. i
           /\ \A j \in 1 .. i : j = i \/ j \in 1 .. i - 1
           /\ run.last \in Nat /\ sx.last \in Nat /\ run.last \in Dates \cup {0}
           /\ \A d \in Dates : d \in Nat
           /\ IsEffect(new, run, i, list[i], result)
<1>1. i \in 1 .. Len(list) /\ list \in Lists /\ \A j \in 1 .. Len(list) : Date(list[j]) \in Dates
  BY DEF StepCase, PassFor, ListOk, ListFit
<1>2. Len(list) \in Nat
  BY <1>1 DEF Lists
<1>3. i \in Nat /\ i - 1 \in Nat /\ i - 1 + 1 = i /\ i \in 1 .. i /\ 1 .. i - 1 \subseteq 1 .. i
      /\ \A j \in 1 .. i : j = i \/ j \in 1 .. i - 1
  BY <1>1, <1>2
<1>4. /\ list[i] \in InstanceType /\ list[i].tsd \in Temporal /\ list[i].state \in States
  BY <1>1, InstanceTypes
<1>5. list[i].tsd.last \in Nat /\ Date(list[i]) = list[i].tsd.last + 1
  BY <1>4 DEF Temporal, Date
<1>6. ListPassed(run, i - 1, list, end) /\ run \in RunType
  BY DEF StepCase, PassInv
<1>7. run.list \in Lists /\ Len(run.list) = Len(list)
  BY <1>6 DEF ListPassed, Alike
<1>8. run.list[i] = list[i]
  <2>1. i \in i - 1 + 1 .. Len(list)
    BY <1>1, <1>3
  <2>2. /\ run.list[i].state = list[i].state /\ run.list[i].tsd = list[i].tsd
        /\ run.list[i].orig = list[i].orig
    BY <1>1, <1>6, <2>1 DEF ListPassed, Alike
  <2>3. run.list[i] \in InstanceType
    BY <1>1, <1>7, InstanceTypes
  <2> QED BY <1>4, <2>2, <2>3 DEF InstanceType
<1>9. run.last \in Dates \cup {0} /\ sx.last \in Dates \cup {0}
  BY <1>6 DEF RunType, StepCase, PassFor, SxOk, ScheduleOk, SxType
<1>10. IsEffect(new, run, i, list[i], result)
  BY <1>8 DEF StepCase
<1>11. \A d \in Dates : d \in Nat
  BY DEF Dates
<1> QED BY <1>1, <1>2, <1>3, <1>4, <1>5, <1>6, <1>7, <1>8, <1>9, <1>10, <1>11

\* The fields of the schedule and the history, one instance on.
Moved(new, run, inst, result) ==
    /\ new.last \in Dates \cup {0} /\ run.last <= new.last
    /\ (Counts(inst, result) => Date(inst) <= new.last)
    /\ (new.last = run.last \/ (new.last = Date(inst) /\ Counts(inst, result)))
    /\ new.count \in Nat /\ new.remain \in 0 .. Total /\ new.remain <= run.remain
    /\ (~Counts(inst, result) => new.remain = run.remain /\ new.count = run.count)
    /\ new.failures \in Nat /\ new.made \in [Dates -> 0 .. 2]
    /\ (\A d \in Dates : run.made[d] <= new.made[d])
    /\ (\A d \in Dates \ {Date(inst)} : new.made[d] = run.made[d])
    /\ (Creates(inst) /\ result \in {"ok", "flawed"} => new.made[Date(inst)] > 0)
    /\ (~Creates(inst) => new.made = run.made)
    /\ new.made[Date(inst)] <= run.made[Date(inst)] + 1
    /\ run.ignored \subseteq new.ignored /\ new.ignored \in SUBSET Dates
    /\ run.failed \subseteq new.failed /\ new.failed \in SUBSET Dates
    /\ run.withdrawn \subseteq new.withdrawn /\ new.withdrawn \in SUBSET Dates

LEMMA StepMoves ==
    ASSUME NEW new, NEW run, NEW i, NEW list, NEW end, NEW result,
           StepCase(new, run, i, list, end, result)
    PROVE  Moved(new, run, list[i], result)
<1> DEFINE inst == list[i]
           d == Date(inst)
<1>1. /\ IsEffect(new, run, i, inst, result) /\ inst \in InstanceType /\ inst.tsd \in Temporal
      /\ d \in Dates /\ run.last \in Nat /\ run.last \in Dates \cup {0} /\ \A x \in Dates : x \in Nat
  BY StepFacts
<1>2. run \in RunType
  BY DEF StepCase, PassInv
<1>3. /\ run.count \in Nat /\ run.remain \in 0 .. Total /\ run.failures \in Nat
      /\ run.made \in [Dates -> 0 .. 2] /\ run.ignored \in SUBSET Dates
      /\ run.failed \in SUBSET Dates /\ run.withdrawn \in SUBSET Dates /\ Total \in Nat
  BY <1>2, SxAssumption DEF RunType
<1> HIDE DEF inst, d
<1>4. d = Date(inst)
  BY DEF d
<1>5. Max({run.last, d}) \in {run.last, d} /\ Max({run.last, d}) >= run.last /\ Max({run.last, d}) >= d
  <2>1. PICK x \in Int, y \in Int : x = run.last /\ y = d
    BY <1>1
  <2>2. Max({x, y}) \in {x, y} /\ Max({x, y}) >= x /\ Max({x, y}) >= y
    BY MaxOfTwo
  <2> QED BY <2>1, <2>2
<1>6. /\ new.last \in Dates \cup {0} /\ run.last <= new.last
      /\ (Counts(inst, result) => d <= new.last)
      /\ (new.last = run.last \/ (new.last = d /\ Counts(inst, result)))
  <2>1. new.last = IF Counts(inst, result) THEN Max({run.last, d}) ELSE run.last
    BY <1>1, <1>4 DEF IsEffect
  <2>2. CASE Counts(inst, result)
    BY <1>1, <1>5, <2>1, <2>2
  <2>3. CASE ~Counts(inst, result)
    BY <1>1, <2>1, <2>3
  <2> QED BY <2>2, <2>3
<1>7. /\ new.count \in Nat /\ new.remain \in 0 .. Total /\ new.remain <= run.remain
      /\ (~Counts(inst, result) => new.remain = run.remain /\ new.count = run.count)
  <2>1. new.count = IF Counts(inst, result) THEN inst.tsd.num + 1 ELSE run.count
    BY <1>1 DEF IsEffect
  <2>2. new.remain = IF Counts(inst, result) /\ run.remain > 0 THEN run.remain - 1 ELSE run.remain
    BY <1>1 DEF IsEffect
  <2>3. inst.tsd.num \in Nat
    BY <1>1 DEF Temporal
  <2> QED BY <1>3, <2>1, <2>2, <2>3
<1>8. new.failures \in Nat
  BY <1>1, <1>3 DEF IsEffect
<1>9. new.made = IF Creates(inst) /\ result \in {"ok", "flawed"}
                 THEN [run.made EXCEPT ![d] = Min({run.made[d] + 1, 2})] ELSE run.made
  BY <1>1, <1>4 DEF IsEffect
<1>10. run.made[d] \in 0 .. 2
  BY <1>1, <1>3
<1>11. /\ Min({run.made[d] + 1, 2}) \in {run.made[d] + 1, 2}
       /\ Min({run.made[d] + 1, 2}) <= run.made[d] + 1 /\ Min({run.made[d] + 1, 2}) <= 2
  <2>1. PICK x \in Int : x = run.made[d] + 1
    BY <1>10
  <2>2. Min({x, 2}) \in {x, 2} /\ Min({x, 2}) <= x /\ Min({x, 2}) <= 2
    BY MinOfTwo
  <2> QED BY <2>1, <2>2
<1>12. PICK y : y = Min({run.made[d] + 1, 2})
  OBVIOUS
<1>13. y \in 1 .. 2 /\ y <= run.made[d] + 1 /\ run.made[d] <= y
  BY <1>10, <1>11, <1>12
<1>14. new.made = IF Creates(inst) /\ result \in {"ok", "flawed"}
                  THEN [run.made EXCEPT ![d] = y] ELSE run.made
  BY <1>9, <1>12
<1>15. /\ new.made \in [Dates -> 0 .. 2]
       /\ (\A x \in Dates : run.made[x] <= new.made[x])
       /\ (\A x \in Dates \ {d} : new.made[x] = run.made[x])
       /\ (Creates(inst) /\ result \in {"ok", "flawed"} => new.made[d] > 0)
       /\ (~Creates(inst) => new.made = run.made)
       /\ new.made[d] <= run.made[d] + 1
  <2>1. \A x \in Dates : run.made[x] \in 0 .. 2
    BY <1>3
  <2>2. CASE Creates(inst) /\ result \in {"ok", "flawed"}
    <3>1. new.made = [run.made EXCEPT ![d] = y]
      BY <1>14, <2>2
    <3>2. new.made[d] = y /\ \A x \in Dates \ {d} : new.made[x] = run.made[x]
      BY <1>1, <1>3, <3>1
    <3>3. new.made \in [Dates -> 0 .. 2]
      <4>1. y \in 0 .. 2
        BY <1>13
      <4> QED BY <1>3, <3>1, <4>1
    <3>4. \A x \in Dates : run.made[x] <= new.made[x]
      BY <1>13, <2>1, <3>2
    <3> QED BY <1>13, <2>2, <3>2, <3>3, <3>4
  <2>3. CASE ~(Creates(inst) /\ result \in {"ok", "flawed"})
    BY <1>3, <1>10, <1>14, <2>1, <2>3
  <2> QED BY <2>2, <2>3
<1>16. /\ run.ignored \subseteq new.ignored /\ new.ignored \in SUBSET Dates
       /\ run.failed \subseteq new.failed /\ new.failed \in SUBSET Dates
       /\ run.withdrawn \subseteq new.withdrawn /\ new.withdrawn \in SUBSET Dates
  BY <1>1, <1>3, <1>4 DEF IsEffect
<1>17. Moved(new, run, inst, result)
  BY <1>4, <1>6, <1>7, <1>8, <1>15, <1>16 DEF Moved
<1> QED BY <1>17 DEF inst

LEMMA FitGrows ==
    ASSUME NEW list, NEW end, NEW s, NEW E, NEW M, NEW N, ListFit(list, end, s, E, M),
           \A d \in Dates : M[d] > 0 => N[d] > 0
    PROVE  ListFit(list, end, s, E, N)
<1>1. CreatedMade(list, N)
  BY DEF ListFit, CreatedMade
<1> QED BY <1>1 DEF ListFit

LEMMA AlikeTwice ==
    ASSUME NEW a, NEW b, NEW c, Alike(a, b), Alike(b, c)
    PROVE  Alike(a, c)
BY DEF Alike

LEMMA StepList ==
    ASSUME NEW new, NEW run, NEW i, NEW list, NEW end, NEW result,
           StepCase(new, run, i, list, end, result)
    PROVE  ListPassed(new, i, list, end)
<1> DEFINE inst == list[i]
<1>1. /\ IsEffect(new, run, i, inst, result) /\ run.list[i] = inst /\ Date(inst) \in Dates
      /\ i \in 1 .. Len(list) /\ Len(list) \in Nat /\ Len(run.list) = Len(list) /\ run.list \in Lists
      /\ \A j \in 1 .. i : j = i \/ j \in 1 .. i - 1
      /\ sx.last \in Nat /\ i \in Nat
  BY StepFacts
<1>2. ListPassed(run, i - 1, list, end) /\ run.made \in [Dates -> 0 .. 2]
  BY DEF StepCase, PassInv, RunType
<1>3. Moved(new, run, inst, result)
  BY StepMoves
<1>4. ListFit(run.list, end, sx, exposed, new.made)
  <2>1. \A d \in Dates : run.made[d] > 0 => new.made[d] > 0
    <3> SUFFICES ASSUME NEW d \in Dates, run.made[d] > 0 PROVE new.made[d] > 0
      OBVIOUS
    <3>1. run.made[d] \in 0 .. 2 /\ new.made[d] \in 0 .. 2 /\ run.made[d] <= new.made[d]
      BY <1>2, <1>3 DEF Moved
    <3> QED BY <3>1
  <2> QED BY <1>2, <2>1, FitGrows DEF ListPassed
<1>5. \A j \in i + 1 .. Len(list) : run.list[j].state = list[j].state
  <2> SUFFICES ASSUME NEW j \in i + 1 .. Len(list) PROVE run.list[j].state = list[j].state
    OBVIOUS
  <2>1. j \in (i - 1) + 1 .. Len(list)
    BY <1>1
  <2> QED BY <1>2, <2>1 DEF ListPassed
<1>6. \A j \in 1 .. i - 1 : Creates(list[j]) =>
        run.list[j].state = "CREATED" \/ Date(list[j]) \in new.failed
  BY <1>2, <1>3 DEF ListPassed, Moved
<1>7. CASE Creates(inst) /\ result = "ok"
  <2>1. new.list = Changed(run.list, i, "CREATED")
    BY <1>1, <1>7 DEF IsEffect
  <2> DEFINE changed == Changed(run.list, i, "CREATED")
  <2>2. Alike(changed, run.list)
        /\ \A j \in 1 .. Len(list) : changed[j].state = NewState(run.list, i, "CREATED", j)
    BY <1>1, ChangedIs DEF States
  <2>3. Alike(changed, list)
    BY <1>2, <2>2, AlikeTwice DEF ListPassed
  <2>4. ListFit(changed, end, sx, exposed, new.made)
    <3>1. new.made[Date(run.list[i])] > 0
      BY <1>1, <1>3, <1>7 DEF Moved
    <3> QED BY <1>1, <1>4, <3>1, ChangedFit DEF States
  <2> HIDE DEF changed
  <2>5. \A j \in i + 1 .. Len(list) : changed[j].state = list[j].state
    <3> SUFFICES ASSUME NEW j \in i + 1 .. Len(list) PROVE changed[j].state = list[j].state
      OBVIOUS
    <3>1. j \in 1 .. Len(list) /\ j # i /\ ~(j < i)
      BY <1>1
    <3>2. changed[j].state = run.list[j].state
      BY <2>2, <3>1 DEF NewState
    <3> QED BY <1>5, <3>2
  <2>6. ASSUME NEW j \in 1 .. i, Creates(list[j])
        PROVE  changed[j].state = "CREATED" \/ Date(list[j]) \in new.failed
    <3>1. j \in 1 .. Len(list)
      BY <1>1
    <3>2. CASE j = i
      BY <2>2, <3>1, <3>2 DEF NewState
    <3>3. CASE j \in 1 .. i - 1
      <4>1. run.list[j].state = "CREATED" \/ Date(list[j]) \in new.failed
        BY <1>6, <2>6, <3>3
      <4>2. run.list[j].state = "CREATED" => changed[j].state = "CREATED"
        BY <2>2, <3>1 DEF NewState
      <4> QED BY <4>1, <4>2
    <3> QED BY <1>1, <3>2, <3>3
  <2>7. new.list = changed
    BY <2>1 DEF changed
  <2> QED BY <2>3, <2>4, <2>5, <2>6, <2>7 DEF ListPassed
<1>8. CASE ~(Creates(inst) /\ result = "ok")
  <2>1. new.list = run.list
    BY <1>1, <1>8 DEF IsEffect
  <2>2. ASSUME NEW j \in 1 .. i, Creates(list[j])
        PROVE  run.list[j].state = "CREATED" \/ Date(list[j]) \in new.failed
    <3>1. CASE j = i
      <4>1. Creates(inst) /\ result # "ok"
        BY <1>8, <2>2, <3>1
      <4>2. new.failed = run.failed \cup {Date(inst)}
        BY <1>1, <4>1 DEF IsEffect
      <4> QED BY <3>1, <4>2
    <3>2. CASE j \in 1 .. i - 1
      BY <1>6, <2>2, <3>2
    <3> QED BY <1>1, <3>1, <3>2
  <2> QED BY <1>2, <1>4, <1>5, <2>1, <2>2 DEF ListPassed
<1> QED BY <1>7, <1>8

LEMMA StepLast ==
    ASSUME NEW new, NEW run, NEW i, NEW list, NEW end, NEW result,
           StepCase(new, run, i, list, end, result)
    PROVE  LastPassed(new, i, list)
<1> DEFINE inst == list[i]
<1>1. /\ Date(inst) \in Dates /\ i \in 1 .. Len(list) /\ 1 .. i - 1 \subseteq 1 .. i /\ i \in 1 .. i
      /\ run.last \in Nat /\ sx.last \in Nat
  BY StepFacts
<1>2. Moved(new, run, inst, result)
  BY StepMoves
<1>3. LastPassed(run, i - 1, list) /\ run.remain \in 0 .. Total
  BY DEF StepCase, PassInv, RunType
<1>4. sx.remain \in Nat /\ Total \in Nat
  BY SxAssumption, StartIs DEF StepCase, PassFor, SxOk
<1>5. new.last \in Nat /\ new.remain \in Nat /\ run.remain \in Nat
  BY <1>2, <1>3, <1>4 DEF Moved, Dates
<1>6. sx.last <= new.last /\ new.remain <= sx.remain
  BY <1>1, <1>2, <1>3, <1>4, <1>5 DEF LastPassed, Moved
<1>7. \/ new.last = sx.last
      \/ \E j \in 1 .. i : /\ Date(list[j]) = new.last
                           /\ list[j].state \in {"IGNORED", "POSTPONED", "TO_CREATE"}
  <2>1. CASE new.last = run.last
    BY <1>1, <1>3, <2>1 DEF LastPassed
  <2>2. CASE new.last = Date(inst) /\ Counts(inst, result)
    BY <1>1, <2>2 DEF Counts, Creates
  <2> QED BY <1>2, <2>1, <2>2 DEF Moved
<1>8. ASSUME new.last = sx.last, \A j \in 1 .. Len(list) : Date(list[j]) > sx.last
      PROVE  new.remain = sx.remain /\ new.count = sx.count
  <2>1. run.last = sx.last
    BY <1>1, <1>2, <1>3, <1>5, <1>8 DEF LastPassed, Moved
  <2>2. run.remain = sx.remain /\ run.count = sx.count
    BY <1>3, <1>8, <2>1 DEF LastPassed
  <2>3. Date(inst) > sx.last
    BY <1>1, <1>8
  <2>4. ~Counts(inst, result)
    BY <1>1, <1>2, <1>5, <1>8, <2>3 DEF Moved, Dates
  <2> QED BY <1>2, <2>2, <2>4 DEF Moved
<1> QED BY <1>6, <1>7, <1>8 DEF LastPassed

LEMMA OkLater ==
    ASSUME NEW q, NEW last \in Nat, NEW later \in Nat, last <= later, DeferralsOk(q, last)
    PROVE  DeferralsOk(q, later)
<1> SUFFICES ASSUME NEW i \in 1 .. Len(q) PROVE q[i].last < later
  BY DEF DeferralsOk
<1>1. q[i].last < last /\ q[i].last \in Nat
  BY Entries DEF DeferralsOk
<1> QED BY <1>1

\* Whoever is listed for a date that is postponed was postponed before, unless the
\* date is exposed.
LEMMA ListedPostponed ==
    ASSUME NEW list, NEW end, PassFor(list, end), NEW j \in 1 .. Len(list),
           Date(list[j]) \in DatesOf(sx.deferred), Date(list[j]) \notin exposed
    PROVE  list[j].orig = "POSTPONED"
BY DEF PassFor, ListOk, ListFit, OrigKnown

\* No date is listed twice, unless it is exposed.
LEMMA ListedTwice ==
    ASSUME NEW list, NEW end, PassFor(list, end), NEW i \in 1 .. Len(list), NEW j \in 1 .. Len(list),
           i # j, Date(list[i]) = Date(list[j])
    PROVE  Date(list[i]) \in exposed
<1>1. i < j \/ j < i
  OBVIOUS
<1> QED BY <1>1 DEF PassFor, ListOk, ListFit, ListedOnce

LEMMA StepDeferred ==
    ASSUME NEW new, NEW run, NEW i, NEW list, NEW end, NEW result,
           StepCase(new, run, i, list, end, result)
    PROVE  DeferredPassed(new, i, list)
<1> DEFINE inst == list[i]
           d == Date(inst)
<1>1. /\ IsEffect(new, run, i, inst, result) /\ d \in Dates /\ i \in 1 .. Len(list)
      /\ inst.tsd \in Temporal /\ d = inst.tsd.last + 1 /\ inst.tsd.last \in Nat
      /\ 1 .. i - 1 \subseteq 1 .. i /\ i \in 1 .. i
      /\ (\A j \in 1 .. i : j = i \/ j \in 1 .. i - 1)
      /\ run.last \in Nat /\ Len(list) \in Nat /\ i \in Nat
  BY StepFacts
<1>2. Moved(new, run, inst, result)
  BY StepMoves
<1>3. new.last \in Nat /\ run.last <= new.last
  BY <1>2 DEF Moved, Dates
<1>4. DeferredPassed(run, i - 1, list) /\ PassFor(list, end)
  BY DEF StepCase, PassInv
<1>5. DeferralsOk(run.deferred, new.last) /\ PostponedOnce(run.deferred, exposed)
  BY <1>1, <1>3, <1>4, OkLater DEF DeferredPassed
<1>6. ASSUME NEW x \in DatesOf(run.deferred)
      PROVE  \/ x \in DatesOf(sx.deferred)
             \/ \E j \in 1 .. i - 1 : Date(list[j]) = x /\ Defers(list[j])
  BY <1>4 DEF DeferredPassed
<1>7. ASSUME NEW j \in 1 .. i - 1, Unpostpone(list[j])
      PROVE  Date(list[j]) \in exposed \/ Date(list[j]) \notin DatesOf(run.deferred)
  BY <1>4, <1>7 DEF DeferredPassed
<1>8. ASSUME \A j \in 1 .. Len(list) : list[j].orig = "POSTPONED" <=> list[j].state = "POSTPONED"
      PROVE  new.deferred = sx.deferred
  <2>1. run.deferred = sx.deferred
    BY <1>4, <1>8 DEF DeferredPassed
  <2>2. ~Unpostpone(inst) /\ ~Defers(inst)
    BY <1>1, <1>8 DEF Unpostpone, Defers
  <2> QED BY <1>1, <2>1, <2>2 DEF IsEffect
<1> HIDE DEF d
<1>9. CASE Unpostpone(inst)
  <2> DEFINE q == Resolve(run.deferred, inst.tsd)
  <2>1. /\ DeferralsOk(q, new.last) /\ DatesOf(q) \subseteq DatesOf(run.deferred)
        /\ PostponedOnce(q, exposed) /\ (d \in DatesOf(q) => d \in exposed)
    BY <1>1, <1>3, <1>5, ResolveOk
  <2>2. new.deferred = q
    BY <1>1, <1>9 DEF IsEffect
  <2> HIDE DEF q
  <2>3. \A x \in DatesOf(q) : \/ x \in DatesOf(sx.deferred)
                              \/ \E j \in 1 .. i : Date(list[j]) = x /\ Defers(list[j])
    BY <1>1, <1>6, <2>1
  <2>4. ASSUME NEW j \in 1 .. i, Unpostpone(list[j])
        PROVE  Date(list[j]) \in exposed \/ Date(list[j]) \notin DatesOf(q)
    <3>1. CASE j = i
      BY <2>1, <3>1 DEF d
    <3>2. CASE j \in 1 .. i - 1
      BY <1>7, <2>1, <2>4, <3>2
    <3> QED BY <1>1, <3>1, <3>2
  <2> QED BY <1>8, <2>1, <2>2, <2>3, <2>4 DEF DeferredPassed
<1>10. CASE ~Unpostpone(inst) /\ Defers(inst)
  <2> DEFINE q == Postpone(run.deferred, inst.tsd)
  <2>1. inst.tsd.last < new.last
    <3>1. d <= new.last
      BY <1>2, <1>10 DEF Moved, Counts, Defers, d
    <3> QED BY <1>1, <1>3, <3>1
  <2>2. d \in DatesOf(run.deferred) => d \in exposed
    <3> SUFFICES ASSUME d \in DatesOf(run.deferred), d \notin exposed PROVE FALSE
      OBVIOUS
    <3>1. CASE d \in DatesOf(sx.deferred)
      <4>1. inst.orig = "POSTPONED"
        BY <1>1, <1>4, <3>1, ListedPostponed DEF d
      <4> QED BY <1>10, <4>1 DEF Defers
    <3>2. CASE \E j \in 1 .. i - 1 : Date(list[j]) = d /\ Defers(list[j])
      <4>1. PICK j \in 1 .. i - 1 : Date(list[j]) = d
        BY <3>2
      <4>2. j \in 1 .. Len(list) /\ j # i
        BY <1>1
      <4> QED BY <1>1, <1>4, <4>1, <4>2, ListedTwice DEF d
    <3> QED BY <1>6, <3>1, <3>2
  <2>3. /\ DeferralsOk(q, new.last) /\ DatesOf(q) = DatesOf(run.deferred) \cup {d}
        /\ PostponedOnce(q, exposed)
    BY <1>1, <1>3, <1>5, <2>1, <2>2, PostponeOk
  <2>4. new.deferred = q
    BY <1>1, <1>10 DEF IsEffect
  <2> HIDE DEF q
  <2>5. \A x \in DatesOf(q) : \/ x \in DatesOf(sx.deferred)
                              \/ \E j \in 1 .. i : Date(list[j]) = x /\ Defers(list[j])
    BY <1>1, <1>6, <1>10, <2>3 DEF d
  <2>6. ASSUME NEW j \in 1 .. i, Unpostpone(list[j]), Date(list[j]) \notin exposed
        PROVE  Date(list[j]) \notin DatesOf(q)
    <3>1. j \in 1 .. i - 1 /\ j # i
      BY <1>1, <1>10, <2>6
    <3>2. Date(list[j]) \notin DatesOf(run.deferred)
      BY <1>7, <2>6, <3>1
    <3>3. Date(list[j]) # d
      <4>1. j \in 1 .. Len(list)
        BY <1>1
      <4> QED BY <1>1, <1>4, <2>6, <3>1, <4>1, ListedTwice DEF d
    <3> QED BY <2>3, <3>2, <3>3
  <2> QED BY <1>8, <2>3, <2>4, <2>5, <2>6 DEF DeferredPassed
<1>11. CASE ~Unpostpone(inst) /\ ~Defers(inst)
  <2>1. new.deferred = run.deferred
    BY <1>1, <1>11 DEF IsEffect
  <2>2. \A x \in DatesOf(run.deferred) :
           \/ x \in DatesOf(sx.deferred)
           \/ \E j \in 1 .. i : Date(list[j]) = x /\ Defers(list[j])
    BY <1>1, <1>6
  <2>3. ASSUME NEW j \in 1 .. i, Unpostpone(list[j])
        PROVE  Date(list[j]) \in exposed \/ Date(list[j]) \notin DatesOf(run.deferred)
    <3>1. j \in 1 .. i - 1
      BY <1>1, <1>11, <2>3
    <3> QED BY <1>7, <2>3, <3>1
  <2> QED BY <1>5, <1>8, <2>1, <2>2, <2>3 DEF DeferredPassed
<1> QED BY <1>9, <1>10, <1>11

\* A date that was made and is listed as one to create, or to postpone, is known.
LEMMA MadeKnown ==
    ASSUME NEW list, NEW end, PassFor(list, end), NEW j \in 1 .. Len(list),
           list[j].state # "CREATED", made[Date(list[j])] > 0
    PROVE  Date(list[j]) \in exposed \cup failed
<1> DEFINE d == Date(list[j])
<1>1. d \in Dates /\ WorkedKnown(list, sx, exposed, failed) /\ HistoryOk(sx, exposed, failed, made)
      /\ sx.last \in Nat /\ d \in Nat
  BY StartIs DEF PassFor, SxOk, ListOk, ListFit, Dates
<1>2. d > sx.last \/ d \in exposed \cup failed \/ d \in DatesOf(sx.deferred)
  BY <1>1 DEF WorkedKnown
<1>3. CASE d > sx.last
  <2>1. ~(d <= sx.last)
    BY <1>1, <1>3
  <2> QED BY <1>1, <2>1 DEF HistoryOk
<1>4. CASE d \in DatesOf(sx.deferred)
  BY <1>1, <1>4 DEF HistoryOk
<1> QED BY <1>2, <1>3, <1>4

LEMMA StepMade ==
    ASSUME NEW new, NEW run, NEW i, NEW list, NEW end, NEW result,
           StepCase(new, run, i, list, end, result)
    PROVE  MadePassed(new, i, list)
<1> DEFINE inst == list[i]
           d == Date(inst)
<1>1. /\ IsEffect(new, run, i, inst, result) /\ d \in Dates /\ i \in 1 .. Len(list)
      /\ 1 .. i - 1 \subseteq 1 .. i /\ i \in 1 .. i /\ run.last \in Nat /\ Len(list) \in Nat
      /\ i \in Nat /\ \A x \in Dates : x \in Nat
  BY StepFacts
<1>2. Moved(new, run, inst, result)
  BY StepMoves
<1>3. MadePassed(run, i - 1, list) /\ PassFor(list, end) /\ Grown(run) /\ run.made \in [Dates -> 0 .. 2]
      /\ made \in [Dates -> 0 .. 2]
  BY DEF StepCase, PassInv, RunType, PassFor
<1>4. new.last \in Nat /\ run.last <= new.last
  BY <1>2 DEF Moved, Dates
<1>5. ASSUME NEW x \in Dates, new.made[x] = run.made[x]
      PROVE  /\ new.made[x] = made[x] \/ \E j \in 1 .. i : Date(list[j]) = x /\ Creates(list[j])
             /\ new.made[x] > 0 => x <= new.last \/ x \in new.failed
             /\ new.made[x] <= 1 \/ x \in exposed \cup new.failed
  <2>1. new.made[x] = made[x] \/ \E j \in 1 .. i : Date(list[j]) = x /\ Creates(list[j])
    BY <1>1, <1>3, <1>5 DEF MadePassed
  <2>2. run.failed \subseteq new.failed
    BY <1>2 DEF Moved
  <2>3. new.made[x] > 0 => x <= new.last \/ x \in new.failed
    <3>1. new.made[x] > 0 => x <= run.last \/ x \in run.failed
      BY <1>3, <1>5 DEF MadePassed
    <3>2. x <= run.last => x <= new.last
      BY <1>1, <1>4
    <3> QED BY <2>2, <3>1, <3>2
  <2>4. new.made[x] <= 1 \/ x \in exposed \cup new.failed
    BY <1>3, <1>5, <2>2 DEF MadePassed
  <2> QED BY <2>1, <2>3, <2>4
<1>6. ASSUME Creates(inst)
      PROVE  /\ \E j \in 1 .. i : Date(list[j]) = d /\ Creates(list[j])
             /\ d <= new.last \/ d \in new.failed
             /\ new.made[d] <= 1 \/ d \in exposed \cup new.failed
  <2>1. \E j \in 1 .. i : Date(list[j]) = d /\ Creates(list[j])
    BY <1>1, <1>6
  <2>2. CASE result # "ok"
    <3>1. d \in new.failed
      BY <1>1, <1>6, <2>2 DEF IsEffect
    <3> QED BY <2>1, <3>1
  <2>3. CASE result = "ok"
    <3>1. d <= new.last
      BY <1>2, <1>6, <2>3 DEF Moved, Counts
    <3>2. run.made[d] \in Nat /\ new.made[d] <= run.made[d] + 1 /\ made[d] \in 0 .. 2
          /\ new.made[d] \in 0 .. 2
      BY <1>1, <1>2, <1>3 DEF Moved
    <3>3. CASE run.made[d] = 0
      BY <2>1, <3>1, <3>2, <3>3
    <3>4. CASE run.made[d] # 0
      <4>1. CASE run.made[d] = made[d]
        <5>1. made[d] > 0 /\ inst.state # "CREATED"
          BY <1>6, <3>2, <3>4, <4>1 DEF Creates
        <5>2. d \in exposed \cup failed
          BY <1>1, <1>3, <5>1, MadeKnown
        <5>3. failed \subseteq new.failed
          BY <1>2, <1>3 DEF Grown, Moved
        <5> QED BY <2>1, <3>1, <5>2, <5>3
      <4>2. CASE \E j \in 1 .. i - 1 : Date(list[j]) = d /\ Creates(list[j])
        <5>1. PICK j \in 1 .. i - 1 : Date(list[j]) = d
          BY <4>2
        <5>2. j \in 1 .. Len(list) /\ j # i
          BY <1>1
        <5>3. d \in exposed
          BY <1>1, <1>3, <5>1, <5>2, ListedTwice
        <5> QED BY <2>1, <3>1, <5>3
      <4> QED BY <1>1, <1>3, <4>1, <4>2 DEF MadePassed
    <3> QED BY <3>3, <3>4
  <2> QED BY <2>2, <2>3
<1>7. \A x \in Dates : new.made[x] = run.made[x] \/ (x = d /\ Creates(inst))
  BY <1>2 DEF Moved
<1> HIDE DEF d
<1>8. \A x \in Dates : new.made[x] = made[x] \/ \E j \in 1 .. i : Date(list[j]) = x /\ Creates(list[j])
  BY <1>5, <1>6, <1>7
<1>9. \A x \in Dates : new.made[x] > 0 => x <= new.last \/ x \in new.failed
  BY <1>5, <1>6, <1>7
<1>10. \A x \in Dates : new.made[x] <= 1 \/ x \in exposed \cup new.failed
  BY <1>5, <1>6, <1>7
<1> QED BY <1>8, <1>9, <1>10 DEF MadePassed

\* What becomes of the date of the instance.
LEMMA StepHandles ==
    ASSUME NEW new, NEW run, NEW i, NEW list, NEW end, NEW result,
           StepCase(new, run, i, list, end, result)
    PROVE  /\ Unpostpone(list[i]) => HandledBy(Date(list[i]), new)
           /\ list[i].state # "REMINDER" /\ Date(list[i]) > sx.last => HandledBy(Date(list[i]), new)
<1> DEFINE inst == list[i]
           d == Date(inst)
<1>1. /\ IsEffect(new, run, i, inst, result) /\ d \in Dates /\ i \in 1 .. Len(list)
      /\ inst.state \in States /\ inst.tsd \in Temporal /\ d = inst.tsd.last + 1
      /\ sx.last \in Nat /\ inst.tsd.last \in Nat
  BY StepFacts
<1>2. Moved(new, run, inst, result)
  BY StepMoves
<1>3. PassFor(list, end) /\ Grown(run) /\ run \in RunType /\ DeferredPassed(run, i - 1, list)
  BY DEF StepCase, PassInv
<1>4. CASE inst.state = "IGNORED"
  <2>1. d \in new.ignored
    BY <1>1, <1>4 DEF IsEffect
  <2> QED BY <2>1 DEF HandledBy, Handled
<1>5. CASE inst.state = "TO_CREATE"
  <2>1. CASE result = "ok"
    <3>1. new.made[d] > 0
      BY <1>2, <1>5, <2>1 DEF Moved, Creates
    <3> QED BY <3>1 DEF HandledBy, Handled
  <2>2. CASE result # "ok"
    <3>1. d \in new.failed
      BY <1>1, <1>5, <2>2 DEF IsEffect, Creates
    <3> QED BY <3>1 DEF HandledBy, Handled
  <2> QED BY <2>1, <2>2
<1>6. CASE inst.state = "CREATED"
  <2>1. made[d] > 0
    BY <1>1, <1>3, <1>6 DEF PassFor, ListOk, ListFit, CreatedMade
  <2>2. made[d] <= run.made[d] /\ run.made[d] <= new.made[d]
    BY <1>1, <1>2, <1>3 DEF Grown, Moved
  <2>3. made[d] \in 0 .. 2 /\ run.made[d] \in 0 .. 2 /\ new.made[d] \in 0 .. 2
    BY <1>1, <1>2, <1>3 DEF PassFor, RunType, Moved
  <2>4. new.made[d] > 0
    BY <2>1, <2>2, <2>3
  <2> QED BY <2>4 DEF HandledBy, Handled
<1>7. CASE inst.state = "REMINDER"
  <2> SUFFICES ASSUME Unpostpone(inst) PROVE HandledBy(d, new)
    BY <1>7
  <2>1. d \in new.withdrawn
    BY <1>1, <1>7 DEF IsEffect
  <2> QED BY <2>1 DEF HandledBy, Handled
<1>8. CASE inst.state = "POSTPONED"
  <2>1. ~Unpostpone(inst)
    BY <1>8 DEF Unpostpone
  <2> SUFFICES ASSUME d > sx.last PROVE HandledBy(d, new)
    BY <2>1
  <2>2. inst.orig # "POSTPONED"
    <3> SUFFICES ASSUME inst.orig = "POSTPONED" PROVE FALSE
      OBVIOUS
    <3>1. d <= sx.last
      BY <1>1, <1>3 DEF PassFor, ListOk, ListFit, OrigWorked
    <3> QED BY <1>1, <3>1 DEF Dates
  <2>3. new.deferred = Postpone(run.deferred, inst.tsd)
    BY <1>1, <1>8, <2>1, <2>2 DEF IsEffect, Defers
  <2>4. new.last \in Nat /\ run.last \in Nat /\ run.last <= new.last /\ d <= new.last
    BY <1>2, <1>3, <1>8 DEF Moved, RunType, Dates, Counts
  <2>5. DeferralsOk(run.deferred, new.last)
    BY <1>3, <2>4, OkLater DEF DeferredPassed
  <2>6. inst.tsd.last < new.last
    BY <1>1, <2>4
  <2>7. d \in DatesOf(Postpone(run.deferred, inst.tsd))
    BY <1>1, <2>4, <2>5, <2>6, PostponeOk
  <2> QED BY <2>3, <2>7 DEF HandledBy, Handled
<1> QED BY <1>1, <1>4, <1>5, <1>6, <1>7, <1>8 DEF States

\* What was taken care of stays so.
LEMMA StepKeepsHandled ==
    ASSUME NEW new, NEW run, NEW i, NEW list, NEW end, NEW result,
           StepCase(new, run, i, list, end, result), NEW x \in Dates, HandledBy(x, run)
    PROVE  HandledBy(x, new)
<1> DEFINE inst == list[i]
           d == Date(inst)
<1>1. /\ IsEffect(new, run, i, inst, result) /\ d \in Dates /\ inst.tsd \in Temporal
      /\ d = inst.tsd.last + 1 /\ run.last \in Nat
  BY StepFacts
<1>2. Moved(new, run, inst, result)
  BY StepMoves
<1>3. run \in RunType /\ DeferredPassed(run, i - 1, list)
  BY DEF StepCase, PassInv
<1>4. CASE run.made[x] > 0
  <2>1. run.made[x] \in 0 .. 2 /\ new.made[x] \in 0 .. 2 /\ run.made[x] <= new.made[x]
    BY <1>2, <1>3 DEF Moved, RunType
  <2>2. new.made[x] > 0
    BY <1>4, <2>1
  <2> QED BY <2>2 DEF HandledBy, Handled
<1>5. CASE x \in run.ignored \cup run.failed \cup run.withdrawn
  <2>1. x \in new.ignored \cup new.failed \cup new.withdrawn
    BY <1>2, <1>5 DEF Moved
  <2> QED BY <2>1 DEF HandledBy, Handled
<1>6. CASE x \in DatesOf(run.deferred)
  <2>1. DeferralsOk(run.deferred, run.last)
    BY <1>3 DEF DeferredPassed
  <2>2. CASE Unpostpone(inst)
    <3>1. x \in DatesOf(Resolve(run.deferred, inst.tsd)) \cup {d}
      BY <1>1, <1>6, <2>1, ResolveOk
    <3>2. new.deferred = Resolve(run.deferred, inst.tsd)
      BY <1>1, <2>2 DEF IsEffect
    <3>3. CASE x = d
      BY <2>2, <3>3, StepHandles
    <3>4. CASE x \in DatesOf(new.deferred)
      BY <3>4 DEF HandledBy, Handled
    <3> QED BY <3>1, <3>2, <3>3, <3>4
  <2>3. CASE ~Unpostpone(inst) /\ Defers(inst)
    <3>1. new.deferred = Postpone(run.deferred, inst.tsd)
      BY <1>1, <2>3 DEF IsEffect
    <3>2. x \in DatesOf(Postpone(run.deferred, inst.tsd))
      <4>1. new.last \in Nat /\ run.last <= new.last /\ d <= new.last
        BY <1>2, <2>3 DEF Moved, Dates, Counts, Defers
      <4>2. inst.tsd.last < new.last
        BY <1>1, <4>1 DEF Temporal
      <4>3. DeferralsOk(run.deferred, new.last)
        BY <1>1, <2>1, <4>1, OkLater
      <4> QED BY <1>1, <1>6, <4>1, <4>2, <4>3, PostponeOk
    <3> QED BY <3>1, <3>2 DEF HandledBy, Handled
  <2>4. CASE ~Unpostpone(inst) /\ ~Defers(inst)
    <3>1. new.deferred = run.deferred
      BY <1>1, <2>4 DEF IsEffect
    <3> QED BY <1>6, <3>1 DEF HandledBy, Handled
  <2> QED BY <2>2, <2>3, <2>4
<1> QED BY <1>4, <1>5, <1>6 DEF HandledBy, Handled

\* An occurrence between the one that the schedule was worked off to and one that
\* is counted is listed before that, and not as a reminder.
LEMMA ListedBetween ==
    ASSUME Total = 0, NEW list, NEW end, PassFor(list, end), NEW i \in 1 .. Len(list),
           list[i].state # "REMINDER", NEW x \in Nat, sx.last < x, x < Date(list[i])
    PROVE  \E j \in 1 .. i - 1 : Date(list[j]) = x /\ list[j].state # "REMINDER"
<1>1. /\ Shaped(list, end, sx) /\ RemindersFollow(list, sx) /\ list \in Lists /\ sx.last \in Nat
      /\ Date(list[i]) \in Nat
  BY StartIs DEF PassFor, SxOk, ListOk, ListFit, Dates
<1>2. Len(list) \in Nat
  BY <1>1 DEF Lists
<1>3. PICK n \in 0 .. Len(list), b \in 0 .. sx.last :
        /\ \A p \in 1 .. n : Date(list[p]) <= sx.last
        /\ \A p \in n + 1 .. Len(list) : Date(list[p]) = b + (p - n)
  BY <1>1 DEF Shaped
<1>4. i \in n + 1 .. Len(list)
  <2>1. i \notin 1 .. n
    BY <1>1, <1>3
  <2> QED BY <1>2, <2>1
<1>5. Date(list[i]) = b + (i - n)
  BY <1>3, <1>4
<1>6. PICK j \in Int : j = n + (x - b)
  BY <1>1
<1>7. j \in n + 1 .. Len(list) /\ j \in 1 .. i - 1 /\ b + (j - n) = x /\ j \in 1 .. Len(list) /\ j < i
  BY <1>1, <1>2, <1>4, <1>5, <1>6
<1>8. Date(list[j]) = x
  BY <1>3, <1>7
<1>9. list[j].state # "REMINDER"
  BY <1>1, <1>7, <1>8 DEF RemindersFollow
<1> QED BY <1>7, <1>8, <1>9

LEMMA StepLost ==
    ASSUME NEW new, NEW run, NEW i, NEW list, NEW end, NEW result,
           StepCase(new, run, i, list, end, result)
    PROVE  NoneLost(new, i, list)
<1> SUFFICES ASSUME Total = 0, ~Database
             PROVE  /\ \A d \in 1 .. new.last : HandledBy(d, new)
                    /\ \A j \in 1 .. i : Date(list[j]) > sx.last /\ list[j].state # "REMINDER"
                                           => HandledBy(Date(list[j]), new)
  BY DEF NoneLost
<1> DEFINE inst == list[i]
           d == Date(inst)
<1>1. /\ d \in Dates /\ d \in Nat /\ i \in 1 .. Len(list) /\ run.last \in Nat /\ sx.last \in Nat
      /\ (\A j \in 1 .. i : j = i \/ j \in 1 .. i - 1) /\ Len(list) \in Nat /\ i \in Nat
      /\ \A j \in 1 .. Len(list) : Date(list[j]) \in Dates
  BY StepFacts DEF StepCase, PassFor, ListOk, ListFit
<1>2. Moved(new, run, inst, result)
  BY StepMoves
<1>3. NoneLost(run, i - 1, list) /\ PassFor(list, end) /\ LastPassed(run, i - 1, list)
  BY DEF StepCase, PassInv
<1>4. \A x \in 1 .. run.last : HandledBy(x, run)
  BY <1>3 DEF NoneLost
<1>5. \A j \in 1 .. i - 1 : Date(list[j]) > sx.last /\ list[j].state # "REMINDER"
                              => HandledBy(Date(list[j]), run)
  BY <1>3 DEF NoneLost
<1>6. new.last \in Nat /\ new.last \in Dates \cup {0} /\ sx.last <= run.last
  BY <1>2, <1>3 DEF Moved, LastPassed, Dates
<1>7. \A x \in 1 .. new.last : x \in Dates
  BY <1>6, SxAssumption DEF Dates
<1>8. ASSUME NEW j \in 1 .. i, Date(list[j]) > sx.last, list[j].state # "REMINDER"
      PROVE  HandledBy(Date(list[j]), new)
  <2>1. CASE j = i
    BY <1>8, <2>1, StepHandles
  <2>2. CASE j \in 1 .. i - 1
    <3>1. HandledBy(Date(list[j]), run) /\ Date(list[j]) \in Dates
      BY <1>1, <1>5, <1>8, <2>2
    <3> QED BY <3>1, StepKeepsHandled
  <2> QED BY <1>1, <2>1, <2>2
<1>9. ASSUME NEW x \in 1 .. new.last PROVE HandledBy(x, new)
  <2>1. CASE x <= run.last
    <3>1. x \in 1 .. run.last /\ x \in Dates
      BY <1>1, <1>6, <1>7, <2>1
    <3>2. HandledBy(x, run)
      BY <1>4, <3>1
    <3> QED BY <3>1, <3>2, StepKeepsHandled
  <2>2. CASE run.last < x
    <3>1. new.last = d /\ Counts(inst, result)
      BY <1>1, <1>2, <1>6, <2>2 DEF Moved
    <3>2. inst.state # "REMINDER" /\ d > sx.last /\ x > sx.last
      BY <1>1, <1>6, <2>2, <3>1 DEF Counts, Creates
    <3>3. CASE x = d
      BY <1>1, <1>8, <3>2, <3>3
    <3>4. CASE x < d
      <4>1. PICK j \in 1 .. i - 1 : Date(list[j]) = x /\ list[j].state # "REMINDER"
        BY <1>1, <1>3, <3>2, <3>4, ListedBetween
      <4>2. j \in 1 .. i
        BY <1>1
      <4> QED BY <1>8, <3>2, <4>1, <4>2
    <3> QED BY <1>1, <1>6, <3>1, <3>3, <3>4
  <2> QED BY <1>1, <1>6, <2>1, <2>2
<1> QED BY <1>8, <1>9

LEMMA StepInv ==
    ASSUME NEW new, NEW run, NEW i, NEW list, NEW end, NEW result,
           StepCase(new, run, i, list, end, result)
    PROVE  PassInv(new, i, list, end)
<1>1. Moved(new, run, list[i], result)
  BY StepMoves
<1>2. ListPassed(new, i, list, end) /\ DeferredPassed(new, i, list)
  BY StepList, StepDeferred
<1>3. new \in RunType
  <2>1. new.list \in Lists
    BY <1>2 DEF ListPassed, Alike
  <2>2. new.deferred \in Deferrals
    BY <1>2 DEF DeferredPassed, DeferralsOk
  <2>3. IsRecord(new)
    BY DEF StepCase
  <2> QED BY <1>1, <2>1, <2>2, <2>3 DEF Moved, IsRecord, RunType
<1>4. Grown(new)
  <2>1. Grown(run) /\ run.made \in [Dates -> 0 .. 2] /\ made \in [Dates -> 0 .. 2]
    BY DEF StepCase, PassInv, RunType, PassFor
  <2>2. \A d \in Dates : made[d] <= new.made[d]
    <3> SUFFICES ASSUME NEW d \in Dates PROVE made[d] <= new.made[d]
      OBVIOUS
    <3>1. made[d] \in 0 .. 2 /\ run.made[d] \in 0 .. 2 /\ new.made[d] \in 0 .. 2
      BY <1>3, <2>1 DEF RunType
    <3>2. made[d] <= run.made[d] /\ run.made[d] <= new.made[d]
      BY <1>1, <2>1 DEF Grown, Moved
    <3> QED BY <3>1, <3>2
  <2>3. /\ ignored \subseteq new.ignored /\ failed \subseteq new.failed
        /\ withdrawn \subseteq new.withdrawn
    BY <1>1, <2>1 DEF Grown, Moved
  <2> QED BY <2>2, <2>3 DEF Grown
<1> QED BY <1>2, <1>3, <1>4, StepLast, StepMade, StepLost DEF PassInv

LEMMA PassStarts ==
    ASSUME NEW list, NEW end, PassFor(list, end)
    PROVE  PassInv(Before(list), 0, list, end)
<1> DEFINE run == Before(list)
<1>1. /\ run.list = list /\ run.deferred = sx.deferred /\ run.last = sx.last /\ run.count = sx.count
      /\ run.remain = sx.remain /\ run.failures = failures /\ run.made = made
      /\ run.ignored = ignored /\ run.failed = failed /\ run.withdrawn = withdrawn
      /\ IsRecord(run)
  BY DEF Before, IsRecord
<1> HIDE DEF run
<1>2. /\ SxOk(sx, exposed) /\ ScheduleOk(sx) /\ sx \in SxType /\ DeferralsOk(sx.deferred, sx.last)
      /\ PostponedOnce(sx.deferred, exposed)
  BY DEF PassFor, SxOk, ScheduleOk
<1>3. /\ sx.last \in Dates \cup {0} /\ sx.count \in Nat /\ sx.remain \in 0 .. Total
      /\ sx.deferred \in Deferrals
  BY <1>2 DEF SxType, Deferrals
<1>4. ListFit(list, end, sx, exposed, made) /\ list \in Lists
  BY DEF PassFor, ListOk, ListFit
<1>5. run \in RunType
  BY <1>1, <1>3, <1>4 DEF RunType, IsRecord, PassFor
<1>6. ListPassed(run, 0, list, end)
  BY <1>1, <1>4 DEF ListPassed, Alike
<1>7. Grown(run)
  BY <1>1 DEF Grown, PassFor
<1>8. LastPassed(run, 0, list)
  BY <1>1, <1>3, SxAssumption DEF LastPassed, Dates
<1>9. DeferredPassed(run, 0, list)
  BY <1>1, <1>2 DEF DeferredPassed
<1>10. MadePassed(run, 0, list)
  BY <1>1 DEF MadePassed, PassFor, HistoryOk
<1>11. NoneLost(run, 0, list)
  BY <1>1 DEF NoneLost, PassFor, HandledBy
<1> QED BY <1>5, <1>6, <1>7, <1>8, <1>9, <1>10, <1>11 DEF PassInv, run

LEMMA PassOk ==
    ASSUME NEW list, NEW end, PassFor(list, end), NEW run \in Passes(list)
    PROVE  PassInv(run, Len(list), list, end)
<1>1. PICK outcome : run = Pass(list, outcome)
  BY DEF Passes
<1>2. list \in Lists /\ Len(list) \in Nat
  BY DEF PassFor, ListOk, ListFit, Lists
<1>3. PICK r : /\ r[0] = Before(list)
               /\ \A i \in 1 .. Len(list) : r[i] = Effected(r[i - 1], i, outcome)
               /\ Pass(list, outcome) = r[Len(list)]
  BY <1>2, PassSteps
<1> DEFINE S == {i \in 0 .. Len(list) : PassInv(r[i], i, list, end)}
<1>4. 0 \in S
  BY <1>2, <1>3, PassStarts
<1>5. ASSUME NEW i \in 1 .. Len(list), i - 1 \in S PROVE i \in S
  <2>1. PassInv(r[i - 1], i - 1, list, end) /\ i \in 0 .. Len(list)
    BY <1>2, <1>5
  <2>2. r[i - 1] \in RunType /\ i \in 1 .. Len(r[i - 1].list)
    BY <2>1 DEF PassInv, ListPassed, Alike
  <2>3. /\ IsEffect(Effected(r[i - 1], i, outcome), r[i - 1], i, r[i - 1].list[i], outcome[i])
        /\ IsRecord(Effected(r[i - 1], i, outcome))
    BY <2>2, EffectedIs
  <2>4. r[i] = Effected(r[i - 1], i, outcome)
    BY <1>3
  <2>5. StepCase(r[i], r[i - 1], i, list, end, outcome[i])
    BY <2>1, <2>3, <2>4 DEF StepCase
  <2>6. PassInv(r[i], i, list, end)
    BY <2>5, StepInv
  <2> QED BY <2>1, <2>6
<1> HIDE DEF S
<1>6. \A i \in 0 .. Len(list) : i \in S
  BY <1>2, <1>4, <1>5, UpTo
<1>7. Len(list) \in S
  BY <1>2, <1>6
<1> QED BY <1>1, <1>3, <1>7 DEF S

-----------------------------------------------------------------------------
(* The inductive invariant.                                                *)

TwoOpen ==
    \A m, n \in Dialogs :
        m # n /\ model[m].open /\ model[n].open => DatesOf(sx.deferred) \subseteq exposed

NothingLost ==
    Total = 0 /\ ~Database =>
        \A d \in 1 .. sx.last : Handled(d, sx.deferred, made, ignored, failed, withdrawn)

VarTypes ==
    /\ today \in 1 .. MaxDate /\ failures \in 0 .. MaxFailures /\ changes \in 0 .. MaxChanges
    /\ model \in [Dialogs -> ModelType] /\ made \in [Dates -> 0 .. 2]
    /\ ignored \in SUBSET Dates /\ failed \in SUBSET Dates /\ withdrawn \in SUBSET Dates

Inv ==
    /\ VarTypes /\ SxOk(sx, exposed) /\ HistoryOk(sx, exposed, failed, made)
    /\ \A m \in Dialogs : DialogOk(model[m], sx, exposed, failed, made)
    /\ TwoOpen /\ NothingLost

\* A list that nobody is told of the change for.
LEMMA ListCarried ==
    ASSUME NEW list, NEW end, NEW s, NEW E, NEW F, NEW M, ListOk(list, end, s, E, F, M),
           NEW t, NEW X, NEW G, NEW N,
           t.last = s.last, t.remain = s.remain, E \subseteq X, F \subseteq G,
           \A d \in Dates : M[d] > 0 => N[d] > 0,
           DatesOf(t.deferred) \subseteq X,
           DatesOf(s.deferred) \subseteq X \cup G \cup DatesOf(t.deferred)
    PROVE  ListOk(list, end, t, X, G, N)
<1>1. ListFit(list, end, s, E, N) /\ WorkedKnown(list, s, E, F)
  BY FitGrows DEF ListOk
<1>2. Shaped(list, end, t) /\ OrigWorked(list, t) /\ RemindersFollow(list, t)
  BY <1>1 DEF ListFit, Shaped, OrigWorked, RemindersFollow
<1>3. ListedOnce(list, X) /\ OrigKnown(list, t, X) /\ LastUnless(list, X)
  BY <1>1 DEF ListFit, ListedOnce, OrigKnown, LastUnless
<1>4. StartKnown(list, end, t)
  <2>1. FreshLen(t, end) = FreshLen(s, end)
    BY DEF FreshLen
  <2> QED BY <1>1, <2>1 DEF ListFit, StartKnown, Fresh
<1>5. AsGenerated(list, end, t, X)
  BY DEF AsGenerated
<1>6. WorkedKnown(list, t, X, G)
  BY <1>1 DEF WorkedKnown
<1> QED BY <1>1, <1>2, <1>3, <1>4, <1>5, <1>6 DEF ListOk, ListFit

\* The schedule and the history after a pass.
After0(run) == [sx EXCEPT !.deferred = run.deferred]
After1(run) == [After0(run) EXCEPT !.last = run.last]
After2(run) == [After1(run) EXCEPT !.count = run.count]
After3(run) == [After2(run) EXCEPT !.remain = run.remain]

LEMMA AfterIs ==
    ASSUME NEW run, sx \in SxType
    PROVE  /\ After0(run).deferred = run.deferred /\ After0(run).last = sx.last
           /\ After0(run).count = sx.count /\ After0(run).remain = sx.remain
           /\ After1(run).deferred = run.deferred /\ After1(run).last = run.last
           /\ After1(run).count = sx.count /\ After1(run).remain = sx.remain
           /\ After2(run).deferred = run.deferred /\ After2(run).last = run.last
           /\ After2(run).count = run.count /\ After2(run).remain = sx.remain
           /\ After3(run).deferred = run.deferred /\ After3(run).last = run.last
           /\ After3(run).count = run.count /\ After3(run).remain = run.remain
           /\ run \in RunType =>
                After1(run) \in SxType /\ After2(run) \in SxType /\ After3(run) \in SxType
BY DEF After0, After1, After2, After3, SxType, RunType, Deferrals

ExposedAfter(m, run) ==
    exposed \cup (Start(After3(run)).last + 1 .. run.last) \cup
        {t.last + 1 : t \in {u \in Range(run.deferred) :
             \E other \in Dialogs \ {m} : model[other].open}}

LEMMA AfterOk ==
    ASSUME Inv, NEW list, NEW end, PassFor(list, end), NEW m \in Dialogs, NEW run,
           PassInv(run, Len(list), list, end)
    PROVE  LET E == ExposedAfter(m, run) IN
           /\ SxOk(After1(run), E) /\ SxOk(After2(run), E) /\ SxOk(After3(run), E)
           /\ exposed \subseteq E
           /\ (\E other \in Dialogs \ {m} : model[other].open) => DatesOf(run.deferred) \subseteq E
<1> DEFINE E == ExposedAfter(m, run)
<1>1. /\ run \in RunType /\ DeferralsOk(run.deferred, run.last) /\ PostponedOnce(run.deferred, exposed)
      /\ sx.last <= run.last
  BY DEF PassInv, DeferredPassed, LastPassed
<1>2. sx \in SxType /\ sx.last \in Nat /\ exposed \subseteq 1 .. sx.last
  BY StartIs DEF Inv, SxOk, ScheduleOk
<1>3. run.deferred \in Deferrals /\ run.last \in Nat
  BY <1>1 DEF RunType, Dates
<1>4. ScheduleOk(After1(run)) /\ ScheduleOk(After2(run)) /\ ScheduleOk(After3(run))
  BY <1>1, <1>2, AfterIs DEF ScheduleOk
<1>5. /\ Start(After1(run)).last = Start(After3(run)).last
      /\ Start(After2(run)).last = Start(After3(run)).last
      /\ Start(After3(run)).last \in Nat
  <2>1. CASE run.deferred = <<>>
    BY <1>2, <1>3, <1>4, <2>1, AfterIs, StartIs
  <2>2. CASE run.deferred # <<>>
    BY <1>2, <1>4, <2>2, AfterIs, StartIs
  <2> QED BY <2>1, <2>2
<1>6. DatesOf(run.deferred) \subseteq 1 .. run.last
  <2> SUFFICES ASSUME NEW i \in 1 .. Len(run.deferred)
               PROVE  run.deferred[i].last + 1 \in 1 .. run.last
    BY DEF DatesOf
  <2>1. run.deferred[i].last \in Nat /\ run.deferred[i].last < run.last
    BY <1>1, <1>3, Entries DEF DeferralsOk
  <2> QED BY <1>3, <2>1
<1>7. {t.last + 1 : t \in Range(run.deferred)} = DatesOf(run.deferred)
  <2>1. DOMAIN run.deferred = 1 .. Len(run.deferred)
    BY <1>3 DEF Deferrals
  <2> QED BY <2>1 DEF DatesOf, Range
<1>8. {t.last + 1 : t \in {u \in Range(run.deferred) :
             \E other \in Dialogs \ {m} : model[other].open}} \subseteq DatesOf(run.deferred)
  BY <1>7
<1>9. exposed \subseteq E
  BY DEF ExposedAfter
<1>10. Start(After3(run)).last + 1 .. run.last \subseteq E
  BY DEF ExposedAfter
<1>11. E \subseteq 1 .. run.last
  <2>1. exposed \subseteq 1 .. run.last
    BY <1>1, <1>2, <1>3
  <2>2. Start(After3(run)).last + 1 .. run.last \subseteq 1 .. run.last
    BY <1>3, <1>5
  <2> QED BY <1>6, <1>8, <2>1, <2>2 DEF ExposedAfter
<1>12. (\E other \in Dialogs \ {m} : model[other].open) => DatesOf(run.deferred) \subseteq E
  BY <1>7 DEF ExposedAfter
<1> HIDE DEF E
<1>13. PostponedOnce(run.deferred, E)
  BY <1>1, <1>9 DEF PostponedOnce
<1>14. SxOk(After1(run), E) /\ SxOk(After2(run), E) /\ SxOk(After3(run), E)
  BY <1>2, <1>4, <1>5, <1>10, <1>11, <1>13, AfterIs DEF SxOk
<1> QED BY <1>9, <1>12, <1>14 DEF E

LEMMA PassHistory ==
    ASSUME NEW list, NEW end, PassFor(list, end), NEW m \in Dialogs, NEW run,
           PassInv(run, Len(list), list, end)
    PROVE  HistoryOk(After3(run), ExposedAfter(m, run), run.failed, run.made)
<1>1. sx \in SxType /\ HistoryOk(sx, exposed, failed, made)
  BY DEF PassFor, SxOk, ScheduleOk
<1>2. After3(run).last = run.last /\ After3(run).deferred = run.deferred
  BY <1>1, AfterIs
<1>3. exposed \subseteq ExposedAfter(m, run)
  BY DEF ExposedAfter
<1>4. MadePassed(run, Len(list), list) /\ DeferredPassed(run, Len(list), list) /\ failed \subseteq run.failed
  BY DEF PassInv, Grown
<1>5. ASSUME NEW d \in DatesOf(run.deferred), run.made[d] > 0, d \notin exposed \cup run.failed
      PROVE  FALSE
  <2>1. d \in Dates
    BY <1>4 DEF DatesOf, DeferredPassed, DeferralsOk
  <2>2. \/ d \in DatesOf(sx.deferred)
        \/ \E j \in 1 .. Len(list) : Date(list[j]) = d /\ Defers(list[j])
    BY <1>4 DEF DeferredPassed
  <2>3. CASE made[d] > 0
    <3>1. d \notin DatesOf(sx.deferred)
      BY <1>1, <1>4, <1>5, <2>3 DEF HistoryOk
    <3>2. PICK j \in 1 .. Len(list) : Date(list[j]) = d /\ Defers(list[j])
      BY <2>2, <3>1
    <3> QED BY <1>4, <1>5, <2>3, <3>2, MadeKnown DEF Defers
  <2>4. CASE ~(made[d] > 0)
    <3>1. PICK i \in 1 .. Len(list) : Date(list[i]) = d /\ Creates(list[i])
      BY <1>4, <1>5, <2>1, <2>4 DEF MadePassed
    <3>2. CASE d \in DatesOf(sx.deferred)
      <4>1. list[i].orig = "POSTPONED"
        BY <1>5, <3>1, <3>2, ListedPostponed
      <4>2. Unpostpone(list[i])
        BY <3>1, <4>1 DEF Unpostpone, Creates
      <4> QED BY <1>4, <1>5, <3>1, <4>2 DEF DeferredPassed
    <3>3. CASE d \notin DatesOf(sx.deferred)
      <4>1. PICK j \in 1 .. Len(list) : Date(list[j]) = d /\ Defers(list[j])
        BY <2>2, <3>3
      <4>2. i # j
        BY <3>1, <4>1 DEF Creates, Defers
      <4> QED BY <1>5, <3>1, <4>1, <4>2, ListedTwice
    <3> QED BY <3>2, <3>3
  <2> QED BY <2>3, <2>4
<1> DEFINE E == ExposedAfter(m, run)
<1> HIDE DEF E
<1>6. exposed \subseteq E
  BY <1>3 DEF E
<1>7. HistoryOk(After3(run), E, run.failed, run.made)
  <2>1. \A d \in DatesOf(run.deferred) : run.made[d] > 0 => d \in E \cup run.failed
    BY <1>5, <1>6
  <2>2. /\ \A d \in Dates : run.made[d] > 0 => d <= run.last \/ d \in run.failed
        /\ \A d \in Dates : run.made[d] <= 1 \/ d \in E \cup run.failed
    BY <1>4, <1>6 DEF MadePassed
  <2> QED BY <1>2, <2>1, <2>2 DEF HistoryOk
<1> QED BY <1>7 DEF E

\* The dialog of another schedule's list is told of the pass.
LEMMA OthersOk ==
    ASSUME Inv, NEW list, NEW end, PassFor(list, end), NEW m \in Dialogs, NEW run,
           PassInv(run, Len(list), list, end),
           model[m].open \/ run.deferred = sx.deferred, NEW d \in Dialogs \ {m}
    PROVE  LET told == Tell(Tell(Tell(model[d], After0(run), After1(run)),
                                 After1(run), After2(run)), After2(run), After3(run))
           IN  /\ DialogOk(told, After3(run), ExposedAfter(m, run), run.failed, run.made)
               /\ told.open = model[d].open
<1> DEFINE E == ExposedAfter(m, run)
           F == run.failed
           M == run.made
           s0 == After0(run)
           s1 == After1(run)
           s2 == After2(run)
           s3 == After3(run)
           t1 == Tell(model[d], s0, s1)
           t2 == Tell(t1, s1, s2)
           t3 == Tell(t2, s2, s3)
<1>1. /\ SxOk(s1, E) /\ SxOk(s2, E) /\ SxOk(s3, E) /\ exposed \subseteq E
      /\ model[d].open => DatesOf(run.deferred) \subseteq E
  BY AfterOk
<1>2. /\ sx \in SxType /\ sx.last \in Nat /\ sx.remain \in Nat
      /\ DialogOk(model[d], sx, exposed, failed, made) /\ made \in [Dates -> 0 .. 2]
  BY StartIs DEF Inv, SxOk, ScheduleOk, VarTypes
<1>3. /\ run \in RunType /\ run.last \in Nat /\ run.remain \in Nat /\ sx.last <= run.last
      /\ run.remain <= sx.remain /\ failed \subseteq F
      /\ \A x \in Dates : made[x] <= M[x]
  BY SxAssumption DEF PassInv, RunType, LastPassed, Grown, Dates
<1>4. /\ s0.deferred = run.deferred /\ s0.last = sx.last /\ s0.count = sx.count /\ s0.remain = sx.remain
      /\ s1.deferred = run.deferred /\ s1.last = run.last /\ s1.count = sx.count /\ s1.remain = sx.remain
      /\ s2.deferred = run.deferred /\ s2.last = run.last /\ s2.count = run.count /\ s2.remain = sx.remain
      /\ s3.deferred = run.deferred /\ s3.last = run.last /\ s3.count = run.count /\ s3.remain = run.remain
  BY <1>2, AfterIs
<1>5. \A x \in Dates : made[x] > 0 => M[x] > 0
  <2> SUFFICES ASSUME NEW x \in Dates, made[x] > 0 PROVE M[x] > 0
    OBVIOUS
  <2>1. made[x] \in 0 .. 2 /\ M[x] \in 0 .. 2 /\ made[x] <= M[x]
    BY <1>2, <1>3 DEF RunType
  <2> QED BY <2>1
<1> HIDE DEF E, F, M, s0, s1, s2, s3
<1>6. CASE ~model[d].open
  <2>1. Told(model[d], s1) = model[d] /\ Told(model[d], s2) = model[d] /\ Told(model[d], s3) = model[d]
    BY <1>6 DEF Told
  <2>2. t1 = model[d]
    BY <2>1 DEF Tell
  <2>3. t2 = model[d]
    BY <2>1, <2>2 DEF Tell
  <2>4. t3 = model[d]
    BY <2>1, <2>3 DEF Tell
  <2>5. ListOk(<<>>, model[d].end, s3, E, F, M)
    BY <1>3, <1>4, EmptyListOk
  <2>6. DialogOk(model[d], s3, E, F, M)
    BY <1>2, <1>6, <2>5 DEF DialogOk
  <2> HIDE DEF t3
  <2> QED BY <2>4, <2>6 DEF t3, t2, t1, s0, s1, s2, s3, E, F, M
<1>7. CASE model[d].open
  <2>1. DatesOf(run.deferred) \subseteq E
    BY <1>1, <1>7
  <2>2. DatesOf(sx.deferred) \subseteq E
    <3>1. CASE model[m].open
      BY <1>1, <1>7, <3>1 DEF Inv, TwoOpen
    <3>2. CASE run.deferred = sx.deferred
      BY <2>1, <3>2
    <3> QED BY <3>1, <3>2
  <2>3. ListOk(model[d].list, model[d].end, sx, exposed, failed, made)
    BY <1>2 DEF DialogOk
  <2>4. ListOk(model[d].list, model[d].end, s0, E, F, M)
    BY <1>1, <1>3, <1>4, <1>5, <2>1, <2>2, <2>3, ListCarried
  <2>5. DialogOk(model[d], s0, E, F, M)
    BY <1>2, <2>4 DEF DialogOk
  <2>6. Follows(s1, s0, E) /\ Follows(s2, s1, E) /\ Follows(s3, s2, E)
    BY <1>2, <1>3, <1>4, <2>1 DEF Follows
  <2>7. DialogOk(t1, s1, E, F, M) /\ t1.open = model[d].open
    BY <1>1, <2>5, <2>6, TellOk
  <2> HIDE DEF t1
  <2>8. DialogOk(t2, s2, E, F, M) /\ t2.open = model[d].open
    BY <1>1, <2>6, <2>7, TellOk
  <2> HIDE DEF t2
  <2>9. DialogOk(t3, s3, E, F, M) /\ t3.open = model[d].open
    BY <1>1, <2>6, <2>8, TellOk
  <2> HIDE DEF t3
  <2> QED BY <2>9 DEF t3, t2, t1, s0, s1, s2, s3, E, F, M
<1> QED BY <1>2, <1>6, <1>7 DEF DialogOk, ModelType

\* A pass that keeps to the invariant, if what becomes of the dialog itself does.
LEMMA EffectOk ==
    ASSUME Inv, NEW list, NEW end, PassFor(list, end), NEW m \in Dialogs, NEW run,
           PassInv(run, Len(list), list, end),
           model[m].open \/ run.deferred = sx.deferred, NEW after, Effect(m, run, after),
           DialogOk(after, After3(run), ExposedAfter(m, run), run.failed, run.made),
           UNCHANGED <<today, changes>>
    PROVE  Inv'
<1> DEFINE E == ExposedAfter(m, run)
           Told3(d) == Tell(Tell(Tell(model[d], After0(run), After1(run)),
                                 After1(run), After2(run)), After2(run), After3(run))
<1>1. /\ sx' = After3(run) /\ failures' = run.failures /\ run.failures <= MaxFailures
      /\ made' = run.made /\ ignored' = run.ignored /\ failed' = run.failed
      /\ withdrawn' = run.withdrawn /\ exposed' = E
      /\ model' = [d \in Dialogs |-> IF d = m THEN after ELSE Told3(d)]
      /\ today' = today /\ changes' = changes
  BY DEF Effect, After0, After1, After2, After3, ExposedAfter
<1>2. \A d \in Dialogs \ {m} : /\ DialogOk(Told3(d), After3(run), E, run.failed, run.made)
                               /\ Told3(d).open = model[d].open
  BY OthersOk
<1>3. SxOk(After3(run), E) /\ HistoryOk(After3(run), E, run.failed, run.made)
  BY AfterOk, PassHistory
<1>4. (\E other \in Dialogs \ {m} : model[other].open) => DatesOf(run.deferred) \subseteq E
  BY AfterOk
<1>5. run \in RunType /\ After3(run).last = run.last /\ After3(run).deferred = run.deferred
  BY AfterIs DEF PassInv, Inv, SxOk, ScheduleOk
<1>6. NoneLost(run, Len(list), list)
  BY DEF PassInv
<1> HIDE DEF E, Told3
<1>7. \A d \in Dialogs : DialogOk(model'[d], After3(run), E, run.failed, run.made)
  <2> SUFFICES ASSUME NEW d \in Dialogs
               PROVE  DialogOk(model'[d], After3(run), E, run.failed, run.made)
    OBVIOUS
  <2>1. CASE d = m
    <3>1. model'[d] = after
      BY <1>1, <2>1
    <3>2. DialogOk(after, After3(run), E, run.failed, run.made)
      BY DEF E
    <3> QED BY <3>1, <3>2
  <2>2. CASE d # m
    <3>1. model'[d] = Told3(d)
      BY <1>1, <2>2
    <3> QED BY <1>2, <2>2, <3>1
  <2> QED BY <2>1, <2>2
<1>8. (\A d \in Dialogs : DialogOk(model[d], sx, exposed, failed, made))'
  BY <1>1, <1>7
<1>9. VarTypes'
  <2>1. model' \in [Dialogs -> ModelType]
    <3>1. \A d \in Dialogs : model'[d] \in ModelType
      BY <1>7 DEF DialogOk
    <3>2. model' = [d \in Dialogs |-> model'[d]]
      BY <1>1
    <3> QED BY <3>1, <3>2
  <2>2. today \in 1 .. MaxDate /\ changes \in 0 .. MaxChanges
    BY DEF Inv, VarTypes
  <2>3. run.failures \in 0 .. MaxFailures
    BY <1>1, <1>5, SxAssumption DEF RunType
  <2> QED BY <1>1, <1>5, <2>1, <2>2, <2>3 DEF VarTypes, RunType
<1>10. TwoOpen'
  <2> SUFFICES ASSUME NEW d \in Dialogs \ {m}, model'[d].open PROVE DatesOf(run.deferred) \subseteq E
    BY <1>1, <1>5 DEF TwoOpen
  <2>1. model[d].open
    BY <1>1, <1>2
  <2> QED BY <1>4, <2>1
<1>11. NothingLost'
  BY <1>1, <1>5, <1>6 DEF NothingLost, NoneLost, HandledBy
<1> QED BY <1>1, <1>3, <1>8, <1>9, <1>10, <1>11 DEF Inv

\* OK.
LEMMA OkStep ==
    ASSUME Inv, NEW m \in Dialogs, Ok(m)
    PROVE  Inv'
<1>1. PICK run \in Passes(model[m].list) : Effect(m, run, Closed)
  BY DEF Ok
<1>2. PassFor(model[m].list, model[m].end)
  BY SxAssumption DEF Inv, VarTypes, DialogOk, PassFor, NothingLost
<1>3. PassInv(run, Len(model[m].list), model[m].list, model[m].end)
  BY <1>2, PassOk
<1>4. run \in RunType /\ After3(run).last \in Nat
  BY <1>2, <1>3, AfterOk, StartIs DEF PassInv, SxOk
<1>5. DialogOk(Closed, After3(run), ExposedAfter(m, run), run.failed, run.made)
  <2>1. ListOk(<<>>, 0, After3(run), ExposedAfter(m, run), run.failed, run.made)
    BY <1>4, EmptyListOk
  <2> QED BY <2>1, SxAssumption DEF DialogOk, Closed, ModelType, Lists
<1> QED BY <1>1, <1>2, <1>3, <1>5, EffectOk DEF Ok

\* The editor of schedules.
LEMMA SetStep ==
    ASSUME Inv, NEW s, s \in {[sx EXCEPT !.enabled = value] : value \in BOOLEAN}
                            \cup {[sx EXCEPT !.auto = value] : value \in BOOLEAN}, Set(s)
    PROVE  Inv'
<1>1. sx \in SxType /\ SxOk(sx, exposed) /\ ScheduleOk(sx) /\ sx.last \in Nat /\ sx.remain \in Nat
  BY StartIs DEF Inv, SxOk, ScheduleOk
<1>2. /\ s \in SxType /\ s.deferred = sx.deferred /\ s.last = sx.last
      /\ s.remain = sx.remain /\ s.count = sx.count
  BY <1>1 DEF SxType
<1>3. SxOk(s, exposed)
  <2>1. ScheduleOk(s)
    BY <1>1, <1>2 DEF ScheduleOk
  <2>2. Start(s).last = Start(sx).last
    BY <1>2 DEF Start
  <2> QED BY <1>1, <1>2, <2>1, <2>2 DEF SxOk
<1>4. Follows(s, sx, exposed)
  BY <1>1, <1>2 DEF Follows
<1>5. ASSUME NEW d \in Dialogs
      PROVE  /\ DialogOk(Told(model[d], s), s, exposed, failed, made)
             /\ Told(model[d], s).open = model[d].open
  BY <1>3, <1>4, ToldOk DEF Inv
<1>6. /\ sx' = s /\ model' = [m \in Dialogs |-> Told(model[m], s)]
      /\ UNCHANGED <<today, failures, changes, made, ignored, failed, withdrawn, exposed>>
  BY DEF Set, history
<1>7. \A d \in Dialogs : /\ DialogOk(model'[d], s, exposed, failed, made)
                         /\ model'[d].open = model[d].open
  BY <1>5, <1>6
<1>8. VarTypes'
  <2>1. \A d \in Dialogs : model'[d] \in ModelType
    BY <1>7 DEF DialogOk
  <2>2. model' = [d \in Dialogs |-> model'[d]]
    BY <1>6
  <2>3. model' \in [Dialogs -> ModelType]
    BY <2>1, <2>2
  <2> QED BY <1>6, <2>3 DEF Inv, VarTypes
<1>9. TwoOpen' /\ NothingLost' /\ HistoryOk(s, exposed, failed, made)
  BY <1>2, <1>6, <1>7 DEF Inv, TwoOpen, NothingLost, HistoryOk
<1>10. (\A d \in Dialogs : DialogOk(model[d], sx, exposed, failed, made))'
  BY <1>6, <1>7
<1> QED BY <1>3, <1>6, <1>8, <1>9, <1>10 DEF Inv

\* One dialog changes, and nothing else but the user's count of decisions.
LEMMA OneDialog ==
    ASSUME Inv, NEW m \in Dialogs, NEW after, model' = [model EXCEPT ![m] = after],
           DialogOk(after, sx, exposed, failed, made), after.open => model[m].open,
           changes' \in 0 .. MaxChanges, UNCHANGED <<today, sx, failures, history>>
    PROVE  Inv'
<1>1. model \in [Dialogs -> ModelType]
  BY DEF Inv, VarTypes
<1>2. \A d \in Dialogs : model'[d] = IF d = m THEN after ELSE model[d]
  BY <1>1
<1>3. UNCHANGED <<today, sx, failures, made, ignored, failed, withdrawn, exposed>>
  BY DEF history
<1>4. VarTypes'
  <2>1. after \in ModelType
    BY DEF DialogOk
  <2>2. model' \in [Dialogs -> ModelType]
    BY <1>1, <2>1
  <2> QED BY <1>3, <2>2 DEF Inv, VarTypes
<1>5. (\A d \in Dialogs : DialogOk(model[d], sx, exposed, failed, made))'
  BY <1>2, <1>3 DEF Inv
<1>6. TwoOpen'
  BY <1>2, <1>3 DEF Inv, TwoOpen
<1> QED BY <1>3, <1>4, <1>5, <1>6 DEF Inv, NothingLost

LEMMA CancelStep ==
    ASSUME Inv, NEW m \in Dialogs, Cancel(m)
    PROVE  Inv'
<1>1. sx.last \in Nat /\ changes \in 0 .. MaxChanges
  BY StartIs DEF Inv, SxOk, VarTypes
<1>2. DialogOk(Closed, sx, exposed, failed, made)
  <2>1. ListOk(<<>>, 0, sx, exposed, failed, made)
    BY <1>1, EmptyListOk
  <2> QED BY <2>1, SxAssumption DEF DialogOk, Closed, ModelType, Lists
<1>3. ~Closed.open
  BY DEF Closed
<1> QED BY <1>1, <1>2, <1>3, OneDialog DEF Cancel

LEMMA ChangeStep ==
    ASSUME Inv, NEW m \in Dialogs, NEW i \in Dates, NEW state \in States \ {"CREATED"},
           ChangeState(m, i, state)
    PROVE  Inv'
<1> DEFINE end == model[m].end
           list == model[m].list
           old == Changed(list, i, state)
           new == Generate(sx, end)
           after == [model[m] EXCEPT !.list = Merge(old, new)]
<1>1. /\ sx.last \in Nat /\ sx.remain \in Nat /\ SxOk(sx, exposed) /\ end \in 0 .. MaxDate
      /\ model[m] \in ModelType /\ ListOk(list, end, sx, exposed, failed, made)
      /\ changes \in 0 .. MaxChanges
  BY StartIs DEF Inv, SxOk, VarTypes, DialogOk, ModelType
<1>2. list \in Lists /\ Len(list) \in Nat /\ i \in 1 .. Len(list)
  BY <1>1 DEF ListOk, ListFit, Lists, ChangeState
<1>3. ListFit(old, end, sx, exposed, made)
  BY <1>1, <1>2, ChangedFit DEF ListOk
<1>4. new \in Lists /\ old \in Lists
  BY <1>1, <1>3, GeneratedOk DEF ListOk, ListFit
<1>5. PICK k : IsMerge(Merge(old, new), k, old, new)
  <2> HIDE DEF old, new
  <2> QED BY <1>4, MergeIs
<1>6. Follows(sx, sx, exposed)
  BY <1>1 DEF Follows
<1>7. MergeCase(Merge(old, new), k, old, end, sx, sx, exposed, failed, made)
  <2> HIDE DEF old
  <2> QED BY <1>1, <1>3, <1>5, <1>6 DEF MergeCase
<1>8. ListOk(Merge(old, new), end, sx, exposed, failed, made)
  BY <1>7, MergedOk
<1>9. DialogOk(after, sx, exposed, failed, made) /\ after.open = model[m].open
  <2> DEFINE merged == Merge(old, new)
  <2>1. merged \in Lists
    BY <1>8 DEF ListOk, ListFit
  <2>2. model[m].open
    BY DEF ChangeState
  <2>3. ListOk(merged, end, sx, exposed, failed, made)
    BY <1>8
  <2> HIDE DEF merged
  <2>4. after = [open |-> model[m].open, end |-> end, listed |-> model[m].listed, list |-> merged]
    BY <1>1 DEF ModelType, merged
  <2> QED BY <1>1, <2>1, <2>2, <2>3, <2>4 DEF DialogOk, ModelType
<1>10. model' = [model EXCEPT ![m] = after]
  <2>1. model' = [model EXCEPT ![m].list = Merge(Changed(@, i, state), Generate(sx, model[m].end))]
    BY DEF ChangeState
  <2> QED BY <2>1
<1>11. changes' \in 0 .. MaxChanges /\ UNCHANGED <<today, sx, failures, history>>
  BY <1>1, SxAssumption DEF ChangeState
<1> HIDE DEF after
<1> QED BY <1>9, <1>10, <1>11, OneDialog

LEMMA ReopenStep ==
    ASSUME Inv, Reopen
    PROVE  Inv'
<1> DEFINE s == [sx EXCEPT !.deferred = IF Database THEN <<>> ELSE @]
<1>1. /\ sx' = s /\ model' = [m \in Dialogs |-> Closed]
      /\ UNCHANGED <<today, failures, changes, made, ignored, failed, withdrawn, exposed>>
  BY DEF Reopen, history
<1>2. sx \in SxType /\ SxOk(sx, exposed) /\ ScheduleOk(sx) /\ sx.last \in Nat
  BY StartIs DEF Inv, SxOk, ScheduleOk
<1>3. /\ s \in SxType /\ s.last = sx.last
      /\ s.deferred = IF Database THEN <<>> ELSE sx.deferred
      /\ ~Database => s = sx
  <2>1. <<>> \in Seq(Temporal)
    OBVIOUS
  <2>2. s \in SxType /\ s.last = sx.last /\ s.deferred = IF Database THEN <<>> ELSE sx.deferred
    BY <1>2, <2>1 DEF SxType
  <2>3. ASSUME ~Database PROVE s = sx
    <3>1. sx = [last |-> sx.last, count |-> sx.count, remain |-> sx.remain,
                deferred |-> sx.deferred, auto |-> sx.auto, enabled |-> sx.enabled]
      BY <1>2 DEF SxType
    <3>2. s = [last |-> sx.last, count |-> sx.count, remain |-> sx.remain,
               deferred |-> sx.deferred, auto |-> sx.auto, enabled |-> sx.enabled]
      BY <2>3, <3>1
    <3> QED BY <3>1, <3>2
  <2> QED BY <2>2, <2>3
<1>4. SxOk(s, exposed) /\ HistoryOk(s, exposed, failed, made)
  <2>1. CASE ~Database
    BY <1>3, <2>1 DEF Inv
  <2>2. CASE Database
    <3>1. s.deferred = <<>> /\ Len(s.deferred) = 0 /\ s.deferred \in Deferrals
      BY <1>3, <2>2 DEF Deferrals
    <3> HIDE DEF s
    <3>2. ScheduleOk(s)
      BY <1>3, <3>1 DEF ScheduleOk, DeferralsOk
    <3>3. Start(s).last = s.last
      BY <3>1, <3>2, StartIs
    <3>4. PostponedOnce(s.deferred, exposed) /\ DatesOf(s.deferred) = {}
      BY <3>1 DEF PostponedOnce, DatesOf
    <3>5. Start(s).last + 1 .. s.last \subseteq exposed
      BY <1>2, <1>3, <3>3
    <3> QED BY <1>2, <1>3, <3>2, <3>4, <3>5 DEF SxOk, Inv, HistoryOk
  <2> QED BY <2>1, <2>2
<1> HIDE DEF s
<1>5. DialogOk(Closed, s, exposed, failed, made)
  <2>1. ListOk(<<>>, 0, s, exposed, failed, made)
    BY <1>2, <1>3, EmptyListOk
  <2> QED BY <2>1, SxAssumption DEF DialogOk, Closed, ModelType, Lists
<1>6. (\A d \in Dialogs : DialogOk(model[d], sx, exposed, failed, made))'
  BY <1>1, <1>5
<1>7. VarTypes'
  BY <1>1, <1>5 DEF Inv, VarTypes, DialogOk
<1>8. TwoOpen'
  BY <1>1 DEF TwoOpen, Closed
<1>9. NothingLost'
  BY <1>1, <1>3 DEF Inv, NothingLost
<1> QED BY <1>1, <1>4, <1>6, <1>7, <1>8, <1>9 DEF Inv

LEMMA TomorrowStep ==
    ASSUME Inv, Tomorrow
    PROVE  Inv'
<1>1. /\ UNCHANGED <<sx, model, failures, changes, made, ignored, failed, withdrawn, exposed>>
      /\ today' \in 1 .. MaxDate
  BY SxAssumption DEF Tomorrow, history, Inv, VarTypes
<1> QED BY <1>1 DEF Inv, VarTypes, TwoOpen, NothingLost

LEMMA Starts == Init => Inv
<1> SUFFICES ASSUME Init PROVE Inv
  OBVIOUS
<1>1. /\ sx.last = 0 /\ sx.count = 1 /\ sx.remain = Total /\ sx.deferred = <<>>
      /\ sx.auto \in BOOLEAN /\ sx.enabled = TRUE
      /\ sx = [last |-> sx.last, count |-> sx.count, remain |-> sx.remain,
               deferred |-> sx.deferred, auto |-> sx.auto, enabled |-> sx.enabled]
      /\ model = [m \in Dialogs |-> Closed]
      /\ today = 1 /\ failures = 0 /\ changes = 0 /\ made = [d \in Dates |-> 0]
      /\ ignored = {} /\ failed = {} /\ withdrawn = {} /\ exposed = {}
  BY DEF Init
<1>2. Len(sx.deferred) = 0 /\ sx.deferred \in Deferrals
  BY <1>1 DEF Deferrals
<1>3. ScheduleOk(sx)
  <2>1. sx \in SxType
    <3>1. 0 \in Dates \cup {0} /\ 1 \in Nat /\ Total \in 0 .. Total /\ TRUE \in BOOLEAN
      BY SxAssumption
    <3>2. sx.deferred \in Seq(Temporal)
      BY <1>2 DEF Deferrals
    <3>3. /\ sx.last \in Dates \cup {0} /\ sx.count \in Nat /\ sx.remain \in 0 .. Total
          /\ sx.auto \in BOOLEAN /\ sx.enabled \in BOOLEAN
      BY <1>1, <3>1
    <3> QED BY <1>1, <3>2, <3>3 DEF SxType
  <2> QED BY <1>2, <2>1 DEF ScheduleOk, DeferralsOk
<1>4. Start(sx).last = 0
  BY <1>1, <1>3, StartIs
<1>5. SxOk(sx, exposed)
  BY <1>1, <1>2, <1>3, <1>4 DEF SxOk, PostponedOnce
<1>6. HistoryOk(sx, exposed, failed, made)
  BY <1>1, <1>2 DEF HistoryOk, DatesOf
<1>7. DialogOk(Closed, sx, exposed, failed, made)
  <2>1. ListOk(<<>>, 0, sx, exposed, failed, made)
    BY <1>1, EmptyListOk
  <2> QED BY <2>1, SxAssumption DEF DialogOk, Closed, ModelType, Lists
<1>8. VarTypes
  BY <1>1, <1>7, SxAssumption DEF VarTypes, DialogOk
<1>9. TwoOpen /\ NothingLost
  BY <1>1 DEF TwoOpen, Closed, NothingLost
<1> QED BY <1>1, <1>5, <1>6, <1>7, <1>8, <1>9 DEF Inv

\* The instances of a schedule that creates its transactions by itself, after that.
LEMMA AutoListOk ==
    ASSUME Inv, NEW gen, gen = Generate(sx, today), PassFor(gen, today), NEW m \in Dialogs,
           NEW run, PassInv(run, Len(gen), gen, today), run.deferred = sx.deferred
    PROVE  ListOk(run.list, today, After3(run), ExposedAfter(m, run), run.failed, run.made)
<1> DEFINE s == After3(run)
           E == ExposedAfter(m, run)
           list == run.list
<1>1. /\ ScheduleOk(sx) /\ sx \in SxType /\ sx.last \in Nat /\ sx.remain \in Nat
      /\ today \in 0 .. MaxDate /\ today \in Nat /\ Start(sx).last \in 0 .. sx.last
  BY StartIs, SxAssumption DEF Inv, SxOk, ScheduleOk, VarTypes
<1>2. Dated(gen, sx, today)
  BY <1>1, GenerateIs, GeneratedDates
<1>3. /\ s.deferred = sx.deferred /\ s.last = run.last /\ s.count = run.count
      /\ s.remain = run.remain
  BY <1>1, AfterIs
<1>4. /\ run \in RunType /\ ListPassed(run, Len(gen), gen, today) /\ sx.last <= run.last
      /\ LastPassed(run, Len(gen), gen) /\ run.last \in Nat
  BY DEF PassInv, LastPassed, RunType, Dates
<1>5. exposed \subseteq E /\ Start(s).last + 1 .. run.last \subseteq E
  BY DEF ExposedAfter
<1>6. /\ Alike(list, gen) /\ ListFit(list, today, sx, exposed, run.made)
      /\ \A i \in 1 .. Len(gen) : gen[i].state = "TO_CREATE" =>
           list[i].state = "CREATED" \/ Date(list[i]) \in run.failed
  <2>1. Alike(list, gen) /\ ListFit(list, today, sx, exposed, run.made)
    BY <1>4 DEF ListPassed
  <2>2. \A i \in 1 .. Len(gen) : Date(list[i]) = Date(gen[i])
    BY <2>1, AlikeDates DEF Alike
  <2> QED BY <1>4, <2>1, <2>2 DEF ListPassed, Creates
<1>7. /\ list \in Lists /\ Len(list) \in Nat /\ Len(gen) = Len(list)
      /\ \A i \in 1 .. Len(list) : Date(list[i]) = Date(gen[i]) /\ Date(list[i]) \in Nat
  <2>1. list \in Lists /\ Len(list) \in Nat /\ Len(gen) = Len(list)
    BY <1>6 DEF Alike, Lists
  <2>2. \A i \in 1 .. Len(list) : Date(list[i]) \in Dates
    BY <1>6 DEF ListFit
  <2>3. \A i \in 1 .. Len(gen) : Date(list[i]) = Date(gen[i])
    BY <1>6, AlikeDates DEF Alike
  <2>4. \A x \in Dates : x \in Nat
    BY DEF Dates
  <2> QED BY <2>1, <2>2, <2>3, <2>4
<1>8. s.deferred # <<>> => Start(s) = Start(sx)
  BY <1>3 DEF Start
<1> HIDE DEF s, E, list
<1>9. Shaped(list, today, s)
  <2>1. PICK n \in 0 .. Len(list), b \in 0 .. sx.last :
          /\ \A i \in 1 .. n : Date(list[i]) <= sx.last
          /\ \A i \in n + 1 .. Len(list) : Date(list[i]) = b + (i - n)
          /\ Total = 0 /\ n < Len(list) => b + (Len(list) - n) = today + Remind
    BY <1>6 DEF ListFit, Shaped
  <2>2. b \in 0 .. s.last
    BY <1>1, <1>3, <1>4
  <2>3. \A i \in 1 .. n : Date(list[i]) <= s.last
    <3> SUFFICES ASSUME NEW i \in 1 .. n PROVE Date(list[i]) <= s.last
      OBVIOUS
    <3>1. Date(list[i]) <= sx.last /\ Date(list[i]) \in Nat
      BY <1>7, <2>1
    <3> QED BY <1>1, <1>3, <1>4, <3>1
  <2> QED BY <2>1, <2>2, <2>3 DEF Shaped
<1>10. OrigWorked(list, s) /\ RemindersFollow(list, s)
  <2>1. \A i \in 1 .. Len(list) : Date(list[i]) <= sx.last => Date(list[i]) <= s.last
    BY <1>1, <1>3, <1>4, <1>7
  <2>2. \A i \in 1 .. Len(list) : Date(list[i]) > s.last => Date(list[i]) > sx.last
    BY <1>1, <1>3, <1>4, <1>7
  <2>3. OrigWorked(list, s)
    BY <1>6, <2>1 DEF ListFit, OrigWorked
  <2>4. RemindersFollow(list, s)
    BY <1>6, <2>2 DEF ListFit, RemindersFollow
  <2> QED BY <2>3, <2>4
<1>11. /\ CreatedMade(list, run.made) /\ ListedOnce(list, E) /\ OrigKnown(list, s, E)
       /\ LastUnless(list, E)
  BY <1>3, <1>5, <1>6 DEF ListFit, ListedOnce, OrigKnown, LastUnless
<1>12. StartKnown(list, today, s)
  <2>1. CASE list = <<>>
    BY <2>1 DEF StartKnown
  <2>2. CASE list # <<>> /\ Date(list[1]) <= sx.last
    <3>1. 1 \in 1 .. Len(list)
      BY <1>7, <2>2, EmptySeq DEF Lists
    <3>2. Date(list[1]) <= s.last
      BY <1>1, <1>3, <1>4, <1>7, <2>2, <3>1
    <3> QED BY <3>2 DEF StartKnown
  <2>3. CASE list # <<>> /\ Fresh(list, today, sx)
    <3>1. 1 \in 1 .. Len(list)
      BY <1>7, <2>3, EmptySeq DEF Lists
    <3>2. CASE run.last = sx.last
      <4>1. \A j \in 1 .. Len(gen) : Date(gen[j]) > sx.last
        <5> SUFFICES ASSUME NEW j \in 1 .. Len(list) PROVE Date(gen[j]) > sx.last
          BY <1>7
        <5>1. Date(list[j]) = sx.last + j
          BY <2>3 DEF Fresh
        <5> QED BY <1>1, <1>7, <5>1
      <4>2. run.remain = sx.remain
        BY <1>4, <3>2, <4>1 DEF LastPassed
      <4>3. FreshLen(s, today) = FreshLen(sx, today)
        BY <1>3, <3>2, <4>2 DEF FreshLen
      <4>4. Fresh(list, today, s)
        BY <1>3, <2>3, <3>2, <4>3 DEF Fresh
      <4> QED BY <4>4 DEF StartKnown
    <3>3. CASE run.last # sx.last
      <4>1. PICK j \in 1 .. Len(gen) : Date(gen[j]) = run.last
        BY <1>4, <3>3 DEF LastPassed
      <4>2. Date(list[1]) = sx.last + 1 /\ Date(list[j]) = sx.last + j /\ Date(list[j]) = run.last
        BY <1>7, <2>3, <3>1, <4>1 DEF Fresh
      <4>3. Date(list[1]) <= s.last
        BY <1>1, <1>3, <1>7, <4>2
      <4> QED BY <4>3 DEF StartKnown
    <3> QED BY <3>2, <3>3
  <2> QED BY <1>6, <2>1, <2>2, <2>3 DEF ListFit, StartKnown
<1>13. AsGenerated(list, today, s, E)
  <2>1. CASE sx.deferred = <<>>
    <3>1. DatesOf(s.deferred) = {}
      BY <1>3, <2>1 DEF DatesOf
    <3> QED BY <3>1 DEF AsGenerated
  <2>2. CASE sx.deferred # <<>>
    <3>1. Generate(s, today) = gen
      BY <1>3, <1>8, <2>2 DEF Generate
    <3>2. SameDates(list, Generate(s, today))
      BY <1>7, <3>1 DEF SameDates
    <3> QED BY <3>2 DEF AsGenerated
  <2> QED BY <2>1, <2>2
<1>14. WorkedKnown(list, s, E, run.failed)
  <2> SUFFICES ASSUME NEW i \in 1 .. Len(list), Date(list[i]) <= s.last,
                      list[i].state # "CREATED", Date(list[i]) \notin run.failed,
                      Date(list[i]) \notin DatesOf(sx.deferred)
               PROVE  Date(list[i]) \in E
    BY <1>1, <1>3, <1>4, <1>7 DEF WorkedKnown
  <2> DEFINE n == Len(sx.deferred)
             d == Date(list[i])
  <2>1. n \in 0 .. Len(gen) /\ i \in 1 .. Len(gen) /\ d = Date(gen[i]) /\ d \in Nat
    BY <1>2, <1>7 DEF Dated
  <2>2. i \notin 1 .. n
    BY <1>2, <2>1 DEF Dated
  <2>3. i \in n + 1 .. Len(gen)
    BY <1>7, <2>1, <2>2
  <2>4. /\ d > Start(sx).last /\ Start(sx).last \in Nat
        /\ gen[i].state = IF d <= today THEN "TO_CREATE" ELSE "REMINDER"
    BY <1>1, <1>2, <2>1, <2>3 DEF Dated
  <2>5. CASE sx.deferred # <<>>
    <3>1. Start(s).last = Start(sx).last
      BY <1>3, <1>8, <2>5
    <3>2. d \in Start(s).last + 1 .. run.last
      BY <1>3, <1>4, <2>1, <2>4, <3>1
    <3> QED BY <1>5, <3>2 DEF E
  <2>6. CASE sx.deferred = <<>>
    <3>1. n = 0 /\ Start(sx).last = sx.last
      BY <1>1, <2>6, StartIs
    <3>2. d > today
      <4>1. gen[i].state # "TO_CREATE"
        BY <1>6, <2>1
      <4> QED BY <1>1, <2>1, <2>4, <4>1
    <3>3. run.last # sx.last
      BY <1>1, <1>3, <1>4, <2>1, <2>4, <3>1
    <3>4. PICK j \in 1 .. Len(gen) : /\ Date(gen[j]) = run.last
                                     /\ gen[j].state \in {"IGNORED", "POSTPONED", "TO_CREATE"}
      BY <1>4, <3>3 DEF LastPassed
    <3>5. j \in n + 1 .. Len(gen)
      BY <3>1
    <3>6. gen[j].state = IF Date(gen[j]) <= today THEN "TO_CREATE" ELSE "REMINDER"
      BY <1>2, <3>5 DEF Dated
    <3>7. run.last <= today
      BY <3>4, <3>6
    <3> QED BY <1>1, <1>3, <1>4, <2>1, <3>2, <3>7
  <2> QED BY <2>5, <2>6
<1>15. \A i \in 1 .. Len(list) : Date(list[i]) \in Dates
  BY <1>6 DEF ListFit
<1>16. ListOk(list, today, s, E, run.failed, run.made)
  BY <1>7, <1>9, <1>10, <1>11, <1>12, <1>13, <1>14, <1>15 DEF ListOk, ListFit
<1> QED BY <1>16 DEF list, s, E

\* Since Last Run.
LEMMA SinceStep ==
    ASSUME Inv, NEW m \in Dialogs, SinceLastRun(m)
    PROVE  Inv'
<1> DEFINE gen == Generate(sx, today)
           list == IF sx.enabled THEN gen ELSE <<>>
           now == IF sx.auto THEN list ELSE <<>>
<1>1. PICK run \in Passes(now), shown \in BOOLEAN :
        Effect(m, run, IF ~shown THEN Closed
                       ELSE [open |-> TRUE, end |-> today, listed |-> sx.enabled,
                             list |-> IF sx.auto THEN run.list ELSE list])
  BY DEF SinceLastRun
<1> DEFINE mine == IF sx.auto THEN run.list ELSE list
           after == IF ~shown THEN Closed
                    ELSE [open |-> TRUE, end |-> today, listed |-> sx.enabled, list |-> mine]
           s == After3(run)
           E == ExposedAfter(m, run)
<1>2. /\ SxOk(sx, exposed) /\ ScheduleOk(sx) /\ sx \in SxType /\ sx.last \in Nat
      /\ sx.enabled \in BOOLEAN
      /\ today \in 0 .. MaxDate /\ today \in Nat
  BY StartIs, SxAssumption DEF Inv, SxOk, ScheduleOk, SxType, VarTypes
<1>3. ListOk(gen, today, sx, exposed, failed, made) /\ Dated(gen, sx, today)
  BY <1>2, GeneratedOk, GenerateIs, GeneratedDates
<1>4. ListOk(<<>>, today, sx, exposed, failed, made)
  BY <1>2, EmptyListOk
<1>5. now = gen \/ now = <<>>
  OBVIOUS
<1>6. PassFor(now, today)
  <2>1. ListOk(now, today, sx, exposed, failed, made)
    BY <1>3, <1>4, <1>5
  <2> HIDE DEF now
  <2> QED BY <2>1, SxAssumption DEF Inv, VarTypes, PassFor, NothingLost
<1>7. PassInv(run, Len(now), now, today)
  <2> HIDE DEF now
  <2> QED BY <1>1, <1>6, PassOk
<1>8. run.deferred = sx.deferred
  <2>1. \A j \in 1 .. Len(gen) : gen[j].orig = "POSTPONED" <=> gen[j].state = "POSTPONED"
    <3> HIDE DEF gen
    <3> SUFFICES ASSUME NEW j \in 1 .. Len(gen)
                 PROVE  gen[j].orig = "POSTPONED" <=> gen[j].state = "POSTPONED"
      OBVIOUS
    <3>1. Len(sx.deferred) \in 0 .. Len(gen) /\ Len(gen) \in Nat
      BY <1>3 DEF Dated
    <3>2. j \in 1 .. Len(sx.deferred) \/ j \in Len(sx.deferred) + 1 .. Len(gen)
      BY <3>1
    <3> QED BY <1>3, <3>2 DEF Dated
  <2>2. \A j \in 1 .. Len(now) : now[j].orig = "POSTPONED" <=> now[j].state = "POSTPONED"
    <3> HIDE DEF gen
    <3>1. CASE now = gen
      <4> HIDE DEF now
      <4> QED BY <2>1, <3>1
    <3>2. CASE now = <<>>
      <4> HIDE DEF now
      <4>1. Len(now) = 0
        BY <3>2
      <4> QED BY <4>1
    <3> QED BY <1>5, <3>1, <3>2
  <2> HIDE DEF now
  <2> QED BY <1>7, <2>2 DEF PassInv, DeferredPassed
<1>9. /\ SxOk(s, E) /\ s.last = run.last /\ s.count = run.count /\ s.remain = run.remain
      /\ s.deferred = sx.deferred /\ run \in RunType /\ s.last \in Nat /\ s \in SxType
  <2> HIDE DEF now
  <2>1. SxOk(s, E)
    BY <1>6, <1>7, AfterOk
  <2>2. run \in RunType
    BY <1>7 DEF PassInv
  <2> QED BY <1>2, <1>8, <2>1, <2>2, AfterIs, StartIs DEF SxOk
<1>10. ListOk(mine, today, s, E, run.failed, run.made)
  <2>1. ListOk(<<>>, today, s, E, run.failed, run.made)
    BY <1>9, EmptyListOk
  <2>2. CASE ~sx.enabled
    <3>1. now = <<>> /\ list = <<>>
      BY <2>2
    <3>2. Alike(run.list, now)
      BY <1>7 DEF PassInv, ListPassed
    <3>3. run.list = <<>>
      <4>1. run.list \in Lists /\ Len(run.list) = 0
        BY <3>1, <3>2 DEF Alike
      <4> QED BY <4>1, EmptySeq DEF Lists
    <3>4. mine = <<>>
      BY <3>1, <3>3
    <3> HIDE DEF mine, s, E
    <3> QED BY <2>1, <3>4
  <2>3. CASE sx.enabled /\ sx.auto
    <3>1. now = gen /\ mine = run.list
      BY <2>3
    <3>2. PassFor(gen, today) /\ PassInv(run, Len(gen), gen, today)
      BY <1>6, <1>7, <3>1
    <3>3. ListOk(run.list, today, s, E, run.failed, run.made)
      BY <1>8, <3>2, AutoListOk
    <3> HIDE DEF mine, s, E
    <3> QED BY <3>1, <3>3
  <2>4. CASE sx.enabled /\ ~sx.auto
    <3>1. now = <<>> /\ mine = gen
      BY <2>4
    <3>2. PassInv(run, 0, <<>>, today)
      BY <1>7, <3>1
    <3>3. run.last = sx.last /\ run.remain = sx.remain /\ run.count = sx.count
      <4>1. LastPassed(run, 0, <<>>)
        BY <3>2 DEF PassInv
      <4>2. run.last = sx.last
        BY <4>1 DEF LastPassed
      <4> QED BY <4>1, <4>2 DEF LastPassed
    <3>4. Generate(s, today) = gen
      <4> HIDE DEF s
      <4>1. Start(s) = Start(sx)
        BY <1>9, <3>3 DEF Start
      <4> QED BY <1>9, <4>1 DEF Generate
    <3>5. ListOk(Generate(s, today), today, s, E, run.failed, run.made)
      BY <1>2, <1>9, GeneratedOk
    <3> HIDE DEF mine, s, E, gen
    <3> QED BY <3>1, <3>4, <3>5
  <2> QED BY <2>2, <2>3, <2>4
<1>11. DialogOk(after, s, E, run.failed, run.made)
  <2> HIDE DEF mine, s, E
  <2>1. CASE ~shown
    <3>1. ListOk(<<>>, 0, s, E, run.failed, run.made)
      BY <1>9, EmptyListOk
    <3> QED BY <2>1, <3>1, SxAssumption DEF DialogOk, Closed, ModelType, Lists
  <2>2. CASE shown
    <3>1. mine \in Lists
      BY <1>10 DEF ListOk, ListFit
    <3>2. after = [open |-> TRUE, end |-> today, listed |-> sx.enabled, list |-> mine]
      BY <2>2
    <3> HIDE DEF after
    <3> QED BY <1>2, <1>10, <3>1, <3>2 DEF DialogOk, ModelType
  <2> QED BY <2>1, <2>2
<1>12. Effect(m, run, after)
  BY <1>1
<1>13. UNCHANGED <<today, changes>>
  BY DEF SinceLastRun
<1> HIDE DEF now, after
<1> QED BY <1>6, <1>7, <1>8, <1>11, <1>12, <1>13, EffectOk

-----------------------------------------------------------------------------
(* The theorems.                                                           *)

LEMMA InvIsKept == Inv /\ [Next]_vars => Inv'
<1> SUFFICES ASSUME Inv, [Next]_vars PROVE Inv'
  OBVIOUS
<1>1. ASSUME NEW m \in Dialogs, SinceLastRun(m) PROVE Inv'
  BY <1>1, SinceStep
<1>2. ASSUME NEW m \in Dialogs, Ok(m) PROVE Inv'
  BY <1>2, OkStep
<1>3. ASSUME NEW m \in Dialogs, Cancel(m) PROVE Inv'
  BY <1>3, CancelStep
<1>4. ASSUME NEW m \in Dialogs, NEW i \in Dates, NEW state \in States \ {"CREATED"},
             ChangeState(m, i, state)
      PROVE  Inv'
  BY <1>4, ChangeStep
<1>5. ASSUME NEW value \in BOOLEAN, SetEnabled(value) PROVE Inv'
  BY <1>5, SetStep DEF SetEnabled
<1>6. ASSUME NEW value \in BOOLEAN, SetAutoCreate(value) PROVE Inv'
  BY <1>6, SetStep DEF SetAutoCreate
<1>7. CASE Reopen
  BY <1>7, ReopenStep
<1>8. CASE Tomorrow
  BY <1>8, TomorrowStep
<1>9. CASE UNCHANGED vars
  <2>1. UNCHANGED <<today, sx, model, failures, changes, made, ignored, failed, withdrawn, exposed>>
    BY <1>9 DEF vars, history
  <2> QED BY <2>1 DEF Inv, VarTypes, TwoOpen, NothingLost
<1> QED BY <1>1, <1>2, <1>3, <1>4, <1>5, <1>6, <1>7, <1>8, <1>9 DEF Next

LEMMA InvHolds == Spec => []Inv
<1>1. Init => Inv
  BY Starts
<1>2. Inv /\ [Next]_vars => Inv'
  BY InvIsKept
<1> QED BY <1>1, <1>2, PTL DEF Spec

\* The schedule, the lists of the dialogs and the counters are what their types
\* say: dates that there are, no more remaining occurrences than there were, and
\* in every list only dates up to the last day with its reminders.
THEOREM TypeCorrect == Spec => []TypeOK
<1>1. Inv => TypeOK
  <2> SUFFICES ASSUME Inv PROVE TypeOK
    OBVIOUS
  <2>1. VarTypes /\ sx \in SxType /\ \A m \in Dialogs : DialogOk(model[m], sx, exposed, failed, made)
    BY DEF Inv, SxOk, ScheduleOk
  <2>2. exposed \subseteq Dates
    <3>1. sx.last \in Dates \cup {0} /\ exposed \subseteq 1 .. sx.last
      BY DEF Inv, SxOk, ScheduleOk, SxType
    <3> QED BY <3>1, SxAssumption DEF Dates
  <2>3. ASSUME NEW m \in Dialogs
        PROVE  /\ model[m] \in [open : BOOLEAN, end : 0 .. MaxDate, listed : BOOLEAN,
                                list : Seq(InstanceType)]
               /\ \A i \in DOMAIN model[m].list : Date(model[m].list[i]) \in Dates
    <3>1. model[m] \in ModelType /\ \A i \in 1 .. Len(model[m].list) : Date(model[m].list[i]) \in Dates
      BY <2>1 DEF DialogOk, ListOk, ListFit
    <3>2. model[m].list \in Seq(InstanceType)
      BY <3>1 DEF ModelType, Lists
    <3>3. DOMAIN model[m].list = 1 .. Len(model[m].list)
      BY <3>2
    <3> QED BY <3>1, <3>3 DEF ModelType, Lists
  <2> QED BY <2>1, <2>2, <2>3 DEF VarTypes, TypeOK, SxType
<1> QED BY <1>1, InvHolds, PTL

\* A reminder is before reminders only, in every list without an exposed date:
\* gnc_sx_instance_model_change_instance_state puts the others in order, and
\* neither the merge with what the schedule generates anew nor a pass over the
\* list, gnc_sx_instance_model_effect_change, undoes that.
THEOREM RemindersComeLast == Spec => []RemindersLastUnlessExposed
<1>1. Inv => RemindersLastUnlessExposed
  <2> SUFFICES ASSUME Inv, NEW m \in Dialogs,
                      \A i \in DOMAIN model[m].list : Date(model[m].list[i]) \notin exposed,
                      NEW i \in DOMAIN model[m].list, NEW j \in DOMAIN model[m].list,
                      i < j, model[m].list[i].state = "REMINDER"
               PROVE  model[m].list[j].state = "REMINDER"
    BY DEF RemindersLastUnlessExposed
  <2>1. model[m].list \in Lists /\ LastUnless(model[m].list, exposed)
    BY DEF Inv, DialogOk, ListOk, ListFit
  <2>2. DOMAIN model[m].list = 1 .. Len(model[m].list)
    BY <2>1 DEF Lists
  <2> QED BY <2>1, <2>2 DEF LastUnless, InOrder
<1> QED BY <1>1, InvHolds, PTL

\* No occurrence is created twice by gnc_sx_instance_model_effect_change, but for
\* those that are listed again, that one of two dialogs has postponed or that had
\* an error.
THEOREM CreatedOnlyOnce == Spec => []CreatedOnceUnlessExposed
<1>1. Inv => CreatedOnceUnlessExposed
  BY DEF Inv, HistoryOk, CreatedOnceUnlessExposed
<1> QED BY <1>1, InvHolds, PTL

\* Where the number of occurrences is not limited, and the book is in a file, no
\* occurrence is passed over: up to the one that the schedule was worked off to
\* by increment_sx_state each was created or ignored, is postponed, was reported,
\* or was made a reminder again after it had been postponed.
THEOREM NoneIsForgotten ==
    ASSUME Total = 0, ~Database
    PROVE  Spec => []NoneForgottenUnlessWithdrawn
<1>1. Inv => NoneForgottenUnlessWithdrawn
  <2> SUFFICES ASSUME Inv, NEW d \in 1 .. sx.last, ~(made[d] > 0),
                      d \notin ignored \cup failed \cup withdrawn
               PROVE  \E i \in DOMAIN sx.deferred : sx.deferred[i].last + 1 = d
    BY DEF NoneForgottenUnlessWithdrawn
  <2>1. d \in DatesOf(sx.deferred)
    BY DEF Inv, NothingLost, Handled
  <2>2. sx.deferred \in Seq(Temporal)
    BY DEF Inv, SxOk, ScheduleOk, SxType
  <2>3. DOMAIN sx.deferred = 1 .. Len(sx.deferred)
    BY <2>2
  <2> QED BY <2>1, <2>3 DEF DatesOf
<1> QED BY <1>1, InvHolds, PTL
=============================================================================
