---------------------------- MODULE RefreshProofs ----------------------------
(***************************************************************************)
(* The component manager, for any entities, components, watches and        *)
(* suspensions.                                                            *)
(*                                                                         *)
(* A refresh counts as a suspension, so no other one begins inside it      *)
(* (RefreshInv), and what is raised meanwhile is in `changes` and not in   *)
(* the tables that it walks with (PendingInv).  A component has a higher   *)
(* id than those registered before it, so the close handlers, which take   *)
(* with them what was opened later, free nothing that the walk over a      *)
(* session has yet to come to (OrderInv, CloseInv); and no event, hence no *)
(* refresh, comes between them.                                            *)
(***************************************************************************)
EXTENDS Refresh, SequenceTheorems, FiniteSetTheorems, TLAPS

OrderInv ==
    /\ \A i, j \in DOMAIN components : i < j => components[i] > components[j]
    /\ \A c \in Registered : c < nextId
    /\ \A c \in Id : opener[c] < c

RefreshInv ==
    /\ RefreshesDoNotNest
    /\ gotEvents => suspends > 0
    /\ refreshes = <<>> => changesBackup = {}

\* The pairs that a component is owed are still its to watch.
OwedInv == \A o \in owed : o[1] \in Registered /\ o[2] \in watch[o[1]]

PendingInv ==
    /\ refreshes # <<>> => changes \subseteq late
    /\ refreshes = <<>> /\ ~gotEvents => \A o \in owed : o[2] \in late

\* The walk has yet to come to older components than the one it is at.
Onward(walk) ==
    /\ \A i, j \in DOMAIN walk.rest : i < j => walk.rest[i] > walk.rest[j]
    /\ \A i \in DOMAIN walk.rest :
         /\ walk.rest[i] \in Registered
         /\ walk.in # NoComponent => walk.rest[i] < walk.in

CloseInv ==
    /\ Len(closing) <= 1
    /\ closing # <<>> => eventsOff /\ ~gotEvents /\ refreshes = <<>> /\ Onward(closing[1])

\* The refresh in progress has yet to come to component c.
Ahead(c) ==
    refreshes # <<>> /\ \E i \in DOMAIN refreshes[1].rest : refreshes[1].rest[i] = c

KeptInv ==
    \A o \in owed : o[2] \in changes \/ (o[2] \in changesBackup /\ Ahead(o[1]))

Inv == TypeOK /\ OrderInv /\ RefreshInv /\ OwedInv /\ KeptInv /\ PendingInv /\ CloseInv

-----------------------------------------------------------------------------
(* Lists and walks.                                                        *)

LEMMA Listed ==
    ASSUME TypeOK
    PROVE  /\ components \in Seq(Id) /\ DOMAIN components = 1 .. Len(components)
           /\ Len(components) \in Nat
           /\ Registered = {components[i] : i \in DOMAIN components}
           /\ Registered \subseteq Id
BY DEF TypeOK, Registered, Range

\* There is at most one walk of a kind.
LEMMA OneWalk ==
    ASSUME NEW ws \in Seq(WalkType), Len(ws) <= 1, ws # <<>>
    PROVE  /\ Len(ws) = 1 /\ DOMAIN ws = {1} /\ ws[1] \in WalkType
           /\ Last(ws) = ws[1] /\ Front(ws) = <<>>
<1>1. Len(ws) = 1 /\ DOMAIN ws = 1 .. 1 /\ ws[1] \in WalkType
  OBVIOUS
<1>2. SubSeq(ws, 1, 0) = <<>>
  BY SubSeqEmpty
<1> QED BY <1>1, <1>2 DEF Last, Front

LEMMA NewWalk ==
    ASSUME NEW ws, ws = <<>>, NEW ids \in Seq(Id), NEW force \in BOOLEAN
    PROVE  LET new == Append(ws, Walk(ids, force)) IN
           /\ new \in Seq(WalkType) /\ Len(new) = 1 /\ new # <<>> /\ DOMAIN new = {1}
           /\ new[1].rest = ids /\ new[1].in = NoComponent
           /\ <<Walk(ids, force)>> = new
<1>1. Walk(ids, force) \in WalkType
  BY DEF Walk, WalkType
<1>2. Append(<<>>, Walk(ids, force)) = <<Walk(ids, force)>>
  OBVIOUS
<1> QED BY <1>1, <1>2 DEF Walk

LEMMA EnterWalk ==
    ASSUME NEW ws \in Seq(WalkType), Len(ws) <= 1, ws # <<>>,
           NEW c \in Id \cup {NoComponent}, ws[1].rest # <<>>
    PROVE  LET new == Enter(ws, c) IN
           /\ new \in Seq(WalkType) /\ Len(new) = 1 /\ new # <<>> /\ DOMAIN new = {1}
           /\ new[1].rest = Tail(ws[1].rest) /\ new[1].in = c
<1> DEFINE w == [ws[1] EXCEPT !.rest = Tail(@), !.in = c]
<1>1. ws[1] \in WalkType /\ Last(ws) = ws[1] /\ Front(ws) = <<>>
  BY OneWalk
<1>2. ws[1].rest \in Seq(Id) /\ Tail(ws[1].rest) \in Seq(Id)
  BY <1>1 DEF WalkType
<1>3. w \in WalkType /\ w.rest = Tail(ws[1].rest) /\ w.in = c
  BY <1>1, <1>2 DEF WalkType
<1> HIDE DEF w
<1>4. Enter(ws, c) = Append(<<>>, w)
  BY <1>1 DEF Enter, w
<1> QED BY <1>3, <1>4

LEMMA LeaveWalk ==
    ASSUME NEW ws \in Seq(WalkType), Len(ws) <= 1, ws # <<>>
    PROVE  LET new == Leave(ws) IN
           /\ new \in Seq(WalkType) /\ Len(new) = 1 /\ new # <<>> /\ DOMAIN new = {1}
           /\ new[1].rest = ws[1].rest /\ new[1].in = NoComponent
<1> DEFINE w == [ws[1] EXCEPT !.in = NoComponent]
<1>1. ws[1] \in WalkType /\ Last(ws) = ws[1] /\ Front(ws) = <<>>
  BY OneWalk
<1>2. w \in WalkType /\ w.rest = ws[1].rest /\ w.in = NoComponent
  BY <1>1 DEF WalkType
<1> HIDE DEF w
<1>3. Leave(ws) = Append(<<>>, w)
  BY <1>1 DEF Leave, w
<1> QED BY <1>2, <1>3

\* The rest of a list without its head.
LEMMA TailOf ==
    ASSUME NEW s \in Seq(Id), s # <<>>
    PROVE  /\ Head(s) = s[1] /\ Head(s) \in Id /\ 1 \in DOMAIN s
           /\ Tail(s) \in Seq(Id)
           /\ DOMAIN Tail(s) = 1 .. Len(s) - 1 /\ DOMAIN s = 1 .. Len(s) /\ Len(s) \in Nat \ {0}
           /\ \A i \in 1 .. Len(s) - 1 : Tail(s)[i] = s[i + 1]
BY HeadTailProperties

\* A list without its i-th member.
LEMMA Without ==
    ASSUME NEW s \in Seq(Id), NEW i \in DOMAIN s
    PROVE  LET t == RemoveAt(s, i) IN
           /\ t \in Seq(Id) /\ DOMAIN t = 1 .. Len(s) - 1 /\ DOMAIN s = 1 .. Len(s)
           /\ Len(s) \in Nat \ {0} /\ i \in 1 .. Len(s)
           /\ \A j \in 1 .. Len(s) - 1 : t[j] = s[IF j < i THEN j ELSE j + 1]
<1> DEFINE n == Len(s)
           front == SubSeq(s, 1, i - 1)
           back == SubSeq(s, i + 1, n)
<1>1. n \in Nat \ {0} /\ i \in 1 .. n /\ DOMAIN s = 1 .. n /\ \A j \in 1 .. n : s[j] \in Id
  OBVIOUS
<1> HIDE DEF n
<1>2. front \in Seq(Id) /\ Len(front) = i - 1 /\ \A j \in 1 .. i - 1 : front[j] = s[j]
  <2>1. \A j \in 1 .. i - 1 : s[j] \in Id
    BY <1>1
  <2>2. 1 \in Int /\ i - 1 \in Int
    BY <1>1
  <2>3. /\ SubSeq(s, 1, i - 1) \in Seq(Id)
        /\ Len(SubSeq(s, 1, i - 1)) = IF 1 <= i - 1 THEN i - 1 - 1 + 1 ELSE 0
        /\ \A j \in 1 .. i - 1 - 1 + 1 : SubSeq(s, 1, i - 1)[j] = s[1 + j - 1]
    BY <2>1, <2>2, SubSeqProperties
  <2> QED BY <1>1, <2>3
<1>3. back \in Seq(Id) /\ Len(back) = n - i /\ \A j \in 1 .. n - i : back[j] = s[i + j]
  <2>1. \A j \in i + 1 .. n : s[j] \in Id
    BY <1>1
  <2>2. i + 1 \in Int /\ n \in Int
    BY <1>1
  <2>3. /\ SubSeq(s, i + 1, n) \in Seq(Id)
        /\ Len(SubSeq(s, i + 1, n)) = IF i + 1 <= n THEN n - (i + 1) + 1 ELSE 0
        /\ \A j \in 1 .. n - (i + 1) + 1 : SubSeq(s, i + 1, n)[j] = s[i + 1 + j - 1]
    BY <2>1, <2>2, SubSeqProperties
  <2> QED BY <1>1, <2>3
<1> HIDE DEF front, back
<1>4. /\ front \o back \in Seq(Id) /\ Len(front \o back) = n - 1
      /\ \A j \in 1 .. n - 1 : (front \o back)[j] = IF j <= i - 1 THEN front[j] ELSE back[j - (i - 1)]
  <2>1. /\ front \o back \in Seq(Id) /\ Len(front \o back) = Len(front) + Len(back)
        /\ \A j \in 1 .. Len(front) + Len(back) :
             (front \o back)[j] = IF j <= Len(front) THEN front[j] ELSE back[j - Len(front)]
    BY <1>2, <1>3, ConcatProperties
  <2>2. Len(front) + Len(back) = n - 1
    BY <1>1, <1>2, <1>3
  <2> QED BY <1>2, <2>1, <2>2
<1>5. \A j \in 1 .. n - 1 : (front \o back)[j] = s[IF j < i THEN j ELSE j + 1]
  <2> SUFFICES ASSUME NEW j \in 1 .. n - 1
               PROVE  (front \o back)[j] = s[IF j < i THEN j ELSE j + 1]
    OBVIOUS
  <2>1. CASE j < i
    BY <1>1, <1>2, <1>4, <2>1
  <2>2. CASE ~(j < i)
    <3>1. j - (i - 1) \in 1 .. n - i /\ i + (j - (i - 1)) = j + 1
      BY <1>1, <2>2
    <3> QED BY <1>1, <1>3, <1>4, <2>2, <3>1, SMTT(30)
  <2> QED BY <2>1, <2>2
<1>6. RemoveAt(s, i) = front \o back
  BY DEF RemoveAt, front, back, n
<1>7. DOMAIN (front \o back) = 1 .. n - 1
  BY <1>4
<1> QED BY <1>1, <1>4, <1>5, <1>6, <1>7 DEF n

-----------------------------------------------------------------------------
(* Refreshes.                                                              *)

\* A refresh begins, with the changes collected, when no walk is in progress.
LEMMA BeginStep ==
    ASSUME Inv, refreshes = <<>>, closing = <<>>,
           NEW collected \in SUBSET Pairs, NEW force \in BOOLEAN,
           Begin(collected, force), changes \subseteq collected,
           UNCHANGED <<registry, closing, eventsOff>>, gotEvents' \in BOOLEAN,
           owed' \subseteq Id \X Pairs,
           \A o \in owed' : o \in owed \/ /\ o[1] \in Registered /\ o[2] \in collected
                                          /\ o[2] \in watch[o[1]]
    PROVE  Inv'
<1> USE DEF Inv
<1>0. UNCHANGED <<components, nextId, watch, inSession, opener, closing, eventsOff>>
  BY DEF registry
<1>1. /\ suspends' = 1 /\ changesBackup' = collected /\ changes' = {} /\ late' = {}
      /\ refreshes' \in Seq(WalkType) /\ Len(refreshes') = 1 /\ refreshes' # <<>>
      /\ DOMAIN refreshes' = {1}
      /\ refreshes'[1].rest = components /\ refreshes'[1].in = NoComponent
  BY Listed, NewWalk DEF Begin, Hold, RefreshInv
<1>2. TypeOK'
  <2>1. changes' \subseteq Pairs /\ changesBackup' \subseteq Pairs /\ late' \subseteq Pairs
    BY <1>1
  <2>2. suspends' \in Nat /\ suspends' >= Len(refreshes')
    BY <1>1
  <2> QED BY <1>0, <1>1, <2>1, <2>2 DEF TypeOK, Registered
<1>3. OrderInv'
  BY <1>0 DEF OrderInv, Registered
<1>4. RefreshInv'
  BY <1>1 DEF RefreshInv, RefreshesDoNotNest
<1>5. OwedInv'
  BY <1>0 DEF OwedInv, Registered
<1>6. KeptInv'
  <2> SUFFICES ASSUME NEW o \in owed'
               PROVE  o[2] \in changesBackup' /\ Ahead(o[1])'
    BY DEF KeptInv
  <2>1. o[1] \in Registered
    BY DEF OwedInv
  <2>2. Ahead(o[1])'
    BY <1>1, <2>1, Listed DEF Ahead
  <2>3. o \in owed => o[2] \in changes
    BY DEF KeptInv, Ahead
  <2> QED BY <1>1, <2>2, <2>3
<1>7. PendingInv'
  BY <1>1 DEF PendingInv
<1>8. CloseInv'
  BY <1>0 DEF CloseInv
<1> QED BY <1>2, <1>3, <1>4, <1>5, <1>6, <1>7, <1>8

LEMMA RecordedPairs ==
    ASSUME NEW e \in Entities, NEW event \in Events
    PROVE  Recorded(e, event) \subseteq Pairs
<1>1. /\ e \in Keys /\ TypeOf[e] \in Keys /\ "Trans" \in Keys /\ "modify" \in Events
  BY RefreshAssumption DEF Keys, Types
<1> QED BY <1>1 DEF Recorded, Pairs

LEMMA EventStep ==
    ASSUME Inv, NEW e \in Entities, NEW event \in Events, Event(e, event)
    PROVE  Inv'
<1> USE DEF Inv
<1> DEFINE new == Recorded(e, event)
<1>0. /\ ~eventsOff /\ gotEvents' = TRUE
      /\ owed' = owed \cup {o \in Registered \X new : o[2] \in watch[o[1]]}
      /\ UNCHANGED <<registry, closing, eventsOff>>
      /\ UNCHANGED <<components, nextId, watch, inSession, opener>>
  BY DEF Event, registry
<1>1. closing = <<>> /\ new \subseteq Pairs
  BY <1>0, RecordedPairs DEF CloseInv
<1> HIDE DEF new
<1>2. owed' \subseteq Id \X Pairs
  BY <1>0, <1>1, Listed DEF TypeOK
<1>3. \A o \in owed' : o \in owed \/ /\ o[1] \in Registered /\ o[2] \in new
                                     /\ o[2] \in watch[o[1]]
  BY <1>0
<1>4. CASE suspends = 0 /\ Begin(changes \cup new, FALSE)
  <2>1. refreshes = <<>>
    BY <1>4 DEF TypeOK
  <2>2. changes \cup new \in SUBSET Pairs
    BY <1>1 DEF TypeOK
  <2> QED BY <1>0, <1>1, <1>2, <1>3, <1>4, <2>1, <2>2, BeginStep
<1>5. CASE /\ suspends # 0
           /\ changes' = changes \cup new
           /\ late' = IF refreshes # <<>> THEN late \cup new ELSE late \ new
           /\ UNCHANGED <<suspends, changesBackup, refreshes>>
  <2>1. TypeOK'
    BY <1>0, <1>1, <1>2, <1>5 DEF TypeOK, Registered
  <2>2. OrderInv'
    BY <1>0 DEF OrderInv, Registered
  <2>3. RefreshInv'
    BY <1>5 DEF RefreshInv, RefreshesDoNotNest, TypeOK
  <2>4. OwedInv'
    BY <1>0, <1>3 DEF OwedInv, Registered
  <2>5. KeptInv'
    BY <1>3, <1>5 DEF KeptInv, Ahead
  <2>6. PendingInv'
    BY <1>0, <1>5 DEF PendingInv
  <2>7. CloseInv'
    BY <1>0, <1>1 DEF CloseInv
  <2> QED BY <2>1, <2>2, <2>3, <2>4, <2>5, <2>6, <2>7
<1> QED BY <1>4, <1>5 DEF Event, new

\* Steps that change the counter only.
LEMMA CountStep ==
    ASSUME Inv, UNCHANGED <<registry, pending, walks, eventsOff>>,
           suspends' \in Nat, suspends' >= Len(refreshes), gotEvents => suspends' > 0
    PROVE  Inv'
<1> USE DEF Inv
<1>0. UNCHANGED <<components, nextId, watch, inSession, opener, changes, changesBackup,
                  gotEvents, owed, late, refreshes, closing, eventsOff>>
  BY DEF registry, pending, walks
<1>1. TypeOK'
  BY <1>0 DEF TypeOK, Registered
<1>2. OrderInv' /\ OwedInv'
  BY <1>0 DEF OrderInv, OwedInv, Registered
<1>3. RefreshInv' /\ PendingInv'
  BY <1>0 DEF RefreshInv, RefreshesDoNotNest, PendingInv
<1>4. KeptInv'
  BY <1>0 DEF KeptInv, Ahead
<1>5. CloseInv'
  BY <1>0 DEF CloseInv, Onward, Registered
<1> QED BY <1>1, <1>2, <1>3, <1>4, <1>5

LEMMA SuspendStep ==
    ASSUME Inv, Suspend
    PROVE  Inv'
<1>1. suspends \in Nat /\ suspends' = suspends + 1 /\ suspends >= Len(refreshes)
      /\ Len(refreshes) \in Nat
  BY DEF Suspend, Inv, TypeOK
<1> QED BY <1>1, CountStep DEF Suspend

LEMMA ResumeStep ==
    ASSUME Inv, Resume
    PROVE  Inv'
<1>1. /\ suspends \in Nat /\ suspends > Len(refreshes) /\ Len(refreshes) \in Nat
  BY DEF Resume, Holds, Hold, Inv, TypeOK
<1>2. CASE Due /\ Begin(changes, FALSE)
  <2>1. /\ refreshes = <<>> /\ closing = <<>> /\ changes \in SUBSET Pairs
        /\ owed \subseteq Id \X Pairs /\ gotEvents \in BOOLEAN
    BY <1>1, <1>2 DEF Due, Inv, CloseInv, TypeOK
  <2>2. UNCHANGED <<registry, gotEvents, owed, closing, eventsOff>>
    BY DEF Resume
  <2> QED BY <1>2, <2>1, <2>2, BeginStep
<1>3. CASE ~Due /\ suspends' = suspends - 1 /\ UNCHANGED <<changes, changesBackup, late, refreshes>>
  <2>1. suspends' \in Nat /\ suspends' >= Len(refreshes)
    BY <1>1, <1>3
  <2>2. gotEvents => suspends' > 0
    BY <1>1, <1>3 DEF Due
  <2> QED BY <1>3, <2>1, <2>2, CountStep DEF Resume, pending, walks
<1> QED BY <1>2, <1>3 DEF Resume

LEMMA RefreshAllStep ==
    ASSUME Inv, RefreshAll
    PROVE  Inv'
<1>1. /\ refreshes = <<>> /\ closing = <<>> /\ changes \in SUBSET Pairs
      /\ owed \subseteq Id \X Pairs /\ gotEvents \in BOOLEAN
  BY DEF RefreshAll, Inv, TypeOK
<1>2. UNCHANGED <<registry, gotEvents, owed, closing, eventsOff>> /\ Begin(changes, TRUE)
  BY DEF RefreshAll
<1> QED BY <1>1, <1>2, BeginStep

\* The next component of a refresh.
LEMMA VisitStep ==
    ASSUME Inv, Visit
    PROVE  Inv'
<1> USE DEF Inv
<1> DEFINE c == Head(refreshes[1].rest)
<1>0. /\ refreshes \in Seq(WalkType) /\ Len(refreshes) = 1 /\ refreshes # <<>>
      /\ refreshes[1] \in WalkType /\ Last(refreshes) = refreshes[1]
  BY OneWalk DEF Visit, TypeOK, RefreshInv, RefreshesDoNotNest
<1>1. /\ UNCHANGED <<components, nextId, watch, inSession, opener, changes, changesBackup,
                     gotEvents, late, closing, suspends, eventsOff>>
      /\ refreshes[1].rest # <<>> /\ refreshes[1].rest \in Seq(Id)
      /\ \/ /\ refreshes' = Enter(refreshes, c)
            /\ owed' = {o \in owed : o[1] # c \/ o[2] \in changes}
         \/ /\ ~(c \in Registered /\ Matches(c))
            /\ refreshes' = Enter(refreshes, NoComponent) /\ owed' = owed
  BY <1>0 DEF Visit, registry, WalkType
<1>2. /\ refreshes' \in Seq(WalkType) /\ Len(refreshes') = 1 /\ refreshes' # <<>>
      /\ refreshes'[1].rest = Tail(refreshes[1].rest)
  <2>1. c \in Id \cup {NoComponent} /\ NoComponent \in Id \cup {NoComponent}
    BY <1>1, TailOf
  <2>2. PICK d \in Id \cup {NoComponent} : refreshes' = Enter(refreshes, d)
    BY <1>1, <2>1
  <2>3. refreshes \in Seq(WalkType) /\ Len(refreshes) <= 1 /\ refreshes # <<>>
        /\ refreshes[1].rest # <<>>
    BY <1>0, <1>1
  <2> QED BY <2>2, <2>3, EnterWalk
<1>3. owed' \subseteq owed
  BY <1>1
<1>4. TypeOK'
  BY <1>0, <1>1, <1>2, <1>3 DEF TypeOK, Registered
<1>5. OrderInv' /\ OwedInv'
  BY <1>1, <1>3 DEF OrderInv, OwedInv, Registered
<1>6. RefreshInv' /\ PendingInv'
  BY <1>0, <1>1, <1>2, <1>3 DEF RefreshInv, RefreshesDoNotNest, PendingInv
<1>7. KeptInv'
  <2> SUFFICES ASSUME NEW o \in owed', o[2] \notin changes
               PROVE  o[2] \in changesBackup /\ Ahead(o[1])'
    BY <1>1 DEF KeptInv
  <2>1. o \in owed /\ o[2] \in changesBackup /\ Ahead(o[1])
    BY <1>3 DEF KeptInv
  <2>2. o[1] # c
    <3>1. CASE owed' = {p \in owed : p[1] # c \/ p[2] \in changes}
      BY <3>1
    <3>2. CASE ~(c \in Registered /\ Matches(c))
      BY <2>1, <3>2 DEF OwedInv, Matches
    <3> QED BY <1>1, <3>1, <3>2
  <2>3. PICK i \in DOMAIN refreshes[1].rest : refreshes[1].rest[i] = o[1]
    BY <2>1 DEF Ahead
  <2>4. i # 1 /\ i - 1 \in DOMAIN Tail(refreshes[1].rest)
        /\ Tail(refreshes[1].rest)[i - 1] = o[1]
    <3> DEFINE s == refreshes[1].rest
    <3>1. s \in Seq(Id) /\ s # <<>> /\ c = Head(s) /\ i \in DOMAIN s /\ s[i] = o[1]
      BY <1>1, <2>3
    <3> HIDE DEF s, c
    <3>2. /\ Head(s) = s[1] /\ DOMAIN Tail(s) = 1 .. Len(s) - 1 /\ DOMAIN s = 1 .. Len(s)
          /\ \A k \in 1 .. Len(s) - 1 : Tail(s)[k] = s[k + 1]
          /\ Len(s) \in Nat \ {0}
      BY <3>1, TailOf
    <3>3. i \in 1 .. Len(s) /\ i # 1
      BY <2>2, <3>1, <3>2
    <3>4. i - 1 \in 1 .. Len(s) - 1 /\ i - 1 + 1 = i
      BY <3>2, <3>3
    <3> QED BY <3>1, <3>2, <3>3, <3>4 DEF s
  <2> QED BY <1>2, <2>1, <2>4 DEF Ahead
<1>8. CloseInv'
  BY <1>0, <1>1 DEF CloseInv
<1> QED BY <1>4, <1>5, <1>6, <1>7, <1>8

LEMMA ReturnStep ==
    ASSUME Inv, Return
    PROVE  Inv'
<1> USE DEF Inv
<1>0. /\ refreshes \in Seq(WalkType) /\ Len(refreshes) <= 1 /\ refreshes # <<>>
      /\ UNCHANGED <<components, nextId, watch, inSession, opener, changes, changesBackup,
                     gotEvents, owed, late, closing, suspends, eventsOff>>
  BY DEF Return, TypeOK, RefreshInv, RefreshesDoNotNest, registry, pending
<1>1. /\ refreshes' \in Seq(WalkType) /\ Len(refreshes') = 1 /\ refreshes' # <<>>
      /\ refreshes'[1].rest = refreshes[1].rest /\ Len(refreshes) = 1
  BY <1>0, LeaveWalk, OneWalk DEF Return
<1>2. TypeOK'
  BY <1>0, <1>1 DEF TypeOK, Registered
<1>3. OrderInv' /\ OwedInv'
  BY <1>0 DEF OrderInv, OwedInv, Registered
<1>4. RefreshInv' /\ PendingInv'
  BY <1>0, <1>1 DEF RefreshInv, RefreshesDoNotNest, PendingInv
<1>5. KeptInv'
  BY <1>0, <1>1 DEF KeptInv, Ahead
<1>6. CloseInv'
  BY <1>0 DEF CloseInv
<1> QED BY <1>2, <1>3, <1>4, <1>5, <1>6

\* A refresh ends: what is owed now was raised in its course.
LEMMA EndRefreshStep ==
    ASSUME Inv, EndRefresh
    PROVE  Inv'
<1> USE DEF Inv
<1>0. /\ refreshes \in Seq(WalkType) /\ Len(refreshes) = 1 /\ refreshes # <<>>
      /\ Last(refreshes) = refreshes[1] /\ Front(refreshes) = <<>>
  BY OneWalk DEF EndRefresh, TypeOK, RefreshInv, RefreshesDoNotNest
<1>1. /\ UNCHANGED <<components, nextId, watch, inSession, opener, owed, late, closing, eventsOff>>
      /\ refreshes[1].rest = <<>> /\ refreshes' = <<>>
      /\ changesBackup' = {} /\ changes' = changes /\ gotEvents' = FALSE
      /\ suspends' = suspends - 1
  BY <1>0 DEF EndRefresh, registry, Left, Hold
<1>2. \A o \in owed : o[2] \in changes
  BY <1>1 DEF KeptInv, Ahead
<1>3. suspends' \in Nat /\ suspends' >= Len(refreshes')
      /\ refreshes' \in Seq(WalkType)
  BY <1>0, <1>1 DEF TypeOK
<1>4. TypeOK'
  <2>1. changes' \subseteq Pairs /\ changesBackup' \subseteq Pairs /\ gotEvents' \in BOOLEAN
    BY <1>1 DEF TypeOK
  <2> QED BY <1>1, <1>3, <2>1 DEF TypeOK, Registered
<1>5. OrderInv' /\ OwedInv'
  BY <1>1 DEF OrderInv, OwedInv, Registered
<1>6. RefreshInv'
  BY <1>1 DEF RefreshInv, RefreshesDoNotNest
<1>7. KeptInv'
  BY <1>1, <1>2 DEF KeptInv
<1>8. PendingInv'
  BY <1>0, <1>1, <1>2 DEF PendingInv
<1>9. CloseInv'
  BY <1>0, <1>1 DEF CloseInv
<1> QED BY <1>4, <1>5, <1>6, <1>7, <1>8, <1>9

-----------------------------------------------------------------------------
(* The registry.                                                           *)

LEMMA RegisterStep ==
    ASSUME Inv, NEW from \in Registered \cup {NoComponent}, NEW s \in BOOLEAN,
           Register(from, s)
    PROVE  Inv'
<1> USE DEF Inv
<1>0. /\ closing = <<>> /\ nextId \in Id /\ nextId' = nextId + 1
      /\ components' = <<nextId>> \o components
      /\ inSession' \subseteq inSession \cup {nextId}
      /\ opener' = [opener EXCEPT ![nextId] = from]
      /\ UNCHANGED <<watch, changes, changesBackup, gotEvents, owed, late, refreshes,
                     closing, suspends, eventsOff>>
  BY DEF Register, pending, walks
<1>1. /\ components' \in Seq(Id) /\ DOMAIN components' = 1 .. Len(components) + 1
      /\ components'[1] = nextId
      /\ \A i \in 2 .. Len(components) + 1 : components'[i] = components[i - 1]
      /\ Len(components) \in Nat
  <2>1. components \in Seq(Id) /\ <<nextId>> \in Seq(Id) /\ Len(<<nextId>>) = 1
        /\ Len(components) \in Nat
    BY <1>0, Listed
  <2>2. /\ components' \in Seq(Id) /\ Len(components') = 1 + Len(components)
        /\ \A i \in 1 .. 1 + Len(components) :
             components'[i] = IF i <= 1 THEN <<nextId>>[i] ELSE components[i - 1]
    BY <1>0, <2>1, ConcatProperties
  <2> QED BY <2>1, <2>2
<1>2. Registered' = Registered \cup {nextId}
  <2>1. Registered' = {components'[i] : i \in DOMAIN components'}
    BY DEF Registered, Range
  <2>2. \A i \in DOMAIN components :
          i + 1 \in 2 .. Len(components) + 1 /\ components'[i + 1] = components[i]
    BY <1>1, Listed
  <2>3. \A i \in DOMAIN components' : i = 1 \/ i - 1 \in DOMAIN components
    BY <1>1, Listed
  <2>4. Registered \cup {nextId} \subseteq Registered'
    BY <1>1, <2>1, <2>2, Listed, SMTT(30)
  <2>5. Registered' \subseteq Registered \cup {nextId}
    BY <1>1, <2>1, <2>3, Listed
  <2> QED BY <2>4, <2>5
<1>3. \A i, j \in DOMAIN components' : i < j => components'[i] > components'[j]
  <2> SUFFICES ASSUME NEW i \in DOMAIN components', NEW j \in DOMAIN components', i < j
               PROVE  components'[i] > components'[j]
    OBVIOUS
  <2>1. j \in 2 .. Len(components) + 1 /\ j - 1 \in DOMAIN components
        /\ components'[j] = components[j - 1]
    BY <1>1, Listed
  <2>2. CASE i = 1
    BY <1>0, <1>1, <2>1, <2>2, Listed DEF OrderInv, Id
  <2>3. CASE i # 1
    <3>1. i \in 2 .. Len(components) + 1 /\ i - 1 \in DOMAIN components /\ i - 1 < j - 1
          /\ components'[i] = components[i - 1]
      BY <1>1, <2>1, <2>3, Listed
    <3> QED BY <2>1, <3>1 DEF OrderInv
  <2> QED BY <2>2, <2>3
<1>4. TypeOK'
  <2>1. IsInjective(components')
    <3>1. \A i, j \in DOMAIN components' : i \in Int /\ j \in Int
            /\ components'[i] \in Int /\ components'[j] \in Int
      <4>1. Id \subseteq Int
        BY DEF Id
      <4>2. \A i \in DOMAIN components' : i \in Int /\ components'[i] \in Id
        BY <1>1
      <4> QED BY <4>1, <4>2
    <3> QED BY <1>3, <3>1 DEF IsInjective
  <2>2. nextId' \in 1 .. MaxComponents + 1
    BY <1>0, RefreshAssumption DEF Id
  <2>3. opener' \in [Id -> Id \cup {NoComponent}]
    BY <1>0, Listed DEF TypeOK
  <2> QED BY <1>0, <1>1, <1>2, <2>1, <2>2, <2>3 DEF TypeOK
<1>5. OrderInv'
  <2>1. \A c \in Registered' : c < nextId'
    BY <1>0, <1>2, Listed DEF OrderInv, Id
  <2>2. from < nextId
    BY <1>0 DEF OrderInv, NoComponent, Id
  <2>3. \A c \in Id : opener'[c] < c
    BY <1>0, <2>2 DEF OrderInv, TypeOK
  <2> QED BY <1>3, <2>1, <2>3 DEF OrderInv
<1>6. RefreshInv' /\ PendingInv'
  BY <1>0 DEF RefreshInv, RefreshesDoNotNest, PendingInv
<1>7. OwedInv' /\ KeptInv'
  BY <1>0, <1>2 DEF OwedInv, KeptInv, Ahead
<1>8. CloseInv'
  BY <1>0 DEF CloseInv
<1> QED BY <1>4, <1>5, <1>6, <1>7, <1>8

LEMMA StoppedWatching ==
    ASSUME Inv, NEW c \in Id, NEW watched \in SUBSET Pairs, StopsWatching(c, watched)
    PROVE  /\ watch' \in [Id -> SUBSET Pairs] /\ owed' \subseteq owed
           /\ \A o \in owed' : o[2] \in watch'[o[1]]
           /\ watched = {} => \A o \in owed' : o[1] # c
BY DEF StopsWatching, Inv, TypeOK, OwedInv

LEMMA WatchStep ==
    ASSUME Inv, NEW c \in Id, NEW watched \in SUBSET Pairs, StopsWatching(c, watched),
           UNCHANGED <<components, nextId, inSession, opener, changes, changesBackup,
                       gotEvents, late, walks, suspends, eventsOff>>
    PROVE  Inv'
<1> USE DEF Inv
<1>0. UNCHANGED <<refreshes, closing>>
  BY DEF walks
<1>1. TypeOK'
  BY <1>0, StoppedWatching DEF TypeOK, Registered
<1>2. OrderInv' /\ OwedInv'
  BY StoppedWatching DEF OrderInv, OwedInv, Registered
<1>3. RefreshInv' /\ PendingInv'
  BY <1>0, StoppedWatching DEF RefreshInv, RefreshesDoNotNest, PendingInv
<1>4. KeptInv'
  BY <1>0, StoppedWatching DEF KeptInv, Ahead
<1>5. CloseInv'
  BY <1>0 DEF CloseInv, Onward, Registered
<1> QED BY <1>1, <1>2, <1>3, <1>4, <1>5

LEMMA WatchesStep ==
    ASSUME Inv, NEW c \in Id,
           ClearWatches(c) \/ \E key \in Keys, mask \in SUBSET Events : Watch(c, key, mask)
    PROVE  Inv'
<1>1. CASE ClearWatches(c)
  BY <1>1, WatchStep DEF ClearWatches
<1>2. ASSUME NEW key \in Keys, NEW mask \in SUBSET Events, Watch(c, key, mask)
      PROVE  Inv'
  <2> DEFINE watched == {p \in watch[c] : p[1] # key} \cup ({key} \X mask)
  <2>1. watched \in SUBSET Pairs
    BY DEF Inv, TypeOK, Pairs
  <2> QED BY <1>2, <2>1, WatchStep DEF Watch
<1> QED BY <1>1, <1>2

\* What was opened out of component c, directly or not, is not older.
LEMMA OpenedLater ==
    ASSUME Inv, NEW c \in Id, NEW d \in Id, OpenedOutOf(c, d)
    PROVE  d >= c
<1> DEFINE S == {i \in Id : i >= c}
<1>1. S \in SUBSET Id /\ c \in S
  BY DEF Id
<1>2. \A i \in Id : opener[i] \in S => i \in S
  BY DEF Inv, OrderInv, Id
<1>3. d \in S
  BY <1>1, <1>2 DEF OpenedOutOf
<1> QED BY <1>3

\* Under the walk over a session nothing it has yet to come to is freed.
LEMMA CloseFrees ==
    ASSUME Inv, closing # <<>>, NEW c \in Id, Running, MayUnregister(c),
           NEW i \in DOMAIN closing[1].rest
    PROVE  closing[1].rest[i] # c
<1>1. /\ refreshes = <<>> /\ Onward(closing[1])
      /\ Last(closing) = closing[1] /\ closing[1] \in WalkType
  BY OneWalk DEF Inv, CloseInv, TypeOK
<1>2. closing[1].in # NoComponent /\ closing[1].in \in Id /\ OpenedOutOf(closing[1].in, c)
  BY <1>1 DEF Running, Inside, MayUnregister, WalkType
<1>3. closing[1].rest[i] < closing[1].in /\ closing[1].rest[i] \in Registered
  BY <1>1, <1>2 DEF Onward
<1>4. c >= closing[1].in
  BY <1>2, OpenedLater
<1> QED BY <1>2, <1>3, <1>4, Listed DEF Inv, Id

LEMMA UnregisterStep ==
    ASSUME Inv, NEW c \in Id, Unregister(c)
    PROVE  Inv'
<1> USE DEF Inv
<1>0. /\ Running /\ c \in Registered /\ MayUnregister(c) /\ StopsWatching(c, {})
      /\ inSession' = inSession \ {c}
      /\ UNCHANGED <<nextId, opener, changes, changesBackup, gotEvents, late,
                     refreshes, closing, suspends, eventsOff>>
  BY DEF Unregister, walks
<1>1. PICK i \in DOMAIN components :
             components[i] = c /\ components' = RemoveAt(components, i)
  BY DEF Unregister
<1> DEFINE n == Len(components)
<1>2. /\ components' \in Seq(Id) /\ DOMAIN components' = 1 .. n - 1
      /\ DOMAIN components = 1 .. n /\ n \in Nat \ {0} /\ i \in 1 .. n
      /\ \A j \in 1 .. n - 1 : components'[j] = components[IF j < i THEN j ELSE j + 1]
  BY <1>1, Without, Listed
<1>3. /\ watch' \in [Id -> SUBSET Pairs] /\ owed' \subseteq owed
      /\ \A o \in owed' : o[2] \in watch'[o[1]] /\ o[1] # c
  BY <1>0, StoppedWatching
<1> HIDE DEF n
<1>4. \A j \in 1 .. n - 1, k \in 1 .. n - 1 : j < k => components'[j] > components'[k]
  <2> SUFFICES ASSUME NEW j \in 1 .. n - 1, NEW k \in 1 .. n - 1, j < k
               PROVE  components'[j] > components'[k]
    OBVIOUS
  <2> DEFINE jj == IF j < i THEN j ELSE j + 1
             kk == IF k < i THEN k ELSE k + 1
  <2>1. jj \in 1 .. n /\ kk \in 1 .. n /\ jj < kk
    BY <1>2
  <2>2. components'[j] = components[jj] /\ components'[k] = components[kk]
    BY <1>2
  <2> HIDE DEF jj, kk
  <2> QED BY <1>2, <2>1, <2>2 DEF OrderInv
<1>5. Registered' = Registered \ {c}
  <2>0. Registered' = {components'[j] : j \in 1 .. n - 1}
    BY <1>2 DEF Registered, Range
  <2>1. ASSUME NEW d \in Registered, d # c
        PROVE  d \in Registered'
    <3>1. PICK j \in 1 .. n : components[j] = d
      BY <1>2, <2>1, Listed
    <3>2. CASE j < i
      <4>1. j \in 1 .. n - 1 /\ components'[j] = d
        BY <1>2, <3>1, <3>2
      <4> QED BY <2>0, <4>1
    <3>3. CASE j > i
      <4>1. j - 1 \in 1 .. n - 1 /\ ~(j - 1 < i) /\ j - 1 + 1 = j
        BY <1>2, <3>3
      <4>2. components'[j - 1] = d
        BY <1>2, <3>1, <4>1
      <4> QED BY <2>0, <4>1, <4>2
    <3> QED BY <1>1, <1>2, <2>1, <3>1, <3>2, <3>3
  <2>2. ASSUME NEW d \in Registered'
        PROVE  d \in Registered /\ d # c
    <3>1. PICK j \in 1 .. n - 1 : components'[j] = d
      BY <2>0, <2>2
    <3> DEFINE k == IF j < i THEN j ELSE j + 1
    <3>2. k \in 1 .. n /\ k # i /\ d = components[k]
      BY <1>2, <3>1
    <3>3. components[k] # components[i]
      BY <1>2, <3>2 DEF TypeOK, IsInjective
    <3> QED BY <1>1, <1>2, <3>2, <3>3, Listed
  <2> QED BY <2>1, <2>2
<1>6. TypeOK'
  <2>1. IsInjective(components')
    <3>1. \A j \in 1 .. n - 1 : j \in Int /\ components'[j] \in Int
      <4>1. Id \subseteq Int
        BY DEF Id
      <4>2. \A j \in DOMAIN components' : components'[j] \in Id
        BY <1>2
      <4>3. DOMAIN components' = 1 .. n - 1 /\ \A j \in 1 .. n - 1 : j \in Int
        BY <1>2
      <4> QED BY <4>1, <4>2, <4>3
    <3> QED BY <1>2, <1>4, <3>1, SMTT(30) DEF IsInjective
  <2> QED BY <1>0, <1>2, <1>3, <1>5, <2>1 DEF TypeOK
<1>7. OrderInv'
  BY <1>0, <1>2, <1>4, <1>5 DEF OrderInv
<1>8. RefreshInv' /\ PendingInv'
  BY <1>0, <1>3 DEF RefreshInv, RefreshesDoNotNest, PendingInv
<1>9. OwedInv' /\ KeptInv'
  BY <1>0, <1>3, <1>5 DEF OwedInv, KeptInv, Ahead
<1>10. CloseInv'
  <2>1. closing # <<>> => \A j \in DOMAIN closing[1].rest : closing[1].rest[j] # c
    BY <1>0, CloseFrees
  <2> QED BY <1>0, <1>5, <2>1 DEF CloseInv, Onward
<1> QED BY <1>6, <1>7, <1>8, <1>9, <1>10

-----------------------------------------------------------------------------
(* Closing the components of a session.                                    *)

\* Where a registered component is in the list.
LEMMA PlaceOf ==
    ASSUME TypeOK, NEW c \in Registered
    PROVE  Place(c) \in DOMAIN components /\ components[Place(c)] = c
<1>1. \E i \in DOMAIN components : components[i] = c
  BY Listed
<1> QED BY <1>1 DEF Place

LEMMA SessionList ==
    ASSUME Inv, NEW ids \in SetToSeqs(inSession), InListOrder(ids)
    PROVE  /\ ids \in Seq(Id)
           /\ \A i \in DOMAIN ids : ids[i] \in Registered
           /\ \A i, j \in DOMAIN ids : i < j => ids[i] > ids[j]
<1> USE DEF Inv
<1>1. /\ inSession \subseteq Registered /\ Registered \subseteq Id
      /\ IsFiniteSet(inSession) /\ Cardinality(inSession) \in Nat
  <2>1. inSession \subseteq Id /\ inSession \subseteq Registered /\ Registered \subseteq Id
    BY Listed DEF TypeOK
  <2>2. IsFiniteSet(Id)
    BY FS_Interval, RefreshAssumption DEF Id
  <2> QED BY <2>1, <2>2, FS_Subset, FS_CardinalityType
<1>2. ids \in [1 .. Cardinality(inSession) -> inSession]
  BY DEF SetToSeqs
<1>3. ids \in Seq(Id) /\ DOMAIN ids = 1 .. Cardinality(inSession)
      /\ \A i \in DOMAIN ids : ids[i] \in Registered
  BY <1>1, <1>2
<1>4. ASSUME NEW i \in DOMAIN ids, NEW j \in DOMAIN ids, i < j
      PROVE  ids[i] > ids[j]
  <2>1. Place(ids[i]) < Place(ids[j])
    BY <1>4 DEF InListOrder
  <2>2. /\ Place(ids[i]) \in DOMAIN components /\ components[Place(ids[i])] = ids[i]
        /\ Place(ids[j]) \in DOMAIN components /\ components[Place(ids[j])] = ids[j]
    BY <1>3, PlaceOf
  <2> QED BY <2>1, <2>2 DEF OrderInv
<1> QED BY <1>3, <1>4

\* Steps of the walk over a session.
LEMMA ClosingStep ==
    ASSUME Inv, UNCHANGED <<registry, pending, refreshes, suspends>>,
           eventsOff' \in BOOLEAN, closing' \in Seq(WalkType), CloseInv'
    PROVE  Inv'
<1> USE DEF Inv
<1>0. UNCHANGED <<components, nextId, watch, inSession, opener, changes, changesBackup,
                  gotEvents, owed, late, refreshes, suspends>>
  BY DEF registry, pending
<1>1. TypeOK'
  BY <1>0 DEF TypeOK, Registered
<1>2. OrderInv' /\ OwedInv'
  BY <1>0 DEF OrderInv, OwedInv, Registered
<1>3. RefreshInv' /\ PendingInv'
  BY <1>0 DEF RefreshInv, RefreshesDoNotNest, PendingInv
<1>4. KeptInv'
  BY <1>0 DEF KeptInv, Ahead
<1> QED BY <1>1, <1>2, <1>3, <1>4

LEMMA CloseSessionStep ==
    ASSUME Inv, CloseSession
    PROVE  Inv'
<1> USE DEF Inv
<1>0. /\ refreshes = <<>> /\ closing = <<>> /\ eventsOff' = TRUE /\ ~gotEvents
      /\ UNCHANGED <<components, gotEvents, refreshes>>
  BY DEF CloseSession, RefreshInv, registry, pending
<1>1. PICK ids \in SetToSeqs(inSession) :
             InListOrder(ids) /\ closing' = <<Walk(ids, FALSE)>>
  BY DEF CloseSession, NewestFirst
<1>2. /\ ids \in Seq(Id)
      /\ \A i \in DOMAIN ids : ids[i] \in Registered
      /\ \A i, j \in DOMAIN ids : i < j => ids[i] > ids[j]
  BY <1>1, SessionList
<1>3. /\ closing' \in Seq(WalkType) /\ Len(closing') = 1
      /\ closing'[1].rest = ids /\ closing'[1].in = NoComponent
  <2>1. FALSE \in BOOLEAN
    OBVIOUS
  <2> QED BY <1>0, <1>1, <1>2, <2>1, NewWalk
<1>4. CloseInv'
  BY <1>0, <1>2, <1>3 DEF CloseInv, Onward, Registered
<1> QED BY <1>0, <1>3, <1>4, ClosingStep DEF CloseSession

LEMMA CloseWalkStep ==
    ASSUME Inv, CallClose \/ CloseReturn \/ EndClose
    PROVE  Inv'
<1> USE DEF Inv
<1>0. /\ closing \in Seq(WalkType) /\ Len(closing) <= 1 /\ closing # <<>>
      /\ refreshes = <<>> /\ UNCHANGED <<registry, pending, refreshes, suspends>>
      /\ UNCHANGED <<components, gotEvents, refreshes>>
      /\ ~gotEvents /\ eventsOff /\ Onward(closing[1])
  BY DEF CallClose, CloseReturn, EndClose, CloseInv, TypeOK, registry, pending
<1>1. Len(closing) = 1 /\ closing[1] \in WalkType /\ Last(closing) = closing[1]
      /\ Front(closing) = <<>> /\ closing[1].rest \in Seq(Id)
  BY <1>0, OneWalk DEF WalkType
<1>2. CASE CallClose
  <2> DEFINE s == closing[1].rest
  <2>1. /\ s # <<>> /\ s \in Seq(Id) /\ closing' = Enter(closing, Head(s)) /\ eventsOff' = eventsOff
    BY <1>1, <1>2 DEF CallClose
  <2>2. /\ Head(s) = s[1] /\ Head(s) \in Id /\ 1 \in DOMAIN s
        /\ DOMAIN Tail(s) = 1 .. Len(s) - 1 /\ DOMAIN s = 1 .. Len(s) /\ Len(s) \in Nat \ {0}
        /\ \A i \in 1 .. Len(s) - 1 : Tail(s)[i] = s[i + 1]
    BY <2>1, TailOf
  <2>3. Head(s) \in Id \cup {NoComponent}
    BY <2>2
  <2>4. /\ closing' \in Seq(WalkType) /\ Len(closing') = 1
        /\ closing'[1].rest = Tail(s) /\ closing'[1].in = Head(s)
    BY <1>0, <2>1, <2>3, EnterWalk
  <2>5. \A i, j \in DOMAIN s : i < j => s[i] > s[j]
    BY <1>0 DEF Onward
  <2>6. \A i \in DOMAIN s : s[i] \in Registered
    BY <1>0 DEF Onward
  <2> HIDE DEF s
  <2>7. \A i \in DOMAIN Tail(s) : i + 1 \in DOMAIN s /\ Tail(s)[i] = s[i + 1]
                                  /\ s[i + 1] < s[1] /\ i \in Int
    <3> SUFFICES ASSUME NEW i \in 1 .. Len(s) - 1
                 PROVE  i + 1 \in DOMAIN s /\ Tail(s)[i] = s[i + 1]
                        /\ s[i + 1] < s[1] /\ i \in Int
      BY <2>2
    <3>1. i + 1 \in DOMAIN s /\ 1 < i + 1 /\ Tail(s)[i] = s[i + 1]
      BY <2>2
    <3>2. s[1] > s[i + 1] /\ s[1] \in Id /\ s[i + 1] \in Id
      BY <2>1, <2>2, <2>5, <3>1
    <3> QED BY <3>1, <3>2 DEF Id
  <2>8. \A i, j \in DOMAIN Tail(s) : i < j => Tail(s)[i] > Tail(s)[j]
    BY <2>5, <2>7
  <2>9. Onward(closing[1])'
    BY <1>0, <2>2, <2>4, <2>6, <2>7, <2>8 DEF Onward, Registered
  <2>10. CloseInv'
    BY <1>0, <2>1, <2>4, <2>9 DEF CloseInv
  <2> QED BY <1>0, <2>1, <2>4, <2>10, ClosingStep
<1>3. CASE CloseReturn
  <2>1. closing' = Leave(closing) /\ eventsOff' = eventsOff
    BY <1>3 DEF CloseReturn
  <2>2. /\ closing' \in Seq(WalkType) /\ Len(closing') = 1
        /\ closing'[1].rest = closing[1].rest /\ closing'[1].in = NoComponent
    BY <1>0, <2>1, LeaveWalk
  <2>3. CloseInv'
    BY <1>0, <2>1, <2>2 DEF CloseInv, Onward, Registered
  <2> QED BY <1>0, <2>1, <2>2, <2>3, ClosingStep
<1>4. CASE EndClose
  <2>1. closing' = <<>> /\ eventsOff' = FALSE
    BY <1>1, <1>4 DEF EndClose
  <2>2. CloseInv' /\ closing' \in Seq(WalkType)
    BY <2>1 DEF CloseInv
  <2> QED BY <1>0, <2>1, <2>2, ClosingStep
<1> QED BY <1>2, <1>3, <1>4

-----------------------------------------------------------------------------
(* The theorems.                                                           *)

LEMMA InitInv == Init => Inv
<1> SUFFICES ASSUME Init
             PROVE  Inv
  OBVIOUS
<1>1. TypeOK
  <2>1. /\ 1 \in 1 .. MaxComponents + 1 /\ <<>> \in Seq(Id) /\ <<>> \in Seq(WalkType)
        /\ DOMAIN <<>> = {} /\ Len(<<>>) = 0
    BY RefreshAssumption
  <2>2. /\ components = <<>> /\ nextId = 1 /\ inSession = {} /\ suspends = 0
        /\ refreshes = <<>> /\ closing = <<>> /\ changes = {} /\ changesBackup = {}
        /\ owed = {} /\ late = {} /\ gotEvents = FALSE /\ eventsOff = FALSE
    BY DEF Init
  <2>3. watch \in [Id -> SUBSET Pairs] /\ opener \in [Id -> Id \cup {NoComponent}]
    BY DEF Init
  <2>4. IsInjective(components)
    BY <2>1, <2>2 DEF IsInjective
  <2>5. /\ components \in Seq(Id) /\ nextId \in 1 .. MaxComponents + 1
        /\ suspends \in Nat /\ suspends >= Len(refreshes)
        /\ refreshes \in Seq(WalkType) /\ closing \in Seq(WalkType)
    BY <2>1, <2>2
  <2>6. /\ inSession \subseteq Registered /\ changes \subseteq Pairs
        /\ changesBackup \subseteq Pairs /\ owed \subseteq Id \X Pairs /\ late \subseteq Pairs
    BY <2>2
  <2>7. gotEvents \in BOOLEAN /\ eventsOff \in BOOLEAN
    BY <2>2
  <2> QED BY <2>3, <2>4, <2>5, <2>6, <2>7 DEF TypeOK
<1>2. OrderInv
  BY DEF Init, OrderInv, Registered, Range, Id, NoComponent
<1>3. RefreshInv /\ PendingInv /\ CloseInv
  BY DEF Init, RefreshInv, RefreshesDoNotNest, PendingInv, CloseInv
<1>4. OwedInv /\ KeptInv
  BY DEF Init, OwedInv, KeptInv
<1> QED BY <1>1, <1>2, <1>3, <1>4 DEF Inv

LEMMA NextInv == Inv /\ [Next]_vars => Inv'
<1> SUFFICES ASSUME Inv, [Next]_vars
             PROVE  Inv'
  OBVIOUS
<1>1. CASE \E e \in Entities, event \in Events : Event(e, event)
  BY <1>1, EventStep
<1>2. CASE Suspend
  BY <1>2, SuspendStep
<1>3. CASE Resume
  BY <1>3, ResumeStep
<1>4. CASE RefreshAll
  BY <1>4, RefreshAllStep
<1>5. CASE Visit
  BY <1>5, VisitStep
<1>6. CASE Return
  BY <1>6, ReturnStep
<1>7. CASE EndRefresh
  BY <1>7, EndRefreshStep
<1>8. CASE \E from \in Registered \cup {NoComponent}, s \in BOOLEAN : Register(from, s)
  BY <1>8, RegisterStep
<1>9. CASE \E c \in Id :
              \/ \E key \in Keys, mask \in SUBSET Events : Watch(c, key, mask)
              \/ ClearWatches(c) \/ Unregister(c)
  BY <1>9, WatchesStep, UnregisterStep
<1>10. CASE CloseSession
  BY <1>10, CloseSessionStep
<1>11. CASE CallClose \/ CloseReturn \/ EndClose
  BY <1>11, CloseWalkStep
<1>12. CASE UNCHANGED vars
  <2>1. UNCHANGED <<registry, pending, walks, suspends, eventsOff>>
    BY <1>12 DEF vars
  <2>2. suspends' \in Nat /\ suspends' >= Len(refreshes) /\ (gotEvents => suspends' > 0)
    BY <2>1 DEF Inv, TypeOK, RefreshInv
  <2> QED BY <2>1, <2>2, CountStep
<1> QED BY <1>1, <1>2, <1>3, <1>4, <1>5, <1>6, <1>7, <1>8, <1>9, <1>10, <1>11, <1>12 DEF Next

\* The inductive invariant: what is owed to a component is collected or still
\* ahead of the one refresh there is (gnc_gui_refresh_internal), and what a walk
\* has yet to visit is older than the component whose handler it called.
THEOREM Invariant == Spec => []Inv
<1>1. Init => Inv
  BY InitInv
<1>2. Inv /\ [Next]_vars => Inv'
  BY NextInv
<1> QED BY <1>1, <1>2, PTL DEF Spec

\* The values of the variables; refreshes are suspended while one is in progress
\* (gnc-component-manager.c).
THEOREM TypeCorrect == Spec => []TypeOK
BY Invariant, PTL DEF Inv

\* No refresh starts inside another, and a change that a component watches is
\* collected, or the refresh in progress has yet to come to it
\* (gnc_gui_refresh_internal, gnc_cm_event_handler).
THEOREM NoneIsForgotten == Spec => []NothingForgotten
<1>1. Inv => NothingForgotten
  <2> SUFFICES ASSUME Inv
               PROVE  NothingForgotten
    OBVIOUS
  <2>1. refreshes # <<>> => DOMAIN refreshes = {1}
    BY OneWalk DEF Inv, TypeOK, RefreshInv, RefreshesDoNotNest
  <2>2. \A c : Ahead(c) => \E i \in DOMAIN refreshes : c \in Range(refreshes[i].rest)
    BY <2>1 DEF Ahead, Range
  <2> QED BY <2>2 DEF Inv, RefreshInv, KeptInv, NothingForgotten
<1> QED BY <1>1, Invariant, PTL

\* When the counter is zero, all has been delivered but for what was raised in
\* the middle of a refresh (gnc_resume_gui_refresh).
THEOREM AllIsDelivered == Spec => []DeliveredUnlessLate
<1>1. Inv => DeliveredUnlessLate
  <2> SUFFICES ASSUME Inv, suspends = 0
               PROVE  \A o \in owed : o[2] \in late
    BY DEF DeliveredUnlessLate
  <2>1. refreshes = <<>> /\ ~gotEvents
    BY DEF Inv, TypeOK, RefreshInv
  <2> QED BY <2>1 DEF Inv, PendingInv
<1> QED BY <1>1, Invariant, PTL

\* The walk over the components of a session never comes to one that was freed
\* in its course (gnc_close_gui_component_by_session).
THEOREM ClosedAreLive == Spec => []ClosingFollowsLive
<1>1. Inv => ClosingFollowsLive
  <2> SUFFICES ASSUME Inv
               PROVE  ClosingFollowsLive
    OBVIOUS
  <2>1. closing # <<>> => DOMAIN closing = {1}
    BY OneWalk DEF Inv, TypeOK, CloseInv
  <2>2. closing = <<>> => DOMAIN closing = {}
    OBVIOUS
  <2> QED BY <2>1, <2>2 DEF Inv, CloseInv, Onward, ClosingFollowsLive, Range
<1> QED BY <1>1, Invariant, PTL
=============================================================================
