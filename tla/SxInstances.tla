----------------------------- MODULE SxInstances -----------------------------
(***************************************************************************)
(* A scheduled transaction and the "Since Last Run" dialogs that create    *)
(* its occurrences: app-utils/gnc-sx-instance-model.c, with what it uses   *)
(* of engine/SchedXaction.cpp and gnome/dialog-sx-since-last-run.c.        *)
(*                                                                         *)
(* The schedule keeps the date up to which it was worked off, counters,    *)
(* and the postponed occurrences.  A dialog makes a list of instances out  *)
(* of that ("model"), the user decides on each, and OK puts the decisions  *)
(* into effect and the result back into the schedule.  The dialogs are not *)
(* modal: two may be open, the schedule may be edited meanwhile, and every *)
(* change of it is announced to them and merged into their lists.          *)
(*                                                                         *)
(* A day is an occurrence: dates are 1, 2, ... in order, and 0 is before   *)
(* the start.                                                              *)
(***************************************************************************)
EXTENDS Integers, Sequences, FiniteSets, SequencesExt, FiniteSetsExt

CONSTANTS
    Dialogs,       \* the dialogs that may be open
    Total,         \* num_occurances_total; 0: no such limit
    Remind,        \* advanceRemindDays
    Database,      \* whether the book is in a database, not in a file
    MaxDate,       \* bound: today
    MaxFailures,   \* bound: creations that fail
    MaxChanges,    \* bound: decisions of the user
    MaxDeferred    \* bound: postponed occurrences

ASSUME SxAssumption ==
    /\ Database \in BOOLEAN
    /\ {Total, Remind, MaxFailures, MaxChanges, MaxDeferred} \subseteq Nat
    /\ MaxDate \in Nat \ {0}

VARIABLES
    today,
    sx,        \* the SchedXaction
    model,     \* model[m]: the GncSxInstanceModel of dialog m
    failures,  \* creations that failed
    changes,   \* decisions of the user
    made,      \* history: made[d], transactions created for date d
    ignored,   \* history: dates that the user has ignored
    failed,    \* history: dates for which an error was reported
    withdrawn, \* history: postponed dates that were made reminders again
    exposed    \* history: dates that are listed again after they were worked
               \* off, or were postponed while another dialog was open

history == <<made, ignored, failed, withdrawn, exposed>>
vars == <<today, sx, model, failures, changes, history>>

Dates == 1 .. MaxDate + Remind
States == {"IGNORED", "POSTPONED", "TO_CREATE", "REMINDER", "CREATED"}

\* SXTmpStateData: the schedule as it is before some occurrence.
Temporal == [last : Nat, rem : Nat, num : Nat]
Date(inst) == inst.tsd.last + 1

\* A model that is not open has no list.
Closed == [open |-> FALSE, end |-> 0, listed |-> FALSE, list |-> <<>>]

Init ==
    /\ today = 1
    /\ sx \in [last : {0}, count : {1}, remain : {Total}, deferred : {<<>>},
               auto : BOOLEAN, enabled : {TRUE}]
    /\ model = [m \in Dialogs |-> Closed]
    /\ failures = 0 /\ changes = 0
    /\ made = [d \in Dates |-> 0]
    /\ ignored = {} /\ failed = {} /\ withdrawn = {} /\ exposed = {}

-----------------------------------------------------------------------------
(* The list of instances.                                                  *)

\* gnc_sx_incr_temporal_state, n times.
After(t, n) ==
    [last |-> t.last + n, num |-> t.num + n,
     rem |-> IF Total = 0 THEN t.rem ELSE t.rem - n]

Instance(t, state) == [tsd |-> t, orig |-> state, state |-> state]

\* _gnc_sx_gen_instances: the postponed ones, and then what comes after the
\* last of those.
Start(s) ==
    IF s.deferred # <<>> THEN After(Last(s.deferred), 1)
    ELSE [last |-> s.last, rem |-> s.remain, num |-> s.count]

Generate(s, end) ==
    LET start == Start(s)
        due == Max({0, end + Remind - start.last})
        left == IF Total = 0 THEN due ELSE Min({due, start.rem})
        State(t) == IF t.last + 1 <= end THEN "TO_CREATE" ELSE "REMINDER"
    IN  [i \in DOMAIN s.deferred |-> Instance(s.deferred[i], "POSTPONED")]
        \o [i \in 1 .. left |->
               LET t == After(start, i - 1) IN Instance(t, State(t))]

\* gnc_sx_instance_model_update_sx_instances: as many of the old instances stay
\* as have the same dates as the new ones.
Merge(old, new) ==
    LET Same(k) == k <= Len(old) /\ k <= Len(new)
                   /\ \A i \in 1 .. k : Date(old[i]) = Date(new[i])
        kept == Max({k \in 0 .. Len(new) : Same(k)})
    IN  SubSeq(old, 1, kept) \o SubSeq(new, kept + 1, Len(new))

\* _gnc_sx_instance_event_handler, and the dialog's handlers of its signals:
\* the schedule has become s.
MutTold(m, s) ==
    IF ~m.open THEN m
    ELSE [m EXCEPT !.listed = s.enabled,
                   !.list = IF s.enabled THEN @ ELSE <<>>]
Told(m, s) ==
    IF ~m.open THEN m
    ELSE [m EXCEPT !.listed = s.enabled,
                   !.list = IF ~s.enabled THEN <<>>
                            ELSE IF m.listed THEN Merge(@, Generate(s, m.end))
                            ELSE Generate(s, m.end)]

-----------------------------------------------------------------------------
(* gnc_sx_instance_model_change_instance_state.                            *)

\* Reminders before an instance that is not one are postponed; after an instance
\* that is one there are only reminders.
MutChanged(list, i, state) == [list EXCEPT ![i].state = state]
Changed(list, i, state) ==
    [j \in DOMAIN list |->
        [list[j] EXCEPT !.state =
            IF j = i THEN state
            ELSE IF state = "REMINDER" THEN (IF j > i THEN "REMINDER" ELSE @)
            ELSE IF j < i /\ @ = "REMINDER" THEN "POSTPONED" ELSE @]]

\* The user changes the state of an instance in the dialog, which then updates
\* the list.
ChangeState(m, i, state) ==
    /\ model[m].open /\ i \in DOMAIN model[m].list
    /\ model[m].list[i].state \notin {state, "CREATED"}
    /\ changes < MaxChanges /\ changes' = changes + 1
    /\ model' = [model EXCEPT ![m].list =
                    Merge(Changed(@, i, state), Generate(sx, model[m].end))]
    /\ UNCHANGED <<today, sx, failures, history>>

-----------------------------------------------------------------------------
(* gnc_sx_instance_model_effect_change.                                    *)

\* gnc_sx_add_defer_instance and gnc_sx_remove_defer_instance.
Postpone(deferred, t) ==
    LET later == {i \in DOMAIN deferred : deferred[i].last >= t.last}
    IN  InsertAt(deferred, Min(later \cup {Len(deferred) + 1}), t)

Resolve(deferred, t) ==
    LET found == {i \in DOMAIN deferred : deferred[i].last = t.last}
    IN  IF found = {} THEN deferred ELSE RemoveAt(deferred, Min(found))

\* increment_sx_state.
MutCounted(run, inst) ==
    [run EXCEPT !.last = Max({@, Date(inst)}),
                !.count = inst.tsd.num + 1, !.remain = @ - 1]
Counted(run, inst) ==
    [run EXCEPT !.last = Max({@, Date(inst)}),
                !.count = inst.tsd.num + 1,
                !.remain = IF @ > 0 THEN @ - 1 ELSE @]

\* What may come of a creation: "ok"; "refused", a split without an account
\* and no transaction; "flawed", an error in a formula and a transaction.
Outcomes == {"ok", "refused", "flawed"}

Made(run, inst) == [run EXCEPT !.made[Date(inst)] = Min({@ + 1, 2})]

\* One instance of the list, the i-th.
MutUnpostpone(inst) == inst.orig = "POSTPONED"
Unpostpone(inst) == inst.orig = "POSTPONED" /\ inst.state # "POSTPONED"

Effected(run, i, outcome) ==
    LET inst == run.list[i]
        then == IF Unpostpone(inst)
                THEN [run EXCEPT !.deferred = Resolve(@, inst.tsd)] ELSE run
    IN  CASE inst.state = "IGNORED" ->
                Counted([then EXCEPT !.ignored = @ \cup {Date(inst)}], inst)
          [] inst.state = "POSTPONED" ->
                Counted([then EXCEPT !.deferred =
                    IF inst.orig = "POSTPONED" THEN @ ELSE Postpone(@, inst.tsd)],
                    inst)
          [] inst.state = "TO_CREATE" ->
                IF outcome[i] = "ok"
                THEN [Made(Counted(then, inst), inst) EXCEPT
                         !.list = Changed(@, i, "CREATED")]
                ELSE [IF outcome[i] = "flawed" THEN Made(then, inst) ELSE then EXCEPT
                         !.failed = @ \cup {Date(inst)}, !.failures = @ + 1]
          [] inst.state = "REMINDER" /\ Unpostpone(inst) ->
                [then EXCEPT !.withdrawn = @ \cup {Date(inst)}]
          [] OTHER -> then

\* The pass over the list of a model, and what may come of the creations.
Before(list) ==
    [list |-> list, deferred |-> sx.deferred, last |-> sx.last,
     count |-> sx.count, remain |-> sx.remain, failures |-> failures,
     made |-> made, ignored |-> ignored, failed |-> failed,
     withdrawn |-> withdrawn]

Pass(list, outcome) ==
    LET run[i \in 0 .. Len(list)] ==
            IF i = 0 THEN Before(list) ELSE Effected(run[i - 1], i, outcome)
    IN  run[Len(list)]

Passes(list) ==
    {Pass(list, outcome) :
        outcome \in [{i \in DOMAIN list : list[i].state = "TO_CREATE"} -> Outcomes]}

\* The pass is over: the schedule is set, one field after the other, and each
\* change is announced to the other dialogs; that of m does not listen now, and
\* its model becomes `after`.  A change of the postponed ones is not announced.
Tell(other, old, new) == IF new = old THEN other ELSE Told(other, new)

Effect(m, run, after) ==
    LET s0 == [sx EXCEPT !.deferred = run.deferred]
        s1 == [s0 EXCEPT !.last = run.last]
        s2 == [s1 EXCEPT !.count = run.count]
        s3 == [s2 EXCEPT !.remain = run.remain]
    IN  /\ run.failures <= MaxFailures /\ Len(run.deferred) <= MaxDeferred
        /\ sx' = s3 /\ failures' = run.failures
        /\ made' = run.made /\ ignored' = run.ignored /\ failed' = run.failed
        /\ withdrawn' = run.withdrawn
        /\ exposed' = exposed \cup
               (Start(s3).last + 1 .. run.last) \cup
               {t.last + 1 : t \in {u \in Range(run.deferred) :
                    \E other \in Dialogs \ {m} : model[other].open}}
        /\ model' = [d \in Dialogs |->
               IF d = m THEN after
               ELSE Tell(Tell(Tell(model[d], s0, s1), s1, s2), s2, s3)]

-----------------------------------------------------------------------------
(* The dialogs and the schedule.                                           *)

\* gnc_sx_instance_model_summarize: need_dialog is set, unless all instances are
\* created automatically and the user does not want to be notified.
Needed(list) ==
    list # <<>> /\ (sx.auto => \E i \in DOMAIN list : list[i].state # "TO_CREATE")

\* gnc_main_window_cmd_actions_since_last_run and gnc_sx_sxsincelast_book_opened:
\* a schedule that creates its transactions by itself does so at once, and the
\* dialog is opened if it or another schedule needs it.
SinceLastRun(m) ==
    LET list == IF sx.enabled THEN Generate(sx, today) ELSE <<>>
        now == IF sx.auto THEN list ELSE <<>>
    IN  /\ ~model[m].open
        /\ \E run \in Passes(now), shown \in BOOLEAN :
             /\ Needed(list) => shown
             /\ Effect(m, run, IF ~shown THEN Closed
                    ELSE [open |-> TRUE, end |-> today, listed |-> sx.enabled,
                          list |-> IF sx.auto THEN run.list ELSE list])
        /\ UNCHANGED <<today, changes>>

\* dialog_response_cb: OK ...
Ok(m) ==
    /\ model[m].open
    /\ \E run \in Passes(model[m].list) : Effect(m, run, Closed)
    /\ UNCHANGED <<today, changes>>

\* ... and Cancel.
Cancel(m) ==
    /\ model[m].open
    /\ model' = [model EXCEPT ![m] = Closed]
    /\ UNCHANGED <<today, sx, failures, changes, history>>

\* The editor of schedules: xaccSchedXactionSetEnabled and
\* xaccSchedXactionSetAutoCreate, which announce what is no change too.
Set(s) ==
    /\ sx' = s
    /\ model' = [m \in Dialogs |-> Told(model[m], s)]
    /\ UNCHANGED <<today, failures, changes, history>>

SetEnabled(value) == Set([sx EXCEPT !.enabled = value])
SetAutoCreate(value) == Set([sx EXCEPT !.auto = value])

\* The book is saved, closed and opened again.  A database has no table for the
\* postponed occurrences.
Reopen ==
    /\ sx' = [sx EXCEPT !.deferred = IF Database THEN <<>> ELSE @]
    /\ model' = [m \in Dialogs |-> Closed]
    /\ UNCHANGED <<today, failures, changes, history>>

Tomorrow ==
    /\ today < MaxDate /\ today' = today + 1
    /\ UNCHANGED <<sx, model, failures, changes, history>>

Next ==
    \/ \E m \in Dialogs :
           \/ SinceLastRun(m) \/ Ok(m) \/ Cancel(m)
           \/ \E i \in Dates, state \in States \ {"CREATED"} : ChangeState(m, i, state)
    \/ \E value \in BOOLEAN : SetEnabled(value) \/ SetAutoCreate(value)
    \/ Reopen \/ Tomorrow

Spec == Init /\ [][Next]_vars

-----------------------------------------------------------------------------
(* Properties.                                                             *)

InstanceType == [tsd : Temporal, orig : States, state : States]

TypeOK ==
    /\ today \in 1 .. MaxDate /\ failures \in 0 .. MaxFailures
    /\ changes \in 0 .. MaxChanges
    /\ sx \in [last : Dates \cup {0}, count : Nat, remain : 0 .. Total,
               deferred : Seq(Temporal), auto : BOOLEAN, enabled : BOOLEAN]
    /\ \A m \in Dialogs :
         /\ model[m] \in [open : BOOLEAN, end : 0 .. MaxDate, listed : BOOLEAN,
                          list : Seq(InstanceType)]
         /\ \A i \in DOMAIN model[m].list : Date(model[m].list[i]) \in Dates
    /\ made \in [Dates -> 0 .. 2]
    /\ {ignored, failed, withdrawn, exposed} \subseteq SUBSET Dates

\* "A reminder can never be before any other (modeled) instance type"
\* (gnc-sx-instance-model.h): also after a list has been merged with what became
\* of the schedule, if the list has no exposed date.  (With one, it does not hold:
\* one dialog postpones an occurrence that the other shows as a reminder, and one
\* after it.)
RemindersLastUnlessExposed ==
    \A m \in Dialogs :
        LET list == model[m].list IN
        (\A i \in DOMAIN list : Date(list[i]) \notin exposed) =>
            \A i, j \in DOMAIN list :
                i < j /\ list[i].state = "REMINDER" => list[j].state = "REMINDER"

\* "Will be lost/skipped over" (gnc-sx-instance-model.h) is what the order of the
\* list is there to prevent: every occurrence up to the one the schedule was
\* worked off to was created or ignored, or is postponed, or an error was shown
\* for it.  The code does not keep that promise: a postponed occurrence that is
\* made a reminder again leaves the postponed ones, and no list has it anymore.
NoneForgotten ==
    \A d \in 1 .. sx.last :
        \/ made[d] > 0 \/ d \in ignored \cup failed
        \/ \E i \in DOMAIN sx.deferred : sx.deferred[i].last + 1 = d

\* The same but for those, where the number of occurrences is not limited: also
\* with two dialogs that work on the same schedule, and when the schedule changes
\* under them.  (With a limit it does not hold: what stays postponed is counted
\* off it at every pass, so that one list ends earlier than another.)
NoneForgottenUnlessWithdrawn ==
    \A d \in 1 .. sx.last :
        \/ made[d] > 0 \/ d \in ignored \cup failed \cup withdrawn
        \/ \E i \in DOMAIN sx.deferred : sx.deferred[i].last + 1 = d

\* "The last-created state and a list of postponed instances are modeled"
\* (gnc-sx-instance-model.h), so that what was created is not created again.
\* The code does not keep that promise.
CreatedOnce == \A d \in Dates : made[d] <= 1

\* The same but for occurrences that are listed again because an earlier one is
\* postponed, that one of two dialogs has postponed, or that had an error.
CreatedOnceUnlessExposed ==
    \A d \in Dates : made[d] <= 1 \/ d \in exposed \cup failed

\* "Remaining occurrences are as-of the 'last_date'" (engine/SchedXaction.h).
\* The code does not keep that promise either (see the README): no run checks it.
RemainAsOfLast == Total > 0 => sx.remain + sx.last = Total
=============================================================================
