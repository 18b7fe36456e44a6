------------------------------ MODULE Incidents ------------------------------
(***************************************************************************)
(* Threshold and service incidents: how the poller opens, announces,       *)
(* escalates, resolves and prunes them while operators acknowledge, snooze *)
(* and mute, change rules and open maintenance windows.                    *)
(*                                                                         *)
(* An alert is a (server, kind) pair: a metric over its threshold or a     *)
(* service that is not healthy.  The poller's loop is one goroutine: a     *)
(* pass evaluates every alert (the servers in parallel), waits for them,   *)
(* sweeps the incidents that are due for escalation, and sleeps until the  *)
(* ticker fires.  The notes are rows of the notifications table; breach is *)
(* only in the poller's memory.                                            *)
(***************************************************************************)
EXTENDS Naturals

CONSTANTS
    Alerts,         \* (server, kind) pairs
    Duration,       \* ticks a reading must stay high, a rule's duration_seconds
    EscalateAfter,  \* age at which an incident nobody acknowledged escalates
    Retention,      \* age past which a resolved note may be pruned
    MaxSnooze,      \* bound: the longest snooze
    MaxNotes,       \* bound: notifications in a behaviour
    MaxOps,         \* bound: operator requests
    MaxFaults       \* bound: changes of a reading, restarts of the manager

Ids == 1..MaxNotes
None == 0
\* Ages stop growing once nothing the code compares them with can tell.
MaxAge == Retention + EscalateAfter + 1

ASSUME IncidentsAssumption ==
    /\ Duration \in Nat /\ EscalateAfter \in Nat /\ Retention \in Nat
    /\ MaxSnooze \in Nat /\ MaxNotes \in Nat /\ MaxOps \in Nat /\ MaxFaults \in Nat

VARIABLES
    reading,  \* what the panel reports: "high", "normal" or nothing
    polled,   \* alerts whose server is neither disabled nor removed
    rule,     \* alerts whose rule is enabled
    muted,    \* alerts an operator muted
    window,   \* alerts whose server a maintenance window covers
    notes,    \* the notifications table
    issued,   \* notifications created so far
    breach,   \* breachSince: ticks since an alert was first seen high, 0 for none
    pass,     \* the poller's loop
    work,     \* what the pass does next for each alert
    due,      \* the incidents the escalation sweep has still to handle
    marking,  \* the one it has sent and not yet marked
    told,     \* history: the last event the channels got for each alert
    sent,     \* history: escalations sent per note
    handled,  \* history: notes acknowledged or resolved outside a sweep
    hush,     \* history: alerts silenced before the pass could pass its gate
    lost,     \* history: sends the restart of the manager left unmarked
    ops, faults

table  == <<notes, issued>>
config == <<polled, rule, muted, window>>
history == <<told, sent, handled, hush, lost>>
poller == <<breach, pass, work, due, marking>>
vars == <<reading, config, table, poller, history, ops, faults>>

-----------------------------------------------------------------------------
Note == [alert : Alerts, age : 0..MaxAge, resolved : BOOLEAN, acked : BOOLEAN,
         escalated : BOOLEAN, snoozed : 0..(MaxSnooze + 1)]
NoNote == [alert |-> "none"]

Steps == {"measure", "gate", "open", "tell down", "resolve", "tell recovered", "done"}

TypeOK ==
    /\ reading \in [Alerts -> {"high", "normal", "missing"}]
    /\ polled \subseteq Alerts /\ rule \subseteq Alerts
    /\ muted \subseteq Alerts /\ window \subseteq Alerts
    /\ notes \in [Ids -> Note \cup {NoNote}]
    /\ issued \in 0..MaxNotes
    /\ breach \in [Alerts -> 0..(Duration + 1)]
    /\ pass \in {"waiting", "due", "polling", "sweeping"}
    /\ work \in [Alerts -> Steps]
    /\ due \subseteq Ids
    /\ marking \in Ids \cup {None}
    /\ told \in [Alerts -> {"nothing", "down", "recovered"}]
    /\ sent \in [Ids -> Nat]
    /\ handled \subseteq Ids
    /\ hush \subseteq Alerts
    /\ lost \in Nat
    /\ ops \in 0..MaxOps
    /\ faults \in 0..MaxFaults

-----------------------------------------------------------------------------
(* The notifications table *)

\* A row, pruned or not, whose resolved_at is NULL.
IsOpen(i) == notes[i] # NoNote /\ ~notes[i].resolved
OpenNotes(a) == {i \in Ids : IsOpen(i) /\ notes[i].alert = a}

ActiveExists(a) == OpenNotes(a) # {}

ResolveActive(a) ==
    notes' = [i \in Ids |-> IF i \in OpenNotes(a) THEN [notes[i] EXCEPT !.resolved = TRUE]
                            ELSE notes[i]]

\* Two wrong forms: forgetting the acknowledgement, and an age that is met once.
UnackedSinceAcked ==
    {i \in Ids : /\ IsOpen(i) /\ ~notes[i].escalated
                 /\ notes[i].age >= EscalateAfter /\ notes[i].snoozed = 0}
UnackedSinceExactly ==
    {i \in Ids : /\ IsOpen(i) /\ ~notes[i].acked /\ ~notes[i].escalated
                 /\ notes[i].age = EscalateAfter /\ notes[i].snoozed = 0}

\* Open, not acknowledged, not escalated, old enough and no longer snoozed.
UnackedSince ==
    {i \in Ids : /\ IsOpen(i) /\ ~notes[i].acked /\ ~notes[i].escalated
                 /\ notes[i].age >= EscalateAfter /\ notes[i].snoozed = 0}

-----------------------------------------------------------------------------
Init ==
    /\ reading = [a \in Alerts |-> "normal"]
    /\ polled = Alerts /\ rule = Alerts /\ muted = {} /\ window = {}
    /\ notes = [i \in Ids |-> NoNote] /\ issued = 0
    /\ breach = [a \in Alerts |-> None]
    /\ pass = "due"
    /\ work = [a \in Alerts |-> "done"]
    /\ due = {} /\ marking = None
    /\ told = [a \in Alerts |-> "nothing"]
    /\ sent = [i \in Ids |-> 0]
    /\ handled = {} /\ hush = {} /\ lost = 0
    /\ ops = MaxOps /\ faults = MaxFaults

-----------------------------------------------------------------------------
(* A pass of the poller *)

\* The goroutine for every server that is not disabled starts.
PollOnce ==
    /\ pass = "due"
    /\ pass' = "polling"
    /\ work' = [a \in Alerts |-> IF a \in polled THEN "measure" ELSE "done"]
    /\ UNCHANGED <<reading, config, table, breach, due, marking, history, ops, faults>>

Goto(a, step) == work' = [work EXCEPT ![a] = step]

\* A rule that is disabled, or a reading the panel does not report, leaves the
\* alert as it is, its breach included.
Unreported(a) ==
    /\ work[a] = "measure"
    /\ a \notin rule \/ reading[a] = "missing"
    /\ Goto(a, "done")
    /\ UNCHANGED <<reading, config, table, breach, pass, due, marking, history, ops, faults>>

\* A wrong form: the clock restarts at every high reading.
BreachingAnew(a) ==
    /\ work[a] = "measure"
    /\ a \in rule /\ reading[a] = "high"
    /\ breach' = [breach EXCEPT ![a] = 1]
    /\ Goto(a, IF breach'[a] > Duration THEN "gate" ELSE "done")
    /\ UNCHANGED <<reading, config, table, pass, due, marking, history, ops, faults>>

\* breach counts from 1, so an alert has been high for Duration ticks when its
\* breach is above Duration.
Breaching(a) ==
    /\ work[a] = "measure"
    /\ a \in rule /\ reading[a] = "high"
    /\ breach' = [breach EXCEPT ![a] = IF @ = None THEN 1 ELSE @]
    /\ Goto(a, IF breach'[a] > Duration THEN "gate" ELSE "done")
    /\ UNCHANGED <<reading, config, table, pass, due, marking, history, ops, faults>>

\* A wrong form: resolving only what this process saw breach.
RecoveredTracked(a) ==
    /\ work[a] = "measure"
    /\ a \in rule /\ reading[a] = "normal"
    /\ breach' = [breach EXCEPT ![a] = None]
    /\ Goto(a, IF breach[a] # None /\ ActiveExists(a) THEN "resolve" ELSE "done")
    /\ UNCHANGED <<reading, config, table, pass, due, marking, history, ops, faults>>

Recovered(a) ==
    /\ work[a] = "measure"
    /\ a \in rule /\ reading[a] = "normal"
    /\ breach' = [breach EXCEPT ![a] = None]
    /\ Goto(a, IF ActiveExists(a) THEN "resolve" ELSE "done")
    /\ UNCHANGED <<reading, config, table, pass, due, marking, history, ops, faults>>

\* Two wrong forms: not asking for an open incident, and not asking for a mute.
GateAlways(a) ==
    /\ work[a] = "gate"
    /\ Goto(a, IF a \in window \/ a \in muted THEN "done" ELSE "open")
    /\ UNCHANGED <<reading, config, table, breach, pass, due, marking, history, ops, faults>>
GateUnmuted(a) ==
    /\ work[a] = "gate"
    /\ Goto(a, IF ActiveExists(a) \/ a \in window THEN "done" ELSE "open")
    /\ UNCHANGED <<reading, config, table, breach, pass, due, marking, history, ops, faults>>

\* Sustained: is there an open incident already, is the alert silenced?
Gate(a) ==
    /\ work[a] = "gate"
    /\ Goto(a, IF ActiveExists(a) \/ a \in window \/ a \in muted THEN "done" ELSE "open")
    /\ UNCHANGED <<reading, config, table, breach, pass, due, marking, history, ops, faults>>

\* Notifications.Create, by what was read at the gate.
Open(a) ==
    /\ work[a] = "open"
    /\ issued < MaxNotes
    /\ issued' = issued + 1
    /\ notes' = [notes EXCEPT ![issued + 1] =
                   [alert |-> a, age |-> 0, resolved |-> FALSE, acked |-> FALSE,
                    escalated |-> FALSE, snoozed |-> 0]]
    /\ Goto(a, "tell down")
    /\ UNCHANGED <<reading, config, breach, pass, due, marking, history, ops, faults>>

Resolve(a) ==
    /\ work[a] = "resolve"
    /\ ResolveActive(a)
    /\ handled' = handled \cup OpenNotes(a)
    /\ Goto(a, "tell recovered")
    /\ UNCHANGED <<reading, config, issued, breach, pass, due, marking,
                   told, sent, hush, lost, ops, faults>>

\* dispatch: the channels get the event unless a window covers the server now.
Tell(a) ==
    /\ work[a] \in {"tell down", "tell recovered"}
    /\ told' = IF a \in window THEN told
               ELSE [told EXCEPT ![a] = IF work[a] = "tell down" THEN "down" ELSE "recovered"]
    /\ Goto(a, "done")
    /\ UNCHANGED <<reading, config, table, breach, pass, due, marking,
                   sent, handled, hush, lost, ops, faults>>

\* evaluateRules for a metric, evaluateServiceRules for a service.
Evaluate(a) ==
    \/ Unreported(a) \/ Breaching(a) \/ Recovered(a)
    \/ Gate(a) \/ Open(a) \/ Resolve(a) \/ Tell(a)

\* Every goroutine has returned: escalate queries what is due...
Sweep ==
    /\ pass = "polling"
    /\ \A a \in Alerts : work[a] = "done"
    /\ pass' = "sweeping"
    /\ due' = UnackedSince
    /\ UNCHANGED <<reading, config, table, breach, work, marking, history, ops, faults>>

\* ...sends each without asking about windows or mutes...
EscalateSend ==
    /\ marking = None
    /\ \E i \in due :
         /\ due' = due \ {i}
         /\ marking' = i
         /\ sent' = [sent EXCEPT ![i] = @ + 1]
    /\ UNCHANGED <<reading, config, table, breach, pass, work, told, handled, hush, lost,
                   ops, faults>>

\* A wrong form: the row is never marked.
MarkEscalatedNever ==
    /\ marking # None
    /\ marking' = None
    /\ UNCHANGED <<reading, config, table, breach, pass, work, due, history, ops, faults>>

\* ...and marks it, if its row is still there.
MarkEscalated ==
    /\ marking # None
    /\ notes' = IF notes[marking] = NoNote THEN notes
                ELSE [notes EXCEPT ![marking].escalated = TRUE]
    /\ marking' = None
    /\ UNCHANGED <<reading, config, issued, breach, pass, work, due, history, ops, faults>>

PassEnds ==
    /\ pass = "sweeping"
    /\ due = {} /\ marking = None
    /\ pass' = "waiting"
    /\ UNCHANGED <<reading, config, table, breach, work, due, marking, history, ops, faults>>

\* The ticker fires.  A pass is taken to last less than a tick.
Grow(n, cap) == IF n < cap THEN n + 1 ELSE n
Tick ==
    /\ pass = "waiting"
    /\ pass' = "due"
    /\ breach' = [a \in Alerts |-> IF breach[a] = None THEN None ELSE Grow(breach[a], Duration + 1)]
    /\ notes' = [i \in Ids |->
                   IF notes[i] = NoNote THEN NoNote
                   ELSE [notes[i] EXCEPT !.age = Grow(@, MaxAge),
                                         !.snoozed = IF @ = 0 THEN 0 ELSE @ - 1]]
    /\ UNCHANGED <<reading, config, issued, work, due, marking, history, ops, faults>>

\* A wrong form: incidents that are still open are pruned too.
PruneOpenToo ==
    /\ pass = "waiting"
    /\ \E i \in Ids : notes[i] # NoNote /\ notes[i].age > Retention
    /\ notes' = [i \in Ids |->
                   IF notes[i] # NoNote /\ notes[i].age > Retention THEN NoNote ELSE notes[i]]
    /\ UNCHANGED <<reading, config, issued, poller, history, ops, faults>>

\* The hourly prune, between two passes.
PruneOlderThan ==
    /\ pass = "waiting"
    /\ \E i \in Ids : notes[i] # NoNote /\ notes[i].resolved /\ notes[i].age > Retention
    /\ notes' = [i \in Ids |->
                   IF notes[i] # NoNote /\ notes[i].resolved /\ notes[i].age > Retention
                   THEN NoNote ELSE notes[i]]
    /\ UNCHANGED <<reading, config, issued, poller, history, ops, faults>>

-----------------------------------------------------------------------------
(* Operators *)

Request == ops > 0 /\ ops' = ops - 1

\* POST /admin/notifications/:id/ack
Ack(i) ==
    /\ Request
    /\ notes[i] # NoNote /\ ~notes[i].acked
    /\ notes' = [notes EXCEPT ![i].acked = TRUE]
    /\ handled' = IF i \in due THEN handled ELSE handled \cup {i}
    /\ UNCHANGED <<reading, config, issued, poller, told, sent, hush, lost, faults>>

\* A wrong form: the longest snooze is let through one too long.
SnoozeLonger(i) ==
    /\ Request
    /\ notes[i] # NoNote
    /\ \E minutes \in 1..(MaxSnooze + 1) :
         notes' = [notes EXCEPT ![i].snoozed = minutes + 1]
    /\ UNCHANGED <<reading, config, issued, poller, history, faults>>

\* POST /admin/notifications/:id/snooze.  The sweep wants snoozed_until < now,
\* so a snooze of k ticks is over on tick k + 1.
Snooze(i) ==
    /\ Request
    /\ notes[i] # NoNote
    /\ \E minutes \in 1..MaxSnooze : notes' = [notes EXCEPT ![i].snoozed = minutes + 1]
    /\ UNCHANGED <<reading, config, issued, poller, history, faults>>

\* The history of silencing: an alert is hushed from the moment it is muted or
\* covered, unless the pass is already past its gate.
Silence(a) == hush' = IF work[a] = "open" THEN hush ELSE hush \cup {a}
Unsilence(a, still) == hush' = IF still THEN hush ELSE hush \ {a}

\* POST and DELETE /admin/muted
Mute(a) ==
    /\ Request
    /\ muted' = muted \cup {a}
    /\ Silence(a)
    /\ UNCHANGED <<reading, polled, rule, window, table, poller, told, sent, handled, lost, faults>>
Unmute(a) ==
    /\ Request
    /\ a \in muted
    /\ muted' = muted \ {a}
    /\ Unsilence(a, a \in window)
    /\ UNCHANGED <<reading, polled, rule, window, table, poller, told, sent, handled, lost, faults>>

\* POST /admin/maintenance, or a window created earlier begins.
CreateMaintenance(a) ==
    /\ Request
    /\ window' = window \cup {a}
    /\ Silence(a)
    /\ UNCHANGED <<reading, polled, rule, muted, table, poller, told, sent, handled, lost, faults>>
\* DELETE /admin/maintenance/:id, or the window ends.
DeleteMaintenance(a) ==
    /\ Request
    /\ a \in window
    /\ window' = window \ {a}
    /\ Unsilence(a, a \in muted)
    /\ UNCHANGED <<reading, polled, rule, muted, table, poller, told, sent, handled, lost, faults>>

\* PUT /admin/alert-rules/:metric turns the rule on or off.
UpdateRule(a) ==
    /\ Request
    /\ rule' = IF a \in rule THEN rule \ {a} ELSE rule \cup {a}
    /\ UNCHANGED <<reading, polled, muted, window, table, poller, history, faults>>

\* The server is disabled or removed, or enabled again.
SetPolled(a) ==
    /\ Request
    /\ polled' = IF a \in polled THEN polled \ {a} ELSE polled \cup {a}
    /\ UNCHANGED <<reading, rule, muted, window, table, poller, history, faults>>

-----------------------------------------------------------------------------
(* The environment *)

\* The panel reports something else from now on, or nothing: it is down, too
\* old, or no longer lists the service.
Reading(a) ==
    /\ faults > 0
    /\ faults' = faults - 1
    /\ \E v \in {"high", "normal", "missing"} \ {reading[a]} :
         reading' = [reading EXCEPT ![a] = v]
    /\ UNCHANGED <<config, table, poller, history, ops>>

\* The manager crashes or is restarted; Run polls at once.
Restart ==
    /\ faults > 0
    /\ faults' = faults - 1
    /\ breach' = [a \in Alerts |-> None]
    /\ pass' = "due"
    /\ work' = [a \in Alerts |-> "done"]
    /\ due' = {} /\ marking' = None
    /\ lost' = IF marking = None THEN lost ELSE lost + 1
    /\ UNCHANGED <<reading, config, table, told, sent, handled, hush, ops>>

-----------------------------------------------------------------------------
Loop == PollOnce \/ Sweep \/ EscalateSend \/ MarkEscalated \/ PassEnds \/ Tick

Operate(a) ==
    \/ Mute(a) \/ Unmute(a) \/ CreateMaintenance(a) \/ DeleteMaintenance(a)
    \/ UpdateRule(a) \/ SetPolled(a)

Next ==
    \/ Loop \/ PruneOlderThan
    \/ \E a \in Alerts : Evaluate(a) \/ Operate(a) \/ Reading(a)
    \/ \E i \in Ids : Ack(i) \/ Snooze(i)
    \/ Restart

\* The poller's loop and its goroutines keep running.
Fairness == WF_vars(Loop) /\ \A a \in Alerts : WF_vars(Evaluate(a))

Spec == Init /\ [][Next]_vars /\ Fairness

-----------------------------------------------------------------------------
(* Properties *)

\* At most one incident is open per alert, although ActiveExists and Create are
\* two statements: the passes are sequential and only they create incidents.
OneOpenIncident == \A a \in Alerts : \A i, j \in OpenNotes(a) : i = j

\* "One-shot escalation": an incident is escalated once, and again only for a
\* crash that came between a send and its mark.
EscalatedOnce == \A i \in Ids : sent[i] <= 1 + lost

\* An incident that was acknowledged or resolved before the sweep queried is
\* never escalated afterwards, restarts included.
HandledStaysQuiet == [][\A i \in handled : sent'[i] = sent[i]]_vars

\* Muting an alert, or opening a window, before the pass reads them keeps it from
\* opening an incident until neither silences it.
SilencedOpensNothing == [][\A a \in hush : OpenNotes(a)' \subseteq OpenNotes(a)]_vars

\* The table lives up to IncidentLife: notes are pruned only behind it, and no
\* crash, snooze or late acknowledgement takes an incident out of its life.
IncidentOf(a) ==
    IF OpenNotes(a) = {}
    THEN [open |-> FALSE, acked |-> FALSE, escalated |-> FALSE, recovering |-> FALSE]
    ELSE LET n == notes[CHOOSE i \in OpenNotes(a) : TRUE]
         IN  [open |-> TRUE, acked |-> n.acked, escalated |-> n.escalated,
              recovering |-> work[a] = "resolve"]
Life == INSTANCE IncidentLife WITH life <- [a \in Alerts |-> IncidentOf(a)]
Refines == Life!Spec

\* README: maintenance windows suppress alerts, whether announcements or
\* escalations.
MaintenanceSilences ==
    [][/\ \A a \in window : told'[a] = told[a]
       /\ \A i \in Ids : sent'[i] # sent[i] => notes[i].alert \notin window]_vars

\* An incident whose alert has recovered for good is resolved, even when the
\* process that opened it is gone.
RecoveryResolves ==
    \A a \in Alerts :
        <>[](reading[a] = "normal" /\ a \in rule /\ a \in polled) => <>[](OpenNotes(a) = {})

\* An alert that stays high, unsilenced and watched ends up as an open incident.
OutageOpens ==
    \A a \in Alerts :
        <>[](reading[a] = "high" /\ a \in rule \cap polled /\ a \notin muted \cup window)
            => <>[](OpenNotes(a) # {})

\* Once readings, rules and silences stay as they are, the open incidents are those of
\* the alerts that stay high, whatever crashes came before.
IncidentsFollow == RecoveryResolves /\ OutageOpens

\* An incident nobody attends to is escalated: in the end none is open that was
\* neither acknowledged nor escalated.
NeglectEscalates == \A i \in Ids : IsOpen(i) ~> \/ ~IsOpen(i)
                                                \/ notes[i].acked \/ notes[i].escalated

-----------------------------------------------------------------------------
(* The inductive invariants behind them                                     *)

\* The passes are sequential: only a pass under way has work, only a sweep under
\* way has incidents to handle.
LoopInv ==
    /\ \A a \in Alerts : work[a] # "done" => pass = "polling"
    /\ pass # "sweeping" => due = {} /\ marking = None

\* Past the gate, an alert has no open incident and will get none but its own.
OpenInv == OneOpenIncident /\ \A a \in Alerts : work[a] = "open" => OpenNotes(a) = {}

\* An alert that was silenced in time is still silenced and not past its gate.
HushInv == \A a \in hush : a \in muted \cup window /\ work[a] # "open"

\* Rows past the last one issued are unused.
FreshInv == \A i \in Ids : i > issued => notes[i] = NoNote /\ sent[i] = 0 /\ i \notin handled

\* Only rows that are there are swept, and none that was handled.
HandledInv ==
    /\ \A i \in due : notes[i] # NoNote /\ ~notes[i].escalated
    /\ \A i \in handled : i \notin due /\ (notes[i] # NoNote => notes[i].acked \/ notes[i].resolved)

\* Every send beyond a note's first is paid for by a restart, and so is the first
\* of a note that is not marked.
SentInv ==
    /\ EscalatedOnce
    /\ \A i \in Ids : notes[i] # NoNote /\ ~notes[i].escalated /\ marking # i => sent[i] <= lost
    /\ marking # None => marking \notin due

Inv == TypeOK /\ LoopInv /\ OpenInv /\ HushInv /\ FreshInv /\ HandledInv /\ SentInv
=============================================================================
