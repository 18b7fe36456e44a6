--------------------------- MODULE IncidentsProofs ---------------------------
(* The safety properties of Incidents, for any alerts, delays and bounds. *)
EXTENDS Incidents, TLAPS

-----------------------------------------------------------------------------
(* Types *)

\* Initially every variable has its type.
LEMMA TypeInit == Init => TypeOK
<1>1. SUFFICES ASSUME Init PROVE TypeOK
  OBVIOUS
<1>2. MaxOps \in Nat /\ MaxFaults \in Nat /\ MaxNotes \in Nat
  BY IncidentsAssumption
<1>3. 0 \in 0..(Duration + 1) /\ 0 \in 0..MaxNotes /\ MaxOps \in 0..MaxOps /\ MaxFaults \in 0..MaxFaults
  BY IncidentsAssumption
<1>4. QED
  BY <1>1, <1>2, <1>3, IncidentsAssumption DEF Init, TypeOK, Ids, None, Steps

\* A row whose flags or timers are rewritten within their ranges is a row.
LEMMA NoteUpdated ==
    ASSUME TypeOK, NEW i \in Ids, notes[i] # NoNote
    PROVE  /\ notes[i] \in Note
           /\ [notes[i] EXCEPT !.resolved = TRUE] \in Note
           /\ [notes[i] EXCEPT !.acked = TRUE] \in Note
           /\ [notes[i] EXCEPT !.escalated = TRUE] \in Note
           /\ \A m \in 1..MaxSnooze : [notes[i] EXCEPT !.snoozed = m + 1] \in Note
           /\ [notes[i] EXCEPT !.age = Grow(@, MaxAge),
                               !.snoozed = IF @ = 0 THEN 0 ELSE @ - 1] \in Note
<1>1. notes[i] \in Note
  BY DEF TypeOK
<1>2. MaxAge \in Nat /\ MaxSnooze \in Nat
  BY IncidentsAssumption DEF MaxAge
<1>3. \A m \in 1..MaxSnooze : m + 1 \in 0..(MaxSnooze + 1)
  BY <1>2
<1>4. Grow(notes[i].age, MaxAge) \in 0..MaxAge
  BY <1>1, <1>2 DEF Note, Grow
<1>5. (IF notes[i].snoozed = 0 THEN 0 ELSE notes[i].snoozed - 1) \in 0..(MaxSnooze + 1)
  BY <1>1, <1>2 DEF Note
<1>6. QED
  BY <1>1, <1>3, <1>4, <1>5 DEF Note

\* A step of a goroutine of the pass keeps the types.
LEMMA TypeEvaluate ==
    ASSUME TypeOK, NEW a \in Alerts, Evaluate(a)
    PROVE  TypeOK'
<1>1. CASE Unreported(a)
  BY <1>1 DEF Unreported, TypeOK, Goto, Steps, vars, config, table, history
<1>2. CASE Breaching(a)
  <2>1. (IF breach[a] = None THEN 1 ELSE breach[a]) \in 0..(Duration + 1)
    BY IncidentsAssumption DEF TypeOK, None
  <2>2. breach' \in [Alerts -> 0..(Duration + 1)]
    BY <1>2, <2>1 DEF Breaching, TypeOK
  <2>3. work' \in [Alerts -> Steps]
    BY <1>2 DEF Breaching, TypeOK, Goto, Steps
  <2>4. QED
    BY <1>2, <2>2, <2>3 DEF Breaching, TypeOK, config, table, history
<1>3. CASE Recovered(a)
  <2>1. breach' \in [Alerts -> 0..(Duration + 1)]
    BY <1>3, IncidentsAssumption DEF Recovered, TypeOK, None
  <2>2. work' \in [Alerts -> Steps]
    BY <1>3 DEF Recovered, TypeOK, Goto, Steps
  <2>3. QED
    BY <1>3, <2>1, <2>2 DEF Recovered, TypeOK, config, table, history
<1>4. CASE Gate(a)
  BY <1>4 DEF Gate, TypeOK, Goto, Steps, config, table, history
<1>5. CASE Open(a)
  <2>0. issued \in 0..MaxNotes /\ issued < MaxNotes /\ issued' = issued + 1
    BY <1>5 DEF Open, TypeOK
  <2>1. issued + 1 \in Ids
    BY <2>0, IncidentsAssumption DEF Ids
  <2>2. [alert |-> a, age |-> 0, resolved |-> FALSE, acked |-> FALSE,
         escalated |-> FALSE, snoozed |-> 0] \in Note
    BY IncidentsAssumption DEF Note, MaxAge
  <2>3. notes' \in [Ids -> Note \cup {NoNote}]
    BY <1>5, <2>1, <2>2 DEF Open, TypeOK
  <2>4. issued' \in 0..MaxNotes
    BY <2>0, IncidentsAssumption
  <2>5. work' \in [Alerts -> Steps]
    BY <1>5 DEF Open, TypeOK, Goto, Steps
  <2>6. QED
    BY <1>5, <2>3, <2>4, <2>5 DEF Open, TypeOK, config, history
<1>6. CASE Resolve(a)
  <2>1. \A i \in OpenNotes(a) : i \in Ids /\ [notes[i] EXCEPT !.resolved = TRUE] \in Note
    BY NoteUpdated DEF OpenNotes, IsOpen
  <2>2. notes' \in [Ids -> Note \cup {NoNote}]
    BY <1>6, <2>1 DEF Resolve, ResolveActive, TypeOK
  <2>3. handled' \subseteq Ids
    BY <1>6, <2>1 DEF Resolve, TypeOK
  <2>4. work' \in [Alerts -> Steps]
    BY <1>6 DEF Resolve, TypeOK, Goto, Steps
  <2>5. QED
    BY <1>6, <2>2, <2>3, <2>4 DEF Resolve, TypeOK, config
<1>7. CASE Tell(a)
  BY <1>7 DEF Tell, TypeOK, Goto, Steps, config, table
<1>8. QED
  BY <1>1, <1>2, <1>3, <1>4, <1>5, <1>6, <1>7 DEF Evaluate

\* A step of the poller's loop keeps the types.
LEMMA TypeLoop ==
    ASSUME TypeOK, Loop \/ PruneOlderThan
    PROVE  TypeOK'
<1>1. CASE PollOnce
  BY <1>1 DEF PollOnce, TypeOK, Steps, config, table, history
<1>2. CASE Sweep
  BY <1>2 DEF Sweep, TypeOK, UnackedSince, config, table, history
<1>3. CASE EscalateSend
  BY <1>3 DEF EscalateSend, TypeOK, config, table
<1>4. CASE MarkEscalated
  <2>1. marking \in Ids
    BY <1>4 DEF MarkEscalated, TypeOK
  <2>2. notes' \in [Ids -> Note \cup {NoNote}]
    BY <1>4, <2>1, NoteUpdated DEF MarkEscalated, TypeOK
  <2>3. QED
    BY <1>4, <2>2 DEF MarkEscalated, TypeOK, config, history
<1>5. CASE PassEnds
  BY <1>5 DEF PassEnds, TypeOK, config, table, history
<1>6. CASE Tick
  <2>1. notes' \in [Ids -> Note \cup {NoNote}]
    BY <1>6, NoteUpdated DEF Tick
  <2>0. \A n \in 0..(Duration + 1) :
           (IF n = None THEN None ELSE Grow(n, Duration + 1)) \in 0..(Duration + 1)
    BY IncidentsAssumption DEF Grow, None
  <2>2. breach' \in [Alerts -> 0..(Duration + 1)]
    BY <1>6, <2>0 DEF Tick, TypeOK
  <2>3. QED
    BY <1>6, <2>1, <2>2 DEF Tick, TypeOK, config, history
<1>7. CASE PruneOlderThan
  BY <1>7 DEF PruneOlderThan, TypeOK, config, poller, history
<1>8. QED
  BY <1>1, <1>2, <1>3, <1>4, <1>5, <1>6, <1>7 DEF Loop

\* A request of an operator keeps the types.
LEMMA TypeOperate ==
    ASSUME TypeOK, \/ \E a \in Alerts : Operate(a)
                   \/ \E i \in Ids : Ack(i) \/ Snooze(i)
    PROVE  TypeOK'
<1>1. ASSUME Request PROVE ops' \in 0..MaxOps
  BY <1>1, IncidentsAssumption DEF Request, TypeOK
<1>2. ASSUME NEW a \in Alerts, Operate(a) PROVE TypeOK'
  <2>1. CASE Mute(a) \/ Unmute(a)
    BY <2>1, <1>1 DEF Mute, Unmute, Silence, Unsilence, TypeOK, poller, table
  <2>2. CASE CreateMaintenance(a) \/ DeleteMaintenance(a)
    BY <2>2, <1>1 DEF CreateMaintenance, DeleteMaintenance, Silence, Unsilence, TypeOK, poller, table
  <2>3. CASE UpdateRule(a) \/ SetPolled(a)
    BY <2>3, <1>1 DEF UpdateRule, SetPolled, TypeOK, poller, table, history
  <2>4. QED
    BY <1>2, <2>1, <2>2, <2>3 DEF Operate
<1>3. ASSUME NEW i \in Ids, Ack(i) PROVE TypeOK'
  <2>1. notes' \in [Ids -> Note \cup {NoNote}]
    BY <1>3, NoteUpdated DEF Ack, TypeOK
  <2>2. QED
    BY <1>3, <1>1, <2>1 DEF Ack, TypeOK, config, poller
<1>4. ASSUME NEW i \in Ids, Snooze(i) PROVE TypeOK'
  <2>0. PICK minutes \in 1..MaxSnooze : notes' = [notes EXCEPT ![i].snoozed = minutes + 1]
    BY <1>4 DEF Snooze
  <2>1. notes' \in [Ids -> Note \cup {NoNote}]
    <3>1. [notes[i] EXCEPT !.snoozed = minutes + 1] \in Note
      BY <1>4, NoteUpdated DEF Snooze
    <3>2. QED
      BY <2>0, <3>1 DEF TypeOK
  <2>2. QED
    BY <1>4, <1>1, <2>1 DEF Snooze, TypeOK, config, poller, history
<1>5. QED
  BY <1>2, <1>3, <1>4

\* Every step keeps the types.
LEMMA TypeNext == TypeOK /\ [Next]_vars => TypeOK'
<1>1. SUFFICES ASSUME TypeOK, [Next]_vars PROVE TypeOK'
  OBVIOUS
<1>2. ASSUME NEW a \in Alerts, Reading(a) PROVE TypeOK'
  BY <1>1, <1>2, IncidentsAssumption DEF Reading, TypeOK, config, table, poller, history
<1>3. CASE Restart
  <2>1. faults' \in 0..MaxFaults
    BY <1>1, <1>3, IncidentsAssumption DEF Restart, TypeOK
  <2>2. breach' \in [Alerts -> 0..(Duration + 1)]
    BY <1>3, IncidentsAssumption DEF Restart, None
  <2>3. work' \in [Alerts -> Steps]
    BY <1>3 DEF Restart, Steps
  <2>4. lost' \in Nat
    BY <1>1, <1>3 DEF Restart, TypeOK
  <2>5. QED
    BY <1>1, <1>3, <2>1, <2>2, <2>3, <2>4 DEF Restart, TypeOK, config, table
<1>4. CASE UNCHANGED vars
  BY <1>1, <1>4 DEF vars, TypeOK, config, table, poller, history
<1>5. QED
  BY <1>1, <1>2, <1>3, <1>4, TypeEvaluate, TypeLoop, TypeOperate DEF Next

\* Every variable keeps its type: no note's age, snooze or id leaves its range.
THEOREM TypeCorrect == Spec => []TypeOK
BY TypeInit, TypeNext, PTL DEF Spec

-----------------------------------------------------------------------------
(* The loop *)

\* Only a pass under way has work and only a sweep under way has incidents to
\* handle: initially, and after every step.
LEMMA LoopInit == Init => LoopInv
BY DEF Init, LoopInv

LEMMA LoopNext == TypeOK /\ LoopInv /\ [Next]_vars => LoopInv'
<1>1. SUFFICES ASSUME TypeOK, LoopInv, [Next]_vars PROVE LoopInv'
  OBVIOUS
<1>2. ASSUME NEW a \in Alerts, Evaluate(a) PROVE LoopInv'
  <2>1. work[a] # "done" /\ UNCHANGED <<pass, due, marking>>
    BY <1>2 DEF Evaluate, Unreported, Breaching, Recovered, Gate, Open, Resolve, Tell
  <2>2. \A b \in Alerts \ {a} : work'[b] = work[b]
    BY <1>1, <1>2 DEF Evaluate, Unreported, Breaching, Recovered, Gate, Open, Resolve, Tell, Goto, TypeOK
  <2>3. QED
    BY <1>1, <2>1, <2>2 DEF LoopInv
<1>3. CASE Loop
  <2>1. CASE PollOnce
    BY <1>1, <2>1 DEF PollOnce, LoopInv
  <2>2. CASE Sweep
    BY <1>1, <2>2 DEF Sweep, LoopInv
  <2>3. CASE EscalateSend
    BY <1>1, <2>3 DEF EscalateSend, LoopInv
  <2>4. CASE MarkEscalated
    BY <1>1, <2>4 DEF MarkEscalated, LoopInv
  <2>5. CASE PassEnds \/ Tick
    BY <1>1, <2>5 DEF PassEnds, Tick, LoopInv
  <2>6. QED
    BY <1>3, <2>1, <2>2, <2>3, <2>4, <2>5 DEF Loop
<1>4. CASE PruneOlderThan
  BY <1>1, <1>4 DEF PruneOlderThan, LoopInv, poller
<1>5. ASSUME NEW a \in Alerts, Operate(a) \/ Reading(a) PROVE LoopInv'
  BY <1>1, <1>5 DEF Operate, Mute, Unmute, CreateMaintenance, DeleteMaintenance, UpdateRule,
     SetPolled, Reading, LoopInv, poller
<1>6. ASSUME NEW i \in Ids, Ack(i) \/ Snooze(i) PROVE LoopInv'
  BY <1>1, <1>6 DEF Ack, Snooze, LoopInv, poller
<1>7. CASE Restart
  BY <1>1, <1>7 DEF Restart, LoopInv
<1>8. CASE UNCHANGED vars
  BY <1>1, <1>8 DEF vars, poller, LoopInv
<1>9. QED
  BY <1>1, <1>2, <1>3, <1>4, <1>5, <1>6, <1>7, <1>8 DEF Next

-----------------------------------------------------------------------------
(* What a step does to the rows *)

\* No step but Open makes an incident open, and none gives a row another alert.
LEMMA RowsKept ==
    ASSUME TypeOK, [Next]_vars, NEW b \in Alerts, ~Open(b)
    PROVE  OpenNotes(b)' \subseteq OpenNotes(b)
<1>1. SUFFICES ASSUME NEW i \in Ids, IsOpen(i)', notes'[i].alert = b
               PROVE  IsOpen(i) /\ notes[i].alert = b
  BY DEF OpenNotes
<1>2. notes[i] # NoNote => notes[i] \in Note
  BY DEF TypeOK
<1>3. ASSUME UNCHANGED notes PROVE IsOpen(i) /\ notes[i].alert = b
  BY <1>1, <1>3 DEF IsOpen
<1>4. ASSUME NEW a \in Alerts, Evaluate(a) PROVE IsOpen(i) /\ notes[i].alert = b
  <2>1. CASE Open(a)
    BY <1>1, <2>1 DEF Open, IsOpen, TypeOK
  <2>2. CASE Resolve(a)
    <3>1. notes'[i] = IF i \in OpenNotes(a) THEN [notes[i] EXCEPT !.resolved = TRUE] ELSE notes[i]
      BY <2>2 DEF Resolve, ResolveActive
    <3>2. i \notin OpenNotes(a)
      BY <1>1, <1>2, <3>1 DEF IsOpen, OpenNotes, Note
    <3>3. QED
      BY <1>1, <3>1, <3>2 DEF IsOpen
  <2>3. CASE Unreported(a) \/ Breaching(a) \/ Recovered(a) \/ Gate(a) \/ Tell(a)
    BY <1>3, <2>3 DEF Unreported, Breaching, Recovered, Gate, Tell, table
  <2>4. QED
    BY <1>4, <2>1, <2>2, <2>3 DEF Evaluate
<1>5. CASE Loop
  <2>1. CASE PollOnce \/ Sweep \/ EscalateSend \/ PassEnds
    BY <1>3, <2>1 DEF PollOnce, Sweep, EscalateSend, PassEnds, table
  <2>2. CASE MarkEscalated
    BY <1>1, <1>2, <2>2 DEF MarkEscalated, IsOpen, Note, TypeOK
  <2>3. CASE Tick
    BY <1>1, <1>2, <2>3 DEF Tick, IsOpen, Note
  <2>4. QED
    BY <1>5, <2>1, <2>2, <2>3 DEF Loop
<1>6. CASE PruneOlderThan
  BY <1>1, <1>6 DEF PruneOlderThan, IsOpen
<1>7. ASSUME NEW a \in Alerts, Operate(a) \/ Reading(a) PROVE IsOpen(i) /\ notes[i].alert = b
  BY <1>3, <1>7 DEF Operate, Mute, Unmute, CreateMaintenance, DeleteMaintenance, UpdateRule,
     SetPolled, Reading, table
<1>8. ASSUME NEW j \in Ids, Ack(j) \/ Snooze(j) PROVE IsOpen(i) /\ notes[i].alert = b
  BY <1>1, <1>2, <1>8 DEF Ack, Snooze, IsOpen, Note, TypeOK
<1>9. CASE Restart \/ UNCHANGED vars
  BY <1>3, <1>9 DEF Restart, vars, table
<1>10. QED
  BY <1>4, <1>5, <1>6, <1>7, <1>8, <1>9 DEF Next

\* What Open does: one row, fresh, and nothing to the others.
LEMMA OpenEffect ==
    ASSUME TypeOK, NEW a \in Alerts, Open(a)
    PROVE  /\ OpenNotes(a)' \subseteq OpenNotes(a) \cup {issued + 1}
           /\ \A b \in Alerts \ {a} : ~Open(b)
           /\ \A b \in Alerts \ {a} : work'[b] = work[b]
           /\ work'[a] = "tell down"
<1>1. issued + 1 \in Ids
  <2>1. issued \in 0..MaxNotes /\ issued < MaxNotes
    BY DEF Open, TypeOK
  <2>2. QED
    BY <2>1, IncidentsAssumption DEF Ids
<1>2. work'[a] = "tell down" /\ \A b \in Alerts \ {a} : work'[b] = work[b]
  BY DEF Open, Goto, TypeOK
<1>3. \A i \in Ids \ {issued + 1} : notes'[i] = notes[i]
  BY <1>1 DEF Open, TypeOK
<1>4. OpenNotes(a)' \subseteq OpenNotes(a) \cup {issued + 1}
  BY <1>3 DEF OpenNotes, IsOpen
<1>5. \A b \in Alerts \ {a} : ~Open(b)
  BY <1>2 DEF Open, Goto, TypeOK
<1>6. QED
  BY <1>2, <1>4, <1>5

\* An alert that a step takes to "open" came through the gate; while it is there,
\* nothing but its own Open opens an incident of it.
LEMMA WorkStep ==
    ASSUME TypeOK, [Next]_vars, NEW b \in Alerts, work'[b] = "open", work[b] # "open"
    PROVE  Gate(b)
<1>1. ASSUME NEW a \in Alerts, Evaluate(a) PROVE Gate(b)
  <2>1. a = b \/ work'[b] = work[b]
    BY <1>1 DEF Evaluate, Unreported, Breaching, Recovered, Gate, Open, Resolve, Tell, Goto, TypeOK
  <2>2. QED
    BY <1>1, <2>1 DEF Evaluate, Unreported, Breaching, Recovered, Gate, Open, Resolve, Tell, Goto, TypeOK
<1>2. CASE Loop \/ PruneOlderThan
  BY <1>2 DEF Loop, PollOnce, Sweep, EscalateSend, MarkEscalated, PassEnds, Tick, PruneOlderThan, poller
<1>3. ASSUME NEW a \in Alerts, Operate(a) \/ Reading(a) PROVE FALSE
  BY <1>3 DEF Operate, Mute, Unmute, CreateMaintenance, DeleteMaintenance, UpdateRule,
     SetPolled, Reading, poller
<1>4. ASSUME NEW i \in Ids, Ack(i) \/ Snooze(i) PROVE FALSE
  BY <1>4 DEF Ack, Snooze, poller
<1>5. ~Restart /\ ~UNCHANGED vars
  BY DEF Restart, vars, poller
<1>6. QED
  BY <1>1, <1>2, <1>3, <1>4, <1>5 DEF Next

-----------------------------------------------------------------------------
(* One open incident per alert *)

LEMMA OpenNext == TypeOK /\ OpenInv /\ [Next]_vars => OpenInv'
<1>1. SUFFICES ASSUME TypeOK, OpenInv, [Next]_vars PROVE OpenInv'
  OBVIOUS
<1>2. ASSUME NEW b \in Alerts
      PROVE  /\ \A i, j \in OpenNotes(b)' : i = j
             /\ work'[b] = "open" => OpenNotes(b)' = {}
  <2>1. CASE Open(b)
    <3>1. OpenNotes(b) = {} /\ work'[b] # "open"
      BY <1>1, <2>1, OpenEffect DEF OpenInv, Open
    <3>2. QED
      BY <1>1, <2>1, <3>1, OpenEffect
  <2>2. CASE ~Open(b)
    <3>1. OpenNotes(b)' \subseteq OpenNotes(b)
      BY <1>1, <2>2, RowsKept
    <3>2. \A i, j \in OpenNotes(b)' : i = j
      BY <1>1, <3>1 DEF OpenInv, OneOpenIncident
    <3>3. ASSUME work'[b] = "open" PROVE OpenNotes(b) = {}
      <4>1. CASE work[b] = "open"
        BY <1>1, <4>1 DEF OpenInv
      <4>2. CASE work[b] # "open"
        <5>1. Gate(b)
          BY <1>1, <3>3, <4>2, WorkStep
        <5>2. QED
          BY <1>1, <3>3, <5>1 DEF Gate, Goto, ActiveExists, TypeOK
      <4>3. QED
        BY <4>1, <4>2
    <3>4. QED
      BY <3>1, <3>2, <3>3
  <2>3. QED
    BY <2>1, <2>2
<1>3. QED
  BY <1>2 DEF OpenInv, OneOpenIncident

\* At most one incident is open per alert, whatever the operators, the panels and
\* the crashes do.
THEOREM OneOpenIncidentHolds == Spec => []OneOpenIncident
<1>1. Init => OpenInv
  BY DEF Init, OpenInv, OneOpenIncident, OpenNotes, IsOpen
<1>2. OpenInv => OneOpenIncident
  BY DEF OpenInv
<1>3. QED
  BY <1>1, <1>2, OpenNext, TypeCorrect, PTL DEF Spec

-----------------------------------------------------------------------------
(* Silenced alerts *)

LEMMA HushNext == TypeOK /\ HushInv /\ [Next]_vars => HushInv'
<1>1. SUFFICES ASSUME TypeOK, HushInv, [Next]_vars, NEW b \in hush'
               PROVE  b \in muted' \cup window' /\ work'[b] # "open"
  BY DEF HushInv
<1>2. b \in Alerts
  BY <1>1, TypeNext DEF TypeOK
<1>3. CASE UNCHANGED hush
  <2>1. b \in muted \cup window /\ work[b] # "open"
    BY <1>1, <1>3 DEF HushInv
  <2>2. work'[b] # "open"
    <3>1. ~Gate(b) \/ work'[b] = "done"
      BY <1>1, <1>2, <2>1 DEF Gate, Goto, TypeOK
    <3>2. QED
      BY <1>1, <1>2, <2>1, <3>1, WorkStep
  <2>3. UNCHANGED config => b \in muted' \cup window'
    BY <2>1 DEF config
  <2>4. UNCHANGED config \/ \E a \in Alerts : Operate(a)
    BY <1>1 DEF Next, vars, Loop, PollOnce, Sweep, EscalateSend, MarkEscalated, PassEnds, Tick,
       PruneOlderThan, Evaluate, Unreported, Breaching, Recovered, Gate, Open, Resolve, Tell,
       Reading, Ack, Snooze, Restart
  <2>5. ASSUME NEW a \in Alerts, Operate(a) PROVE b \in muted' \cup window'
    BY <2>1, <2>5, <1>3 DEF Operate, Mute, Unmute, CreateMaintenance, DeleteMaintenance,
       UpdateRule, SetPolled, Silence, Unsilence
  <2>6. QED
    BY <2>2, <2>3, <2>4, <2>5
<1>4. CASE ~UNCHANGED hush
  <2>1. PICK a \in Alerts : Mute(a) \/ Unmute(a) \/ CreateMaintenance(a) \/ DeleteMaintenance(a)
    BY <1>1, <1>4 DEF Next, vars, history, Loop, PollOnce, Sweep, EscalateSend, MarkEscalated,
       PassEnds, Tick, PruneOlderThan, Evaluate, Unreported, Breaching, Recovered, Gate, Open,
       Resolve, Tell, Operate, UpdateRule, SetPolled, Reading, Ack, Snooze, Restart
  <2>2. UNCHANGED work
    BY <2>1 DEF Mute, Unmute, CreateMaintenance, DeleteMaintenance, poller
  <2>3. QED
    BY <1>1, <2>1, <2>2 DEF HushInv, Mute, Unmute, CreateMaintenance, DeleteMaintenance,
       Silence, Unsilence
<1>5. QED
  BY <1>3, <1>4

\* An alert that was muted, or covered by a window, before the pass read it gets no
\* incident until neither silences it.
THEOREM SilencedOpensNothingHolds == Spec => SilencedOpensNothing
<1>1. Init => HushInv
  BY DEF Init, HushInv
<1>2. TypeOK /\ HushInv /\ [Next]_vars
        => [\A a \in hush : OpenNotes(a)' \subseteq OpenNotes(a)]_vars
  <2>1. SUFFICES ASSUME TypeOK, HushInv, [Next]_vars, NEW a \in hush
                 PROVE  OpenNotes(a)' \subseteq OpenNotes(a)
    OBVIOUS
  <2>2. a \in Alerts /\ ~Open(a)
    BY <2>1 DEF TypeOK, HushInv, Open
  <2>3. QED
    BY <2>1, <2>2, RowsKept
<1>3. QED
  BY <1>1, <1>2, HushNext, TypeCorrect, PTL DEF Spec, SilencedOpensNothing

-----------------------------------------------------------------------------
(* Escalation *)

SweepInv == LoopInv /\ FreshInv /\ HandledInv /\ SentInv

\* What an evaluation does to the escalation: a fresh row, or rows resolved.
LEMMA SweepEvaluate ==
    ASSUME TypeOK, SweepInv, NEW a \in Alerts, Evaluate(a)
    PROVE  (FreshInv /\ HandledInv /\ SentInv)' /\ UNCHANGED sent
<1>1. pass = "polling" /\ due = {} /\ marking = None /\ UNCHANGED <<due, marking, sent, lost>>
  BY DEF SweepInv, LoopInv, Evaluate, Unreported, Breaching, Recovered, Gate, Open, Resolve, Tell,
     history
<1>2. sent \in [Ids -> Nat] /\ lost \in Nat /\ handled \subseteq Ids /\ None \notin Ids
  BY DEF TypeOK, None, Ids
<1>3. \A i \in Ids : notes[i] # NoNote => notes[i] \in Note
  BY DEF TypeOK
<1>4. CASE Open(a)
  <2>1. /\ issued \in 0..MaxNotes /\ issued < MaxNotes /\ issued' = issued + 1
        /\ UNCHANGED handled
    BY <1>4 DEF Open, TypeOK, history
  <2>2. issued + 1 \in Ids
    BY <2>1, IncidentsAssumption DEF Ids
  <2>3. /\ \A i \in Ids \ {issued + 1} : notes'[i] = notes[i]
        /\ sent[issued + 1] = 0 /\ issued + 1 \notin handled
    <3>1. issued + 1 > issued
      BY <2>1, IncidentsAssumption
    <3>2. QED
      BY <1>4, <2>1, <2>2, <3>1 DEF Open, TypeOK, SweepInv, FreshInv
  <2>4. FreshInv'
    <3>1. SUFFICES ASSUME NEW i \in Ids, i > issued'
                   PROVE  notes'[i] = NoNote /\ sent[i] = 0 /\ i \notin handled
      BY <1>1, <2>1 DEF FreshInv
    <3>2. i > issued /\ i # issued + 1
      BY <2>1, <3>1 DEF Ids
    <3>3. QED
      BY <2>3, <3>1, <3>2 DEF SweepInv, FreshInv
  <2>5. HandledInv'
    BY <1>1, <1>2, <2>1, <2>3 DEF SweepInv, HandledInv
  <2>6. SentInv'
    BY <1>1, <1>2, <2>3 DEF SweepInv, SentInv, EscalatedOnce
  <2>7. QED
    BY <1>1, <2>4, <2>5, <2>6
<1>5. CASE Resolve(a)
  <2>1. /\ UNCHANGED issued
        /\ handled' = handled \cup OpenNotes(a)
        /\ \A i \in Ids : notes'[i] = IF i \in OpenNotes(a) THEN [notes[i] EXCEPT !.resolved = TRUE]
                                      ELSE notes[i]
    BY <1>5 DEF Resolve, ResolveActive
  <2>2. \A i \in OpenNotes(a) : /\ i \in Ids /\ notes[i] \in Note /\ notes[i] # NoNote
                                /\ notes'[i].resolved /\ notes'[i].escalated = notes[i].escalated
    BY <1>3, <2>1 DEF OpenNotes, IsOpen, Note
  <2>3. \A i \in Ids : notes'[i] # NoNote => notes[i] # NoNote
    BY <2>1, <2>2
  <2>4. FreshInv'
    BY <1>1, <2>1, <2>2 DEF SweepInv, FreshInv
  <2>5. HandledInv'
    BY <1>1, <1>2, <2>1, <2>2 DEF SweepInv, HandledInv
  <2>6. SentInv'
    BY <1>1, <1>2, <2>1, <2>2, <2>3 DEF SweepInv, SentInv, EscalatedOnce
  <2>7. QED
    BY <1>1, <2>4, <2>5, <2>6
<1>6. CASE Unreported(a) \/ Breaching(a) \/ Recovered(a) \/ Gate(a) \/ Tell(a)
  <2>1. UNCHANGED <<notes, issued, due, marking, sent, lost, handled>>
    BY <1>6 DEF Unreported, Breaching, Recovered, Gate, Tell, table, history
  <2>2. QED
    BY <2>1 DEF SweepInv, FreshInv, HandledInv, SentInv, EscalatedOnce
<1>7. QED
  BY <1>4, <1>5, <1>6 DEF Evaluate

\* The sweep sends what is due, which is unmarked, unhandled and paid for.
LEMMA SweepLoop ==
    ASSUME TypeOK, SweepInv, Loop \/ PruneOlderThan
    PROVE  (FreshInv /\ HandledInv /\ SentInv)' /\ \A i \in handled : sent'[i] = sent[i]
<1>1. /\ sent \in [Ids -> Nat] /\ lost \in Nat /\ handled \subseteq Ids /\ due \subseteq Ids
      /\ marking \in Ids \cup {None} /\ None \notin Ids
  BY DEF TypeOK, None, Ids
<1>2. \A i \in Ids : notes[i] # NoNote => notes[i] \in Note
  BY DEF TypeOK
<1>3. CASE PollOnce \/ PassEnds
  <2>1. UNCHANGED <<notes, issued, due, marking, sent, lost, handled>>
    BY <1>3 DEF PollOnce, PassEnds, table, history
  <2>2. QED
    BY <2>1 DEF SweepInv, FreshInv, HandledInv, SentInv, EscalatedOnce
<1>4. CASE Sweep
  <2>1. UNCHANGED <<notes, issued, marking, sent, lost, handled>> /\ due' = UnackedSince
    BY <1>4 DEF Sweep, table, history
  <2>2. marking = None
    BY <1>4 DEF Sweep, SweepInv, LoopInv
  <2>3. \A i \in UnackedSince : /\ notes[i] # NoNote /\ ~notes[i].escalated
                                /\ ~notes[i].acked /\ ~notes[i].resolved
    BY DEF UnackedSince, IsOpen
  <2>4. QED
    BY <1>1, <2>1, <2>2, <2>3 DEF SweepInv, FreshInv, HandledInv, SentInv, EscalatedOnce
<1>5. CASE EscalateSend
  <2>1. PICK i \in due : /\ due' = due \ {i} /\ marking' = i
                         /\ sent' = [sent EXCEPT ![i] = @ + 1]
    BY <1>5 DEF EscalateSend
  <2>2. marking = None /\ UNCHANGED <<notes, issued, lost, handled>>
    BY <1>5 DEF EscalateSend, table
  <2>3. notes[i] # NoNote /\ ~notes[i].escalated /\ i \notin handled /\ sent[i] <= lost
    BY <1>1, <2>2 DEF SweepInv, HandledInv, SentInv
  <2>4. /\ sent'[i] = sent[i] + 1
        /\ \A j \in Ids \ {i} : sent'[j] = sent[j]
    BY <1>1, <2>1
  <2>5. FreshInv'
    BY <1>1, <2>2, <2>3, <2>4 DEF SweepInv, FreshInv
  <2>6. HandledInv'
    BY <2>1, <2>2 DEF SweepInv, HandledInv
  <2>7. EscalatedOnce'
    <3>1. sent'[i] <= 1 + lost
      BY <1>1, <2>3, <2>4
    <3>2. QED
      BY <2>2, <2>4, <3>1 DEF SweepInv, SentInv, EscalatedOnce
  <2>8. SentInv'
    BY <1>1, <2>1, <2>2, <2>4, <2>7 DEF SweepInv, SentInv
  <2>9. QED
    BY <1>1, <2>3, <2>4, <2>5, <2>6, <2>8
<1>6. CASE MarkEscalated
  <2>1. /\ marking \in Ids /\ marking' = None
        /\ UNCHANGED <<issued, due, sent, lost, handled>>
        /\ notes' = IF notes[marking] = NoNote THEN notes
                    ELSE [notes EXCEPT ![marking].escalated = TRUE]
    BY <1>1, <1>6 DEF MarkEscalated, history
  <2>2. \A i \in Ids \ {marking} : notes'[i] = notes[i]
    BY <2>1 DEF TypeOK
  <2>3. notes[marking] = NoNote => notes'[marking] = NoNote
    BY <2>1
  <2>4. ASSUME notes[marking] # NoNote
        PROVE  /\ notes'[marking].escalated
               /\ notes'[marking].acked = notes[marking].acked
               /\ notes'[marking].resolved = notes[marking].resolved
    BY <1>2, <2>1, <2>4 DEF TypeOK, Note
  <2>5. FreshInv'
    BY <2>1, <2>2, <2>3 DEF SweepInv, FreshInv
  <2>6. marking \notin due
    BY <1>6 DEF SweepInv, SentInv, MarkEscalated
  <2>7. HandledInv'
    BY <1>1, <2>1, <2>2, <2>3, <2>4, <2>6 DEF SweepInv, HandledInv
  <2>8. SentInv'
    BY <1>1, <2>1, <2>2, <2>3, <2>4 DEF SweepInv, SentInv, EscalatedOnce
  <2>9. QED
    BY <2>1, <2>5, <2>7, <2>8
<1>7. CASE Tick
  <2>1. due = {} /\ UNCHANGED <<issued, due, marking, sent, lost, handled>>
    BY <1>7 DEF Tick, SweepInv, LoopInv, history
  <2>2. \A i \in Ids : /\ notes'[i] # NoNote => notes[i] # NoNote
                       /\ notes[i] = NoNote => notes'[i] = NoNote
                       /\ notes[i] # NoNote => /\ notes'[i].escalated = notes[i].escalated
                                               /\ notes'[i].acked = notes[i].acked
                                               /\ notes'[i].resolved = notes[i].resolved
    BY <1>2, <1>7 DEF Tick, Note
  <2>3. QED
    BY <1>1, <2>1, <2>2 DEF SweepInv, FreshInv, HandledInv, SentInv, EscalatedOnce
<1>8. CASE PruneOlderThan
  <2>1. due = {} /\ UNCHANGED <<issued, due, marking, sent, lost, handled>>
    BY <1>8 DEF PruneOlderThan, SweepInv, LoopInv, history, poller
  <2>2. \A i \in Ids : notes'[i] = NoNote \/ notes'[i] = notes[i]
    BY <1>8 DEF PruneOlderThan
  <2>3. QED
    BY <1>1, <2>1, <2>2 DEF SweepInv, FreshInv, HandledInv, SentInv, EscalatedOnce
<1>9. QED
  BY <1>3, <1>4, <1>5, <1>6, <1>7, <1>8 DEF Loop

\* Requests, readings and restarts send nothing.
LEMMA SweepOthers ==
    ASSUME TypeOK, SweepInv, \/ \E a \in Alerts : Operate(a) \/ Reading(a)
                             \/ \E i \in Ids : Ack(i) \/ Snooze(i)
                             \/ Restart \/ UNCHANGED vars
    PROVE  (FreshInv /\ HandledInv /\ SentInv)' /\ UNCHANGED sent
<1>1. /\ sent \in [Ids -> Nat] /\ lost \in Nat /\ handled \subseteq Ids /\ due \subseteq Ids
      /\ marking \in Ids \cup {None} /\ None \notin Ids
  BY DEF TypeOK, None, Ids
<1>2. \A i \in Ids : notes[i] # NoNote => notes[i] \in Note
  BY DEF TypeOK
<1>3. CASE (\E a \in Alerts : Operate(a) \/ Reading(a)) \/ UNCHANGED vars
  <2>1. UNCHANGED <<notes, issued, due, marking, sent, lost, handled>>
    BY <1>3 DEF Operate, Mute, Unmute, CreateMaintenance, DeleteMaintenance, UpdateRule,
       SetPolled, Reading, vars, table, history, poller
  <2>2. QED
    BY <2>1 DEF SweepInv, FreshInv, HandledInv, SentInv, EscalatedOnce
<1>4. ASSUME NEW j \in Ids, Ack(j) \/ Snooze(j)
      PROVE  (FreshInv /\ HandledInv /\ SentInv)' /\ UNCHANGED sent
  <2>1. UNCHANGED <<issued, due, marking, sent, lost>> /\ notes[j] # NoNote
    BY <1>4 DEF Ack, Snooze, history, poller
  <2>2. \A i \in Ids \ {j} : notes'[i] = notes[i]
    BY <1>4 DEF Ack, Snooze, TypeOK
  <2>3. /\ notes'[j].escalated = notes[j].escalated
        /\ notes[j].acked => notes'[j].acked
        /\ notes'[j].resolved = notes[j].resolved
    BY <1>2, <1>4, <2>1 DEF Ack, Snooze, TypeOK, Note
  <2>4. \A i \in handled' \ handled : i = j /\ j \notin due /\ notes'[j].acked
    BY <1>2, <1>4, <2>1 DEF Ack, Snooze, TypeOK, Note, history
  <2>5. handled' \subseteq Ids /\ handled \subseteq handled'
    BY <1>1, <1>4 DEF Ack, Snooze, history
  <2>6. FreshInv'
    BY <2>1, <2>2, <2>4 DEF SweepInv, FreshInv
  <2>7. HandledInv'
    <3>1. \A i \in due : notes'[i] # NoNote /\ ~notes'[i].escalated
      <4>1. notes'[j] # NoNote
        BY <1>2, <1>4, <2>1 DEF Ack, Snooze, TypeOK, Note, NoNote
      <4>2. QED
        BY <1>1, <2>2, <2>3, <4>1 DEF SweepInv, HandledInv
    <3>2. ASSUME NEW i \in handled'
          PROVE  i \notin due /\ (notes'[i] # NoNote => notes'[i].acked \/ notes'[i].resolved)
      <4>1. CASE i \in handled
        BY <1>1, <2>1, <2>2, <2>3, <4>1 DEF SweepInv, HandledInv
      <4>2. CASE i \notin handled
        BY <2>4, <4>2
      <4>3. QED
        BY <4>1, <4>2
    <3>3. QED
      BY <2>1, <3>1, <3>2 DEF HandledInv
  <2>8. SentInv'
    BY <1>1, <2>1, <2>2, <2>3 DEF SweepInv, SentInv, EscalatedOnce
  <2>9. QED
    BY <2>1, <2>6, <2>7, <2>8
<1>5. CASE Restart
  <2>1. /\ UNCHANGED <<notes, issued, sent, handled>> /\ due' = {} /\ marking' = None
        /\ lost' = IF marking = None THEN lost ELSE lost + 1
    BY <1>5 DEF Restart, table
  <2>2. lost' \in Nat /\ lost <= lost' /\ (marking # None => lost' = lost + 1)
    BY <1>1, <2>1
  <2>3. FreshInv' /\ HandledInv'
    BY <2>1 DEF SweepInv, FreshInv, HandledInv
  <2>4. SentInv'
    <3>1. ASSUME NEW i \in Ids PROVE sent[i] <= 1 + lost'
      BY <1>1, <2>2 DEF SweepInv, SentInv, EscalatedOnce
    <3>2. ASSUME NEW i \in Ids, notes[i] # NoNote, ~notes[i].escalated PROVE sent[i] <= lost'
      <4>1. sent[i] \in Nat /\ sent[i] <= 1 + lost /\ (marking # i => sent[i] <= lost)
        BY <1>1, <3>2 DEF SweepInv, SentInv, EscalatedOnce
      <4>2. QED
        BY <1>1, <2>2, <4>1
    <3>3. QED
      BY <1>1, <2>1, <3>1, <3>2 DEF SentInv, EscalatedOnce
  <2>5. QED
    BY <2>1, <2>3, <2>4
<1>6. QED
  BY <1>3, <1>4, <1>5

\* The invariant of the sweep, and what a step may send.
LEMMA SweepNext ==
    TypeOK /\ SweepInv /\ [Next]_vars => SweepInv' /\ \A i \in handled : sent'[i] = sent[i]
<1>1. SUFFICES ASSUME TypeOK, SweepInv, [Next]_vars
               PROVE  SweepInv' /\ \A i \in handled : sent'[i] = sent[i]
  OBVIOUS
<1>2. LoopInv'
  BY <1>1, LoopNext DEF SweepInv
<1>3. (FreshInv /\ HandledInv /\ SentInv)' /\ \A i \in handled : sent'[i] = sent[i]
  BY <1>1, SweepEvaluate, SweepLoop, SweepOthers DEF Next
<1>4. QED
  BY <1>2, <1>3 DEF SweepInv

LEMMA SweepInit == Init => SweepInv
<1>1. SUFFICES ASSUME Init PROVE SweepInv
  OBVIOUS
<1>2. LoopInv
  BY <1>1, LoopInit
<1>3. FreshInv /\ HandledInv
  BY <1>1 DEF Init, FreshInv, HandledInv
<1>4. SentInv
  BY <1>1 DEF Init, SentInv, EscalatedOnce, None
<1>5. QED
  BY <1>2, <1>3, <1>4 DEF SweepInv

\* No incident is escalated twice, but for the crashes between a send and its mark.
THEOREM EscalatedOnceHolds == Spec => []EscalatedOnce
<1>1. SweepInv => EscalatedOnce
  BY DEF SweepInv, SentInv
<1>2. QED
  BY <1>1, SweepInit, SweepNext, TypeCorrect, PTL DEF Spec

\* An incident that was acknowledged or resolved before a sweep queried is not
\* escalated by that sweep or any later one.
THEOREM HandledStaysQuietHolds == Spec => HandledStaysQuiet
<1>1. TypeOK /\ SweepInv /\ [Next]_vars => [\A i \in handled : sent'[i] = sent[i]]_vars
  BY SweepNext
<1>2. QED
  BY <1>1, SweepInit, SweepNext, TypeCorrect, PTL DEF Spec, HandledStaysQuiet

-----------------------------------------------------------------------------
(* The table lives up to IncidentLife *)

\* A recovery that is about to be recorded has an incident to resolve.
RecoverInv == \A a \in Alerts : work[a] = "resolve" => OpenNotes(a) # {}

LifeInv == SweepInv /\ OpenInv /\ RecoverInv

Resolving(a) == work[a] = "resolve"

\* An open incident by its parts, and an incident with one of them rewritten.
Incident(x, y, z) == [open |-> TRUE, acked |-> x, escalated |-> y, recovering |-> z]
Acked(n) == [n EXCEPT !.acked = TRUE]
Escalated(n) == [n EXCEPT !.escalated = TRUE]
Recovering(n, z) == [n EXCEPT !.recovering = z]

\* The incident of an alert is the one row that is open, before and after a step.
LEMMA IncidentIs ==
    ASSUME OneOpenIncident, NEW a \in Alerts, NEW i \in OpenNotes(a)
    PROVE  LET n == IncidentOf(a) IN
           /\ n = Incident(notes[i].acked, notes[i].escalated, Resolving(a))
           /\ n.open /\ n.acked = notes[i].acked /\ n.escalated = notes[i].escalated
           /\ n.recovering = Resolving(a)
           /\ Acked(n) = Incident(TRUE, notes[i].escalated, Resolving(a))
           /\ Escalated(n) = Incident(notes[i].acked, TRUE, Resolving(a))
           /\ Recovering(n, TRUE) = Incident(notes[i].acked, notes[i].escalated, TRUE)
           /\ Recovering(n, FALSE) = Incident(notes[i].acked, notes[i].escalated, FALSE)
<1>1. (CHOOSE j \in OpenNotes(a) : TRUE) = i
  BY DEF OneOpenIncident
<1>2. OpenNotes(a) # {}
  OBVIOUS
<1>3. IncidentOf(a) = Incident(notes[i].acked, notes[i].escalated, Resolving(a))
  BY <1>1, <1>2 DEF IncidentOf, Incident, Resolving
<1>4. PICK x, y, z : x = notes[i].acked /\ y = notes[i].escalated /\ z = Resolving(a)
  OBVIOUS
<1>5. PICK n : n = IncidentOf(a)
  OBVIOUS
<1>6. n = Incident(x, y, z)
  BY <1>3, <1>4, <1>5
<1>7. n.open /\ n.acked = x /\ n.escalated = y /\ n.recovering = z
  BY <1>6 DEF Incident
<1>8. Acked(n) = Incident(TRUE, y, z)
  <2>1. ASSUME NEW m, m = Acked(n) PROVE m = Incident(TRUE, y, z)
    BY <1>6, <2>1 DEF Incident, Acked
  <2>2. QED
    BY <2>1
<1>9. Escalated(n) = Incident(x, TRUE, z)
  <2>1. ASSUME NEW m, m = Escalated(n) PROVE m = Incident(x, TRUE, z)
    BY <1>6, <2>1 DEF Incident, Escalated
  <2>2. QED
    BY <2>1
<1>10. Recovering(n, TRUE) = Incident(x, y, TRUE)
  <2>1. ASSUME NEW m, m = Recovering(n, TRUE) PROVE m = Incident(x, y, TRUE)
    BY <1>6, <2>1 DEF Incident, Recovering
  <2>2. QED
    BY <2>1
<1>11. Recovering(n, FALSE) = Incident(x, y, FALSE)
  <2>1. ASSUME NEW m, m = Recovering(n, FALSE) PROVE m = Incident(x, y, FALSE)
    BY <1>6, <2>1 DEF Incident, Recovering
  <2>2. QED
    BY <2>1
<1>12. QED
  BY <1>3, <1>4, <1>5, <1>7, <1>8, <1>9, <1>10, <1>11

LEMMA IncidentBecomes ==
    ASSUME OneOpenIncident', NEW a \in Alerts, NEW i \in OpenNotes(a)'
    PROVE  IncidentOf(a)' = Incident(notes'[i].acked, notes'[i].escalated, Resolving(a)')
<1>1. (CHOOSE j \in OpenNotes(a)' : TRUE) = i
  BY DEF OneOpenIncident
<1>2. OpenNotes(a)' # {}
  OBVIOUS
<1>3. QED
  BY <1>1, <1>2 DEF IncidentOf, Incident, Resolving

\* An alert whose open rows, their flags and whose recovery stay, stays.
LEMMA IncidentStays ==
    ASSUME OneOpenIncident, OneOpenIncident', NEW a \in Alerts,
           OpenNotes(a)' = OpenNotes(a),
           \A i \in OpenNotes(a) : /\ notes'[i].acked = notes[i].acked
                                   /\ notes'[i].escalated = notes[i].escalated,
           Resolving(a)' = Resolving(a)
    PROVE  IncidentOf(a)' = IncidentOf(a)
<1>1. CASE OpenNotes(a) = {}
  BY <1>1 DEF IncidentOf
<1>2. ASSUME NEW i \in OpenNotes(a) PROVE IncidentOf(a)' = IncidentOf(a)
  <2>1. /\ IncidentOf(a) = Incident(notes[i].acked, notes[i].escalated, Resolving(a))
        /\ IncidentOf(a)' = Incident(notes'[i].acked, notes'[i].escalated, Resolving(a)')
    BY IncidentIs, IncidentBecomes
  <2>2. notes'[i].acked = notes[i].acked /\ notes'[i].escalated = notes[i].escalated
    OBVIOUS
  <2>3. QED
    BY <2>1, <2>2
<1>3. QED
  BY <1>1, <1>2

\* A step that changes the incident of one alert changes the map there.
LEMMA LifeAt ==
    ASSUME NEW a \in Alerts, \A b \in Alerts \ {a} : IncidentOf(b)' = IncidentOf(b)
    PROVE  [b \in Alerts |-> IncidentOf(b)]'
             = [[b \in Alerts |-> IncidentOf(b)] EXCEPT ![a] = IncidentOf(a)']
OBVIOUS

\* Every step of a goroutine is one of its alert's life, or none.
LEMMA LifeEvaluate ==
    ASSUME TypeOK, LifeInv, OneOpenIncident', NEW a \in Alerts, Evaluate(a)
    PROVE  /\ \A b \in Alerts \ {a} : IncidentOf(b)' = IncidentOf(b)
           /\ \/ IncidentOf(a)' = IncidentOf(a)
              \/ ~IncidentOf(a).open /\ IncidentOf(a)' = Incident(FALSE, FALSE, FALSE)
              \/ IncidentOf(a).open /\ IncidentOf(a)' = Recovering(IncidentOf(a), TRUE)
              \/ IncidentOf(a).recovering /\ IncidentOf(a)' = Life!Quiet
<1>0. OneOpenIncident
  BY DEF LifeInv, OpenInv
<1>1. \A b \in Alerts \ {a} : Resolving(b)' = Resolving(b)
  BY DEF Evaluate, Unreported, Breaching, Recovered, Gate, Open, Resolve, Tell, Goto, TypeOK,
     Resolving
<1>2. CASE Unreported(a) \/ Breaching(a) \/ Gate(a) \/ Tell(a)
  <2>1. UNCHANGED notes
    BY <1>2 DEF Unreported, Breaching, Gate, Tell, table
  <2>2. work[a] # "resolve" /\ work'[a] # "resolve"
    BY <1>2 DEF Unreported, Breaching, Gate, Tell, Goto, TypeOK
  <2>3. ASSUME NEW b \in Alerts PROVE IncidentOf(b)' = IncidentOf(b)
    <3>1. OpenNotes(b)' = OpenNotes(b)
      BY <2>1 DEF OpenNotes, IsOpen
    <3>2. Resolving(b)' = Resolving(b)
      BY <1>1, <2>2 DEF Resolving
    <3>3. QED
      BY <1>0, <2>1, <3>1, <3>2, IncidentStays
  <2>4. QED
    BY <2>3
<1>3. CASE Recovered(a)
  <2>1. UNCHANGED notes
    BY <1>3 DEF Recovered, table
  <2>2. \A b \in Alerts : OpenNotes(b)' = OpenNotes(b)
    BY <2>1 DEF OpenNotes, IsOpen
  <2>3. ASSUME NEW b \in Alerts \ {a} PROVE IncidentOf(b)' = IncidentOf(b)
    BY <1>0, <1>1, <2>1, <2>2, IncidentStays
  <2>4. CASE OpenNotes(a) = {}
    BY <2>2, <2>3, <2>4 DEF IncidentOf
  <2>5. ASSUME NEW i \in OpenNotes(a)
        PROVE  IncidentOf(a).open /\ IncidentOf(a)' = Recovering(IncidentOf(a), TRUE)
    <3>1. Resolving(a)' = TRUE
      BY <1>3, <2>5 DEF Recovered, ActiveExists, Goto, TypeOK, Resolving
    <3>2. /\ IncidentOf(a).open
          /\ Recovering(IncidentOf(a), TRUE) = Incident(notes[i].acked, notes[i].escalated, TRUE)
      BY <1>0, IncidentIs
    <3>3. IncidentOf(a)' = Incident(notes[i].acked, notes[i].escalated, TRUE)
      BY <2>1, <2>2, <3>1, IncidentBecomes
    <3>4. QED
      BY <3>2, <3>3
  <2>6. QED
    BY <2>3, <2>4, <2>5
<1>4. CASE Open(a)
  <2>1. issued + 1 \in Ids /\ issued + 1 > issued
    <3>1. issued \in 0..MaxNotes /\ issued < MaxNotes
      BY <1>4 DEF Open, TypeOK
    <3>2. QED
      BY <3>1, IncidentsAssumption DEF Ids
  <2>2. notes[issued + 1] = NoNote
    BY <2>1 DEF LifeInv, SweepInv, FreshInv
  <2>3. notes' = [notes EXCEPT ![issued + 1] =
                    [alert |-> a, age |-> 0, resolved |-> FALSE, acked |-> FALSE,
                     escalated |-> FALSE, snoozed |-> 0]]
    BY <1>4 DEF Open
  <2>4. notes \in [Ids -> Note \cup {NoNote}] /\ work'[a] = "tell down"
    BY <1>4 DEF Open, Goto, TypeOK
  <2>5. ASSUME NEW b \in Alerts \ {a} PROVE IncidentOf(b)' = IncidentOf(b)
    <3>1. OpenNotes(b)' = OpenNotes(b) /\ \A i \in OpenNotes(b) : notes'[i] = notes[i]
      BY <2>1, <2>2, <2>3, <2>4 DEF OpenNotes, IsOpen
    <3>2. QED
      BY <1>0, <1>1, <3>1, IncidentStays
  <2>6. OpenNotes(a) = {}
    BY <1>4 DEF Open, LifeInv, OpenInv
  <2>7. issued + 1 \in OpenNotes(a)'
    BY <2>1, <2>3, <2>4 DEF OpenNotes, IsOpen, NoNote
  <2>8. IncidentOf(a)' = Incident(FALSE, FALSE, FALSE)
    <3>1. IncidentOf(a)' = Incident(notes'[issued + 1].acked, notes'[issued + 1].escalated,
                                    Resolving(a)')
      BY <2>7, IncidentBecomes
    <3>2. notes'[issued + 1].acked = FALSE /\ notes'[issued + 1].escalated = FALSE
      BY <2>1, <2>3, <2>4
    <3>3. Resolving(a)' = FALSE
      BY <2>4 DEF Resolving
    <3>4. QED
      BY <3>1, <3>2, <3>3
  <2>9. ~IncidentOf(a).open
    BY <2>6 DEF IncidentOf
  <2>10. QED
    BY <2>5, <2>8, <2>9
<1>5. CASE Resolve(a)
  <2>1. notes' = [i \in Ids |-> IF i \in OpenNotes(a) THEN [notes[i] EXCEPT !.resolved = TRUE]
                                ELSE notes[i]]
    BY <1>5 DEF Resolve, ResolveActive
  <2>2. notes \in [Ids -> Note \cup {NoNote}]
    BY DEF TypeOK
  <2>3. \A i \in OpenNotes(a) : i \in Ids /\ notes[i] \in Note /\ ~IsOpen(i)'
    BY <2>1, <2>2 DEF OpenNotes, IsOpen, Note
  <2>4. \A i \in Ids \ OpenNotes(a) : notes'[i] = notes[i]
    BY <2>1
  <2>5. ASSUME NEW b \in Alerts \ {a} PROVE IncidentOf(b)' = IncidentOf(b)
    <3>1. \A i \in OpenNotes(a) : i \notin OpenNotes(b)
      BY DEF OpenNotes
    <3>2. OpenNotes(b)' = OpenNotes(b) /\ \A i \in OpenNotes(b) : notes'[i] = notes[i]
      BY <2>3, <2>4, <3>1 DEF OpenNotes, IsOpen
    <3>3. QED
      BY <1>0, <1>1, <3>2, IncidentStays
  <2>6. OpenNotes(a)' = {}
    BY <2>3, <2>4 DEF OpenNotes, IsOpen
  <2>7. IncidentOf(a).recovering
    <3>1. PICK i \in OpenNotes(a) : TRUE
      BY <1>5 DEF Resolve, LifeInv, RecoverInv
    <3>2. IncidentOf(a).recovering = Resolving(a)
      BY <1>0, <3>1, IncidentIs
    <3>3. Resolving(a)
      BY <1>5 DEF Resolve, Resolving
    <3>4. QED
      BY <3>2, <3>3
  <2>8. QED
    BY <2>5, <2>6, <2>7 DEF IncidentOf, Life!Quiet
<1>6. QED
  BY <1>2, <1>3, <1>4, <1>5 DEF Evaluate

\* So is every step of the loop, which escalates one incident or none.
LEMMA LifeLoop ==
    ASSUME TypeOK, LifeInv, OneOpenIncident', Loop \/ PruneOlderThan
    PROVE  \/ \A b \in Alerts : IncidentOf(b)' = IncidentOf(b)
           \/ \E a \in Alerts :
                /\ \A b \in Alerts \ {a} : IncidentOf(b)' = IncidentOf(b)
                /\ IncidentOf(a).open /\ ~IncidentOf(a).escalated
                /\ IncidentOf(a)' = Escalated(IncidentOf(a))
<1>0. OneOpenIncident /\ notes \in [Ids -> Note \cup {NoNote}]
  BY DEF LifeInv, OpenInv, TypeOK
<1>1. \A b \in Alerts : Resolving(b)' = Resolving(b)
  <2>1. CASE PollOnce
    <3>1. \A b \in Alerts : work[b] = "done"
      BY <2>1 DEF PollOnce, LifeInv, SweepInv, LoopInv
    <3>2. QED
      BY <2>1, <3>1 DEF PollOnce, Resolving
  <2>2. CASE ~PollOnce
    BY <2>2 DEF Loop, Sweep, EscalateSend, MarkEscalated, PassEnds, Tick, PruneOlderThan, poller, Resolving
  <2>3. QED
    BY <2>1, <2>2
<1>2. ASSUME NEW b \in Alerts, \A i \in Ids : /\ IsOpen(i)' <=> IsOpen(i)
                                              /\ IsOpen(i) => /\ notes'[i].alert = notes[i].alert
                                                              /\ notes'[i].acked = notes[i].acked
                                                              /\ notes'[i].escalated = notes[i].escalated
      PROVE  IncidentOf(b)' = IncidentOf(b)
  <2>1. OpenNotes(b)' = OpenNotes(b)
    BY <1>2 DEF OpenNotes
  <2>2. \A i \in OpenNotes(b) : notes'[i].acked = notes[i].acked /\ notes'[i].escalated = notes[i].escalated
    BY <1>2 DEF OpenNotes
  <2>3. QED
    BY <1>0, <1>1, <2>1, <2>2, IncidentStays
<1>3. CASE PollOnce \/ Sweep \/ EscalateSend \/ PassEnds
  <2>1. UNCHANGED notes
    BY <1>3 DEF PollOnce, Sweep, EscalateSend, PassEnds, table
  <2>2. QED
    BY <1>2, <2>1 DEF IsOpen
<1>4. CASE Tick
  <2>1. \A i \in Ids : /\ IsOpen(i)' <=> IsOpen(i)
                       /\ IsOpen(i) => /\ notes'[i].alert = notes[i].alert
                                       /\ notes'[i].acked = notes[i].acked
                                       /\ notes'[i].escalated = notes[i].escalated
    BY <1>0, <1>4 DEF Tick, IsOpen, Note, NoNote
  <2>2. QED
    BY <1>2, <2>1
<1>5. CASE PruneOlderThan
  <2>1. \A i \in Ids : /\ IsOpen(i)' <=> IsOpen(i)
                       /\ IsOpen(i) => notes'[i] = notes[i]
    BY <1>0, <1>5 DEF PruneOlderThan, IsOpen, Note
  <2>2. QED
    BY <1>2, <2>1
<1>6. CASE MarkEscalated
  <2>1. PICK m \in Ids : notes' = IF notes[m] = NoNote THEN notes
                                  ELSE [notes EXCEPT ![m].escalated = TRUE]
    BY <1>6 DEF MarkEscalated, TypeOK
  <2>2. \A i \in Ids \ {m} : notes'[i] = notes[i]
    BY <1>0, <2>1
  <2>3. IsOpen(m)' <=> IsOpen(m)
    <3>1. CASE notes[m] = NoNote
      BY <2>1, <3>1 DEF IsOpen
    <3>2. CASE notes[m] # NoNote
      <4>1. notes[m] \in Note /\ notes'[m] = [notes[m] EXCEPT !.escalated = TRUE]
        BY <1>0, <2>1, <3>2
      <4>2. notes'[m].resolved = notes[m].resolved
        BY <4>1 DEF Note
      <4>3. notes'[m] # NoNote
        BY <4>1 DEF Note, NoNote
      <4>4. QED
        BY <3>2, <4>2, <4>3 DEF IsOpen
    <3>3. QED
      BY <3>1, <3>2
  <2>4. CASE ~IsOpen(m) \/ notes[m].escalated
    <3>1. IsOpen(m) => notes'[m] = notes[m]
      BY <1>0, <2>1, <2>4 DEF IsOpen, Note
    <3>2. \A i \in Ids : IsOpen(i) => notes'[i] = notes[i]
      BY <2>2, <3>1
    <3>3. \A i \in Ids \ {m} : IsOpen(i)' <=> IsOpen(i)
      BY <2>2 DEF IsOpen
    <3>4. QED
      BY <1>2, <2>3, <3>2, <3>3
  <2>5. CASE IsOpen(m) /\ ~notes[m].escalated
    <3>0. notes[m] \in Note /\ notes[m] # NoNote
      BY <1>0, <2>1, <2>5 DEF IsOpen
    <3>1. notes'[m] = [notes[m] EXCEPT !.escalated = TRUE]
      BY <1>0, <2>1, <3>0
    <3>2. PICK a \in Alerts : notes[m].alert = a
      BY <3>0 DEF Note
    <3>3. m \in OpenNotes(a) /\ m \in OpenNotes(a)'
      <4>1. notes'[m].alert = notes[m].alert
        BY <3>0, <3>1 DEF Note
      <4>2. QED
        BY <2>1, <2>3, <2>5, <3>2, <4>1 DEF OpenNotes
    <3>4. ASSUME NEW b \in Alerts \ {a} PROVE IncidentOf(b)' = IncidentOf(b)
      <4>1. m \notin OpenNotes(b) /\ m \notin OpenNotes(b)'
        BY <3>0, <3>1, <3>2 DEF OpenNotes, Note
      <4>2. OpenNotes(b)' = OpenNotes(b) /\ \A i \in OpenNotes(b) : notes'[i] = notes[i]
        BY <2>2, <4>1 DEF OpenNotes, IsOpen
      <4>3. QED
        BY <1>0, <1>1, <4>2, IncidentStays
    <3>5. /\ Escalated(IncidentOf(a)) = Incident(notes[m].acked, TRUE, Resolving(a))
          /\ IncidentOf(a).open /\ IncidentOf(a).escalated = notes[m].escalated
      BY <1>0, <3>3, IncidentIs
    <3>6. IncidentOf(a)' = Incident(notes'[m].acked, notes'[m].escalated, Resolving(a)')
      BY <3>3, IncidentBecomes
    <3>7. /\ notes'[m].acked = notes[m].acked
          /\ notes'[m].escalated = TRUE
          /\ Resolving(a)' = Resolving(a)
      BY <1>1, <3>0, <3>1 DEF Note
    <3>8. IncidentOf(a)' = Escalated(IncidentOf(a))
      BY <3>5, <3>6, <3>7
    <3>9. QED
      BY <2>5, <3>4, <3>5, <3>8
  <2>6. QED
    BY <2>4, <2>5
<1>7. QED
  BY <1>3, <1>4, <1>5, <1>6 DEF Loop

\* Operators acknowledge one incident or none; a restart forgets what was seen.
LEMMA LifeOperate ==
    ASSUME TypeOK, LifeInv, OneOpenIncident',
           \/ \E b \in Alerts : Operate(b) \/ Reading(b)
           \/ \E i \in Ids : Ack(i) \/ Snooze(i)
           \/ UNCHANGED vars
    PROVE  \/ \A b \in Alerts : IncidentOf(b)' = IncidentOf(b)
           \/ \E a \in Alerts :
                /\ \A b \in Alerts \ {a} : IncidentOf(b)' = IncidentOf(b)
                /\ IncidentOf(a).open /\ ~IncidentOf(a).acked
                /\ IncidentOf(a)' = Acked(IncidentOf(a))
<1>0. OneOpenIncident /\ notes \in [Ids -> Note \cup {NoNote}]
  BY DEF LifeInv, OpenInv, TypeOK
<1>1. \A b \in Alerts : Resolving(b)' = Resolving(b)
  BY DEF Operate, Mute, Unmute, CreateMaintenance, DeleteMaintenance, UpdateRule, SetPolled,
     Reading, Ack, Snooze, vars, poller, Resolving
<1>2. CASE UNCHANGED notes
  <2>1. ASSUME NEW b \in Alerts PROVE IncidentOf(b)' = IncidentOf(b)
    <3>1. OpenNotes(b)' = OpenNotes(b)
      BY <1>2 DEF OpenNotes, IsOpen
    <3>2. QED
      BY <1>0, <1>1, <1>2, <3>1, IncidentStays
  <2>2. QED
    BY <2>1
<1>3. ASSUME NEW m \in Ids, notes[m] # NoNote,
             Ack(m) \/ Snooze(m)
      PROVE  \/ \A b \in Alerts : IncidentOf(b)' = IncidentOf(b)
             \/ \E a \in Alerts :
                  /\ \A b \in Alerts \ {a} : IncidentOf(b)' = IncidentOf(b)
                  /\ IncidentOf(a).open /\ ~IncidentOf(a).acked
                  /\ IncidentOf(a)' = Acked(IncidentOf(a))
  <2>1. notes[m] \in Note /\ \A i \in Ids \ {m} : notes'[i] = notes[i]
    BY <1>0, <1>3 DEF Ack, Snooze
  <2>2. /\ notes'[m].alert = notes[m].alert /\ notes'[m].resolved = notes[m].resolved
        /\ notes'[m].escalated = notes[m].escalated
        /\ notes'[m] # NoNote
        /\ \/ notes'[m].acked = notes[m].acked
           \/ ~notes[m].acked /\ notes'[m].acked = TRUE
    BY <1>0, <1>3, <2>1 DEF Ack, Snooze, Note, NoNote
  <2>3. \A b \in Alerts : OpenNotes(b)' = OpenNotes(b)
    BY <1>3, <2>1, <2>2 DEF OpenNotes, IsOpen
  <2>4. ASSUME NEW b \in Alerts, m \notin OpenNotes(b) \/ notes'[m].acked = notes[m].acked
        PROVE  IncidentOf(b)' = IncidentOf(b)
    <3>1. \A i \in OpenNotes(b) : /\ notes'[i].acked = notes[i].acked
                                  /\ notes'[i].escalated = notes[i].escalated
      BY <2>1, <2>2, <2>4 DEF OpenNotes
    <3>2. QED
      BY <1>0, <1>1, <2>3, <3>1, IncidentStays
  <2>5. ASSUME NEW a \in Alerts, m \in OpenNotes(a), notes'[m].acked # notes[m].acked
        PROVE  /\ \A b \in Alerts \ {a} : IncidentOf(b)' = IncidentOf(b)
               /\ IncidentOf(a).open /\ ~IncidentOf(a).acked
               /\ IncidentOf(a)' = Acked(IncidentOf(a))
    <3>1. \A b \in Alerts \ {a} : m \notin OpenNotes(b)
      BY <2>5 DEF OpenNotes
    <3>2. /\ Acked(IncidentOf(a)) = Incident(TRUE, notes[m].escalated, Resolving(a))
          /\ IncidentOf(a).open /\ IncidentOf(a).acked = notes[m].acked
      BY <1>0, <2>5, IncidentIs
    <3>3. IncidentOf(a)' = Incident(notes'[m].acked, notes'[m].escalated, Resolving(a)')
      BY <2>3, <2>5, IncidentBecomes
    <3>4. notes'[m].acked = TRUE /\ ~notes[m].acked /\ notes'[m].escalated = notes[m].escalated
      BY <2>2, <2>5
    <3>5. QED
      BY <1>1, <2>4, <3>1, <3>2, <3>3, <3>4
  <2>6. QED
    BY <2>4, <2>5
<1>4. QED
  BY <1>2, <1>3 DEF Operate, Mute, Unmute, CreateMaintenance, DeleteMaintenance, UpdateRule,
     SetPolled, Reading, Ack, Snooze, vars, table

LEMMA LifeRestart ==
    ASSUME TypeOK, LifeInv, OneOpenIncident', Restart
    PROVE  \A a \in Alerts : IncidentOf(a)' = Recovering(IncidentOf(a), FALSE)
<1>0. OneOpenIncident
  BY DEF LifeInv, OpenInv
<1>1. SUFFICES ASSUME NEW a \in Alerts PROVE IncidentOf(a)' = Recovering(IncidentOf(a), FALSE)
  OBVIOUS
<1>2. UNCHANGED notes /\ OpenNotes(a)' = OpenNotes(a) /\ Resolving(a)' = FALSE
  BY DEF Restart, table, OpenNotes, IsOpen, Resolving
<1>3. CASE OpenNotes(a) = {}
  <2>1. /\ IncidentOf(a) = Life!Quiet
        /\ IncidentOf(a)' = Life!Quiet
    BY <1>2, <1>3 DEF IncidentOf, Life!Quiet
  <2>2. ASSUME NEW m, m = Recovering(Life!Quiet, FALSE) PROVE m = Life!Quiet
    BY <2>2 DEF Recovering, Life!Quiet
  <2>3. QED
    BY <2>1, <2>2
<1>4. ASSUME NEW i \in OpenNotes(a) PROVE IncidentOf(a)' = Recovering(IncidentOf(a), FALSE)
  BY <1>0, <1>2, IncidentIs, IncidentBecomes
<1>5. QED
  BY <1>3, <1>4

\* A recovery about to be recorded has its incident: only Resolve closes one.
LEMMA RecoverNext == TypeOK /\ LifeInv /\ [Next]_vars => RecoverInv'
<1>1. SUFFICES ASSUME TypeOK, LifeInv, [Next]_vars, NEW b \in Alerts, work'[b] = "resolve"
               PROVE  OpenNotes(b)' # {}
  BY DEF RecoverInv
<1>2. notes \in [Ids -> Note \cup {NoNote}]
  BY <1>1 DEF TypeOK
<1>3. ASSUME NEW a \in Alerts, Evaluate(a) PROVE OpenNotes(b)' # {}
  <2>1. CASE a # b
    <3>1. work[b] = "resolve"
      BY <1>1, <1>3, <2>1 DEF Evaluate, Unreported, Breaching, Recovered, Gate, Open, Resolve, Tell,
         Goto, TypeOK
    <3>2. PICK i \in OpenNotes(b) : TRUE
      BY <1>1, <3>1 DEF LifeInv, RecoverInv
    <3>3. notes'[i] = notes[i]
      <4>1. CASE Open(a)
        <5>1. issued + 1 \in Ids => notes[issued + 1] = NoNote
          <6>1. issued \in 0..MaxNotes
            BY <1>1 DEF TypeOK
          <6>2. QED
            BY <1>1, <6>1, IncidentsAssumption DEF LifeInv, SweepInv, FreshInv, Ids
        <5>2. i # issued + 1
          BY <3>2, <5>1 DEF OpenNotes, IsOpen
        <5>3. QED
          BY <1>2, <4>1, <5>2 DEF Open, OpenNotes
      <4>2. CASE Resolve(a)
        BY <2>1, <4>2 DEF Resolve, ResolveActive, OpenNotes
      <4>3. CASE Unreported(a) \/ Breaching(a) \/ Recovered(a) \/ Gate(a) \/ Tell(a)
        BY <4>3 DEF Unreported, Breaching, Recovered, Gate, Tell, table
      <4>4. QED
        BY <1>3, <4>1, <4>2, <4>3 DEF Evaluate
    <3>4. QED
      BY <3>2, <3>3 DEF OpenNotes, IsOpen
  <2>2. CASE a = b
    <3>1. Recovered(b) /\ OpenNotes(b) # {}
      BY <1>1, <1>3, <2>2 DEF Evaluate, Unreported, Breaching, Recovered, Gate, Open, Resolve, Tell,
         Goto, TypeOK, ActiveExists
    <3>2. QED
      BY <3>1 DEF Recovered, table, OpenNotes, IsOpen
  <2>3. QED
    BY <2>1, <2>2
<1>4. CASE ~\E a \in Alerts : Evaluate(a)
  <2>1. work[b] = "resolve" /\ ~PollOnce /\ ~Restart /\ pass = "polling"
    <3>1. ~Restart /\ ~PollOnce
      BY <1>1 DEF PollOnce, Restart
    <3>2. work' = work
      BY <1>1, <1>4, <3>1 DEF Next, Loop, Sweep, EscalateSend, MarkEscalated, PassEnds, Tick,
         PruneOlderThan, Operate, Mute, Unmute, CreateMaintenance, DeleteMaintenance, UpdateRule,
         SetPolled, Reading, Ack, Snooze, vars, poller
    <3>3. QED
      BY <1>1, <3>1, <3>2 DEF LifeInv, SweepInv, LoopInv
  <2>2. PICK i \in OpenNotes(b) : TRUE
    BY <1>1, <2>1 DEF LifeInv, RecoverInv
  <2>3. i \in Ids /\ notes[i] \in Note /\ notes[i] # NoNote /\ ~notes[i].resolved /\ notes[i].alert = b
    BY <1>2, <2>2 DEF OpenNotes, IsOpen
  <2>4. UNCHANGED notes \/ \E j \in Ids : Ack(j) \/ Snooze(j)
    BY <1>1, <1>4, <2>1 DEF Next, Loop, Sweep, EscalateSend, MarkEscalated, PassEnds, Tick,
       PruneOlderThan, LifeInv, SweepInv, LoopInv, Operate, Mute, Unmute, CreateMaintenance,
       DeleteMaintenance, UpdateRule, SetPolled, Reading, vars, table
  <2>5. notes'[i] # NoNote /\ ~notes'[i].resolved /\ notes'[i].alert = b
    BY <1>2, <2>3, <2>4 DEF Ack, Snooze, Note, NoNote
  <2>6. QED
    BY <2>3, <2>5 DEF OpenNotes, IsOpen
<1>5. QED
  BY <1>3, <1>4

\* Every step of Incidents is one of IncidentLife, or leaves every incident alone.
LEMMA LifeStep ==
    ASSUME TypeOK, LifeInv, OneOpenIncident', [Next]_vars
    PROVE  [Life!Next]_([a \in Alerts |-> IncidentOf(a)])
<1> DEFINE life == [b \in Alerts |-> IncidentOf(b)]
<1>1. ASSUME \A b \in Alerts : IncidentOf(b)' = IncidentOf(b) PROVE life' = life
  BY <1>1
<1>2. ASSUME NEW a \in Alerts, \A b \in Alerts \ {a} : IncidentOf(b)' = IncidentOf(b)
      PROVE  /\ life' = [life EXCEPT ![a] = IncidentOf(a)']
             /\ life[a] = IncidentOf(a)
  BY <1>2, LifeAt
<1>3. CASE \E a \in Alerts : Evaluate(a)
  <2>1. PICK a \in Alerts : Evaluate(a)
    BY <1>3
  <2>2. /\ life' = [life EXCEPT ![a] = IncidentOf(a)']
        /\ life[a] = IncidentOf(a)
    BY <1>2, <2>1, LifeEvaluate
  <2>3. CASE ~IncidentOf(a).open /\ IncidentOf(a)' = Incident(FALSE, FALSE, FALSE)
    <3>1. ASSUME NEW m, m = [Life!Quiet EXCEPT !.open = TRUE] PROVE m = Incident(FALSE, FALSE, FALSE)
      BY <3>1 DEF Life!Quiet, Incident
    <3>2. Life!Raise(a)
      BY <2>2, <2>3, <3>1 DEF Life!Raise
    <3>3. QED
      BY <3>2 DEF Life!Next
  <2>4. CASE IncidentOf(a).open /\ IncidentOf(a)' = Recovering(IncidentOf(a), TRUE)
    BY <2>2, <2>4 DEF Life!Next, Life!SeeRecovery, Recovering
  <2>5. CASE IncidentOf(a).recovering /\ IncidentOf(a)' = Life!Quiet
    BY <2>2, <2>5 DEF Life!Next, Life!Clear
  <2>6. CASE IncidentOf(a)' = IncidentOf(a)
    <3>1. \A b \in Alerts : IncidentOf(b)' = IncidentOf(b)
      BY <2>1, <2>6, LifeEvaluate
    <3>2. QED
      BY <1>1, <3>1
  <2>7. QED
    BY <2>1, <2>3, <2>4, <2>5, <2>6, LifeEvaluate
<1>4. CASE Loop \/ PruneOlderThan
  BY <1>1, <1>2, <1>4, LifeLoop DEF Life!Next, Life!Escalate, Escalated
<1>5. CASE \/ \E b \in Alerts : Operate(b) \/ Reading(b)
           \/ \E i \in Ids : Ack(i) \/ Snooze(i)
           \/ UNCHANGED vars
  BY <1>1, <1>2, <1>5, LifeOperate DEF Life!Next, Life!Acknowledge, Acked
<1>6. CASE Restart
  BY <1>6, LifeRestart DEF Life!Next, Life!Forget, Recovering
<1>7. QED
  BY <1>3, <1>4, <1>5, <1>6 DEF Next

\* Incidents implements IncidentLife: each alert has at most one incident, raised,
\* acknowledged and escalated once each, and cleared only after a recovery was seen.
THEOREM RefinesHolds == Spec => Refines
<1>1. Init => Life!Init
  BY DEF Init, Life!Init, Life!Quiet, IncidentOf, OpenNotes, IsOpen
<1>2. Init => LifeInv
  BY SweepInit DEF Init, LifeInv, OpenInv, OneOpenIncident, RecoverInv, OpenNotes, IsOpen
<1>3. TypeOK /\ LifeInv /\ [Next]_vars => LifeInv'
  BY SweepNext, OpenNext, RecoverNext DEF LifeInv
<1>4. TypeOK /\ LifeInv /\ LifeInv' /\ [Next]_vars => [Life!Next]_([a \in Alerts |-> IncidentOf(a)])
  BY LifeStep DEF LifeInv, OpenInv
<1>5. QED
  BY <1>1, <1>2, <1>3, <1>4, TypeCorrect, PTL DEF Spec, Refines, Life!Spec
=============================================================================
