---------------------------- MODULE BackupsProofs ----------------------------
(* The safety properties of Backups, for any servers, ages and bounds. *)
EXTENDS Backups, TLAPS

-----------------------------------------------------------------------------
(* Words and types *)

LEMMA WordFacts ==
    /\ DOMAIN Word = {"working", "succeeded", "failed"}
    /\ Word["working"] = {"pending", "queued"}
    /\ Word["succeeded"] = {"succeeded", "done"}
    /\ Word["failed"] = {"failed"}
    /\ Words = {"pending", "queued", "succeeded", "done", "failed"}
<1>1. /\ DOMAIN Word = {"working", "succeeded", "failed"}
      /\ Word["working"] = {"pending", "queued"}
      /\ Word["succeeded"] = {"succeeded", "done"}
      /\ Word["failed"] = {"failed"}
  BY DEF Word
<1>2. \A word : word \in Words <=> \E state \in DOMAIN Word : word \in Word[state]
  BY DEF Words
<1>3. Words = {"pending", "queued", "succeeded", "done", "failed"}
  BY <1>1, <1>2
<1>4. QED
  BY <1>1, <1>3

\* A word the poller takes for an outcome is one the panel uses for that outcome.
LEMMA TerminalTrue ==
    ASSUME NEW state \in DOMAIN Word, NEW word \in Word[state]
    PROVE  /\ BackupTerminal(word) \in {"", "succeeded", "failed"}
           /\ BackupTerminal(word) # "" => state = BackupTerminal(word)
BY WordFacts DEF BackupTerminal

-----------------------------------------------------------------------------
(* Besides its type, a row the watch has listed is still unsettled, and a run the
   panel does not know has no row                                            *)

Listed == at = "watching" => \A b \in todo : runs[b] # NoRun /\ runs[b].status \in {"pending", "running"}

Known == \A b \in Runs : panel[b] = "none" => runs[b] = NoRun

TypeInv == TypeOK /\ Listed /\ Known

LEMMA Types ==
    ASSUME TypeOK
    PROVE  /\ servers \in [Servers -> ServerState] /\ panel \in [Runs -> DOMAIN Word \cup {"none"}]
           /\ runs \in [Runs -> Run \cup {NoRun}] /\ stale \subseteq Servers
           /\ day \in 0..MaxDay /\ day \in Nat /\ day \in Never..MaxDay
           /\ succeeded \in [Servers -> Never..MaxDay] /\ faults \in 0..MaxFaults
           /\ today \in Nat /\ today <= day
BY BackupsAssumption DEF TypeOK, Never

LEMMA CheckFacts ==
    /\ NoCheck.at = "none" /\ NoCheck \notin Check
    /\ \A c \in Check : c.at \in {"gate", "open"} /\ c.server \in Servers /\ c.seen \in Never..MaxDay
BY DEF Check, NoCheck

\* What a turn leaves: a well-typed list and date.
LEMMA TurnType ==
    ASSUME TypeOK, NEW phase \in {"watching", "checking"}, NEW list, NEW date \in 0..day,
           Turn(phase, list, date), day' = day,
           list \subseteq IF phase = "watching" THEN Runs ELSE Servers
    PROVE  /\ at' \in {"idle", phase} /\ (at' = "idle" <=> todo' = {}) /\ todo' = list
           /\ IF at' = "watching" THEN todo' \subseteq Runs ELSE todo' \subseteq Servers
           /\ today' \in 0..day'
BY Types DEF Turn

\* The end of a check, whichever way.
LEMMA CheckedType ==
    ASSUME TypeOK, at = "checking", NEW s \in Servers, Checked(s), stale' \subseteq Servers
    PROVE  TypeOK'
<1>1. Turn("checking", todo \ {s}, today) /\ today \in 0..day /\ todo \subseteq Servers
  BY DEF Checked, TypeOK
<1>2. /\ at' \in {"idle", "checking"} /\ (at' = "idle" <=> todo' = {})
      /\ todo' \subseteq Servers /\ today' \in 0..day'
  BY <1>1, TurnType DEF Checked
<1>3. QED
  BY <1>2 DEF Checked, TypeOK

\* The steps of a check, of which all but a Create leave no new incident.
LEMMA CheckEffect ==
    ASSUME TypeOK,
           \/ \E s \in Servers : LatestSuccess(s)
           \/ Suppressed
           \/ OpenIncident
    PROVE  /\ UNCHANGED <<servers, panel, runs, day, succeeded, faults>>
           /\ at = "checking" /\ at' \in {"idle", "checking"}
           /\ stale' \subseteq stale \/ OpenIncident
<1>1. NoCheck.at = "none" /\ (check # NoCheck => at = "checking")
  BY CheckFacts DEF TypeOK
<1>2. ASSUME NEW s \in Servers, LatestSuccess(s)
      PROVE  /\ UNCHANGED <<servers, panel, runs, day, succeeded, faults>>
             /\ at = "checking" /\ at' \in {"idle", "checking"}
             /\ stale' \subseteq stale
  BY <1>2 DEF LatestSuccess, LookFor, Checked, Turn
<1>3. ASSUME Suppressed \/ OpenIncident
      PROVE  /\ UNCHANGED <<servers, panel, runs, day, succeeded, faults>>
             /\ at = "checking" /\ at' \in {"idle", "checking"}
             /\ stale' \subseteq stale \/ OpenIncident
  <2>1. check # NoCheck
    BY <1>1, <1>3 DEF Suppressed, OpenIncident
  <2>2. QED
    BY <1>1, <1>3, <2>1 DEF Suppressed, OpenIncident, Checked, Turn
<1>4. QED
  BY <1>2, <1>3

LEMMA FaultType == TypeOK /\ (Fault \/ UNCHANGED faults) => faults' \in 0..MaxFaults
BY BackupsAssumption DEF TypeOK, Fault

LEMMA NoRunStatus == NoRun.status = "none" /\ \A run \in Run : run # NoRun
<1>1. \A run \in Run : run.status # "none"
  BY WordFacts DEF Run
<1>2. QED
  BY <1>1 DEF NoRun

LEMMA RecordType ==
    ASSUME TypeOK, NEW s \in Servers, NEW started \in 0..MaxDay, Record(s, started)
    PROVE  succeeded' \in [Servers -> Never..MaxDay]
BY Types, BackupsAssumption DEF Record, Never

\* What a backup request does: a row with the panel's word, unless the answer is lost.
LEMMA ActEffect ==
    ASSUME TypeInv, NEW s \in Servers, NEW b \in Runs, ActBackup(s, b)
    PROVE  /\ panel[b] = "none" /\ runs[b] = NoRun
           /\ \E state \in DOMAIN Word :
                /\ panel' = [panel EXCEPT ![b] = state]
                /\ \/ UNCHANGED <<runs, succeeded>>
                   \/ \E run \in Run :
                        /\ runs' = [runs EXCEPT ![b] = run]
                        /\ run.server = s /\ run.started = day
                        /\ run.status \in Settled => run.status = state
                        /\ IF run.status = "succeeded" THEN Record(s, day) ELSE UNCHANGED succeeded
<1>1. panel[b] = "none" /\ runs[b] = NoRun
  BY DEF ActBackup, TypeInv, Known
<1>2. PICK state \in DOMAIN Word :
        /\ panel' = [panel EXCEPT ![b] = state]
        /\ \/ \E word \in Word[state], operation \in BOOLEAN :
                /\ runs' = [runs EXCEPT ![b] = [server |-> s, operation |-> operation,
                                               status |-> word, started |-> day]]
                /\ IF word = "succeeded" THEN Record(s, day) ELSE UNCHANGED succeeded
           \/ UNCHANGED <<runs, succeeded>>
  BY DEF ActBackup
<1>3. ASSUME NEW word \in Word[state], NEW operation \in BOOLEAN
      PROVE  /\ [server |-> s, operation |-> operation, status |-> word, started |-> day] \in Run
             /\ word \in Settled => word = state
  <2>1. word \in Words /\ (word \in Settled => word = state)
    BY <1>3, WordFacts DEF Settled
  <2>2. QED
    BY <2>1, Types DEF Run, TypeInv
<1>4. QED
  BY <1>1, <1>2, <1>3

\* What the watch does to a row it has listed.
LEMMA WatchEffect ==
    ASSUME TypeInv, NEW b \in Runs, WatchRun(b)
    PROVE  /\ runs[b] \in Run /\ runs[b].status \in {"pending", "running"}
           /\ \/ UNCHANGED <<runs, stale, succeeded>>
              \/ \E terminal \in {"", "succeeded", "failed"} :
                   /\ terminal # "" => panel[b] = terminal
                   /\ runs' = [runs EXCEPT ![b].status = IF terminal = "" THEN "running" ELSE terminal]
                   /\ IF terminal = "succeeded"
                      THEN stale' = stale \ {runs[b].server} /\ Record(runs[b].server, runs[b].started)
                      ELSE UNCHANGED <<stale, succeeded>>
<1>1. runs[b] \in Run /\ runs[b].status \in {"pending", "running"}
  BY Types DEF TypeInv, Listed, WatchRun
<1>2. panel[b] \in DOMAIN Word
  BY <1>1, Types, NoRunStatus DEF TypeInv, Known
<1>3. \/ UNCHANGED <<runs, stale, succeeded>>
      \/ \E word \in Word[panel[b]] :
           /\ runs' = [runs EXCEPT ![b].status =
                         IF BackupTerminal(word) = "" THEN "running" ELSE BackupTerminal(word)]
           /\ IF BackupTerminal(word) = "succeeded"
              THEN stale' = stale \ {runs[b].server} /\ Record(runs[b].server, runs[b].started)
              ELSE UNCHANGED <<stale, succeeded>>
  BY DEF WatchRun
<1>4. QED
  BY <1>1, <1>2, <1>3, TerminalTrue

LEMMA TypeInit == Init => TypeInv
<1>1. SUFFICES ASSUME Init PROVE TypeInv
  OBVIOUS
<1>2. 0 \in 0..MaxDay /\ MaxFaults \in 0..MaxFaults /\ Never \in Never..MaxDay
  BY BackupsAssumption DEF Never
<1>3. TypeOK
  BY <1>1, <1>2, WordFacts DEF Init, TypeOK, ServerState
<1>4. QED
  BY <1>1, <1>3 DEF Init, TypeInv, Listed, Known

LEMMA TypeStep == TypeInv /\ [Next]_vars => TypeOK'
<1>1. SUFFICES ASSUME TypeInv, [Next]_vars PROVE TypeOK'
  OBVIOUS
<1>2. TypeOK
  BY <1>1 DEF TypeInv
<1> USE Types
<1>5. ASSUME NEW s \in Servers, NEW b \in Runs, ActBackup(s, b) PROVE TypeOK'
  <2>1. faults' \in 0..MaxFaults
    BY <1>2, <1>5, FaultType DEF ActBackup
  <2>2. runs' \in [Runs -> Run \cup {NoRun}] /\ panel' \in [Runs -> DOMAIN Word \cup {"none"}]
    BY <1>1, <1>2, <1>5, ActEffect
  <2>3. succeeded' \in [Servers -> Never..MaxDay]
    <3>1. succeeded' = succeeded \/ Record(s, day)
      BY <1>1, <1>5, ActEffect
    <3>2. QED
      BY <1>2, <3>1, RecordType
  <2>4. UNCHANGED <<servers, stale, at, todo, check, today, day>>
    BY <1>5 DEF ActBackup
  <2>5. QED
    BY <1>2, <2>1, <2>2, <2>3, <2>4 DEF TypeOK
<1>6. ASSUME NEW b \in Runs, PanelFinishes(b) PROVE TypeOK'
  BY <1>2, <1>6, WordFacts DEF PanelFinishes, TypeOK
<1>7. ASSUME NEW s \in Servers, NEW state \in ServerState, SetServer(s, state) PROVE TypeOK'
  <2>1. faults' \in 0..MaxFaults
    BY <1>2, <1>7, FaultType DEF SetServer
  <2>2. QED
    BY <1>2, <1>7, <2>1 DEF SetServer, TypeOK
<1>8. CASE Tick
  BY <1>2, <1>8, BackupsAssumption DEF Tick, TypeOK
<1>9. CASE WatchBackups
  BY <1>2, <1>9, CheckFacts DEF WatchBackups, Turn, NonTerminal, TypeOK
<1>10. CASE Prune
  <2>1. runs' \in [Runs -> Run \cup {NoRun}]
    BY <1>2, <1>10 DEF Prune
  <2>2. check = NoCheck
    BY <1>2, <1>10 DEF Prune, TypeOK
  <2>3. QED
    BY <1>2, <1>10, <2>1, <2>2 DEF Prune, Turn, TypeOK
<1>11. ASSUME NEW b \in Runs, WatchRun(b) PROVE TypeOK'
  <2>1. faults' \in 0..MaxFaults
    BY <1>2, <1>11, FaultType DEF WatchRun
  <2>2. /\ at' \in {"idle", "watching"} /\ (at' = "idle" <=> todo' = {})
        /\ todo' \subseteq Runs /\ (at' # "watching" => todo' \subseteq Servers)
        /\ UNCHANGED <<servers, panel, check, day>> /\ check = NoCheck /\ today' \in 0..day'
    <3>1. Turn("watching", todo \ {b}, 0) /\ at = "watching"
      BY <1>11 DEF WatchRun
    <3>4. todo \subseteq Runs /\ 0 \in 0..day
      BY <1>2, <3>1 DEF TypeOK
    <3>2. UNCHANGED <<servers, panel, check, day>> /\ check = NoCheck
      BY <1>2, <1>11, <3>1 DEF WatchRun, TypeOK
    <3>3. QED
      BY <1>2, <3>1, <3>2, <3>4, TurnType
  <2>3. runs[b].server \in Servers /\ runs[b].started \in 0..MaxDay
    BY <1>1, <1>11, WatchEffect DEF Run
  <2>4. runs' \in [Runs -> Run \cup {NoRun}]
    <3>1. ASSUME NEW status \in {"running", "succeeded", "failed"}
          PROVE  [runs[b] EXCEPT !.status = status] \in Run
      BY <1>1, <1>11, <3>1, WatchEffect, WordFacts DEF Run
    <3>2. runs' = runs \/ \E status \in {"running", "succeeded", "failed"} :
                             runs' = [runs EXCEPT ![b].status = status]
      BY <1>1, <1>11, WatchEffect
    <3>3. QED
      BY <1>2, <3>1, <3>2
  <2>5. stale' \subseteq Servers
    BY <1>1, <1>2, <1>11, WatchEffect
  <2>6. succeeded' \in [Servers -> Never..MaxDay]
    <3>1. succeeded' = succeeded \/ Record(runs[b].server, runs[b].started)
      BY <1>1, <1>11, WatchEffect
    <3>2. QED
      BY <1>2, <2>3, <3>1, RecordType
  <2>7. QED
    BY <1>2, <2>1, <2>2, <2>4, <2>5, <2>6 DEF TypeOK
<1>12. ASSUME NEW s \in Servers, LatestSuccess(s) PROVE TypeOK'
  <2>1. CASE Checked(s) /\ stale' \subseteq stale
    BY <1>2, <1>12, <2>1, CheckedType DEF LatestSuccess, LookFor
  <2>2. CASE /\ check' = [at |-> "gate", server |-> s, seen |-> succeeded[s]] /\ s \notin stale
             /\ UNCHANGED <<servers, panel, runs, stale, at, todo, today, day, succeeded, faults>>
    <3>1. check' \in Check /\ check'.server = s
      BY <1>2, <2>2 DEF Check
    <3>2. QED
      BY <1>2, <1>12, <2>2, <3>1 DEF LatestSuccess, LookFor, TypeOK
  <2>3. QED
    BY <1>12, <2>1, <2>2 DEF LatestSuccess, LookFor
<1>16. CASE Suppressed
  <2>1. check \in Check
    BY <1>2, <1>16, CheckFacts DEF Suppressed, TypeOK
  <2>5. check.server \in Servers /\ at = "checking"
    BY <1>2, <2>1, CheckFacts DEF TypeOK
  <2>2. CASE Checked(check.server) /\ UNCHANGED stale
    BY <1>2, <2>2, <2>5, CheckedType
  <2>3. CASE /\ check' = [check EXCEPT !.at = "open"]
             /\ UNCHANGED <<servers, panel, runs, stale, at, todo, today, day, succeeded, faults>>
    <3>1. check' \in Check /\ check'.server = check.server
      BY <2>1, <2>3 DEF Check
    <3>2. QED
      BY <1>2, <2>1, <2>3, <3>1, CheckFacts DEF TypeOK
  <2>4. QED
    BY <1>16, <2>2, <2>3 DEF Suppressed
<1>17. CASE OpenIncident
  <2>1. check \in Check
    BY <1>2, <1>17, CheckFacts DEF OpenIncident, TypeOK
  <2>2. check.server \in Servers /\ at = "checking"
    BY <1>2, <2>1, CheckFacts DEF TypeOK
  <2>3. Checked(check.server) /\ stale' \subseteq Servers
    BY <1>2, <1>17, <2>2 DEF OpenIncident
  <2>4. QED
    BY <1>2, <2>2, <2>3, CheckedType
<1>13. CASE Restart
  <2>1. faults' \in 0..MaxFaults
    BY <1>2, <1>13, FaultType DEF Restart
  <2>2. QED
    BY <1>2, <1>13, <2>1 DEF Restart, Turn, TypeOK
<1>14. CASE UNCHANGED vars
  BY <1>2, <1>14 DEF vars, TypeOK
<1>15. QED
  BY <1>1, <1>5, <1>6, <1>7, <1>8, <1>9, <1>10, <1>11, <1>12, <1>13, <1>14, <1>16, <1>17
     DEF Next, Poller

LEMMA ListedStep == TypeInv /\ [Next]_vars => Listed'
<1>1. SUFFICES ASSUME TypeInv, [Next]_vars, at' = "watching", NEW c \in todo'
               PROVE  runs'[c] # NoRun /\ runs'[c].status \in {"pending", "running"}
  BY DEF Listed
<1>2. TypeOK /\ (at = "watching" => \A b \in todo : runs[b] # NoRun /\ runs[b].status \in {"pending", "running"})
  BY <1>1 DEF TypeInv, Listed
<1>3. runs \in [Runs -> Run \cup {NoRun}] /\ (at = "watching" => todo \subseteq Runs)
  BY <1>2 DEF TypeOK
<1>4. ASSUME runs' = runs, at = "watching", c \in todo
      PROVE  runs'[c] # NoRun /\ runs'[c].status \in {"pending", "running"}
  BY <1>2, <1>4
<1>5. ASSUME NEW s \in Servers, NEW b \in Runs, ActBackup(s, b)
      PROVE  runs'[c] # NoRun /\ runs'[c].status \in {"pending", "running"}
  <2>1. at = "watching" /\ c \in todo
    BY <1>1, <1>5 DEF ActBackup
  <2>2. c # b /\ c \in Runs
    BY <1>1, <1>2, <1>3, <1>5, <2>1, ActEffect
  <2>3. runs'[c] = runs[c]
    BY <1>1, <1>3, <1>5, <2>2, ActEffect
  <2>4. QED
    BY <1>2, <2>1, <2>3
<1>6. ASSUME NEW b \in Runs, PanelFinishes(b)
      PROVE  runs'[c] # NoRun /\ runs'[c].status \in {"pending", "running"}
  BY <1>1, <1>4, <1>6 DEF PanelFinishes
<1>7. ASSUME NEW s \in Servers, NEW state \in ServerState, SetServer(s, state)
      PROVE  runs'[c] # NoRun /\ runs'[c].status \in {"pending", "running"}
  BY <1>1, <1>4, <1>7 DEF SetServer
<1>8. CASE Tick
  BY <1>1, <1>4, <1>8 DEF Tick
<1>9. CASE WatchBackups
  <2>1. c \in NonTerminal /\ runs' = runs
    BY <1>1, <1>9 DEF WatchBackups, Turn
  <2>2. QED
    BY <2>1, NoRunStatus DEF NonTerminal
<1>10. CASE Prune
  BY <1>1, <1>10 DEF Prune, Turn
<1>11. ASSUME NEW b \in Runs, WatchRun(b)
       PROVE  runs'[c] # NoRun /\ runs'[c].status \in {"pending", "running"}
  <2>1. at = "watching" /\ c \in todo /\ c # b
    BY <1>1, <1>11 DEF WatchRun, Turn
  <2>2. runs'[c] = runs[c]
    BY <1>1, <1>3, <1>11, <2>1, WatchEffect
  <2>3. QED
    BY <1>2, <2>1, <2>2
<1>12. CASE (\E s \in Servers : LatestSuccess(s)) \/ Suppressed \/ OpenIncident
  BY <1>1, <1>2, <1>12, CheckEffect
<1>13. CASE Restart
  BY <1>1, <1>13 DEF Restart, Turn
<1>14. CASE UNCHANGED vars
  BY <1>1, <1>4, <1>14 DEF vars
<1>15. QED
  BY <1>1, <1>5, <1>6, <1>7, <1>8, <1>9, <1>10, <1>11, <1>12, <1>13, <1>14 DEF Next, Poller

LEMMA KnownStep == TypeInv /\ [Next]_vars => Known'
<1>1. SUFFICES ASSUME TypeInv, [Next]_vars, NEW c \in Runs, panel'[c] = "none"
               PROVE  runs'[c] = NoRun
  BY DEF Known
<1>2. /\ panel \in [Runs -> DOMAIN Word \cup {"none"}] /\ runs \in [Runs -> Run \cup {NoRun}]
      /\ (panel[c] = "none" => runs[c] = NoRun)
  BY <1>1, Types DEF TypeInv, Known
<1>3. CASE panel' = panel /\ runs' = runs
  BY <1>1, <1>2, <1>3
<1>4. ASSUME NEW s \in Servers, NEW b \in Runs, ActBackup(s, b) PROVE runs'[c] = NoRun
  BY <1>1, <1>2, <1>4, ActEffect, WordFacts
<1>5. ASSUME NEW b \in Runs, PanelFinishes(b) PROVE runs'[c] = NoRun
  BY <1>1, <1>2, <1>5 DEF PanelFinishes
<1>6. CASE Prune
  BY <1>1, <1>2, <1>6 DEF Prune
<1>7. ASSUME NEW b \in Runs, WatchRun(b) PROVE runs'[c] = NoRun
  <2>1. panel' = panel
    BY <1>7 DEF WatchRun
  <2>2. c # b
    BY <1>1, <1>2, <1>7, <2>1, WatchEffect, NoRunStatus
  <2>3. QED
    BY <1>1, <1>2, <1>7, <2>1, <2>2, WatchEffect
<1>8. QED
  BY <1>1, <1>2, <1>3, <1>4, <1>5, <1>6, <1>7, CheckEffect
     DEF TypeInv, Next, Poller, SetServer, Tick, WatchBackups, Restart, vars

LEMMA TypeNext == TypeInv /\ [Next]_vars => TypeInv'
BY TypeStep, ListedStep, KnownStep DEF TypeInv

\* Every variable keeps its type, whatever the panels answer and whenever.
THEOREM TypeCorrect == Spec => []TypeOK
<1>1. TypeInv => TypeOK
  BY DEF TypeInv
<1>2. QED
  BY <1>1, TypeInit, TypeNext, PTL DEF Spec

-----------------------------------------------------------------------------
(* Outcomes                                                                  *)

LEMMA OutcomeStep == TypeInv /\ OutcomeIsTrue /\ [Next]_vars => OutcomeIsTrue'
<1>1. SUFFICES ASSUME TypeInv, OutcomeIsTrue, [Next]_vars, NEW c \in Runs, runs'[c].status \in Settled
               PROVE  panel'[c] = runs'[c].status
  BY DEF OutcomeIsTrue
<1>2. /\ panel \in [Runs -> DOMAIN Word \cup {"none"}] /\ runs \in [Runs -> Run \cup {NoRun}]
      /\ (runs[c].status \in Settled => panel[c] = runs[c].status)
  BY <1>1, Types DEF TypeInv, OutcomeIsTrue
<1>3. CASE panel' = panel /\ runs' = runs
  BY <1>1, <1>2, <1>3
<1>4. ASSUME NEW s \in Servers, NEW b \in Runs, ActBackup(s, b) PROVE panel'[c] = runs'[c].status
  <2>1. CASE c = b
    BY <1>1, <1>2, <1>4, <2>1, ActEffect, NoRunStatus DEF Settled
  <2>2. CASE c # b
    BY <1>1, <1>2, <1>4, <2>2, ActEffect
  <2>3. QED
    BY <2>1, <2>2
<1>5. ASSUME NEW b \in Runs, PanelFinishes(b) PROVE panel'[c] = runs'[c].status
  BY <1>1, <1>2, <1>5 DEF PanelFinishes, Settled
<1>6. CASE Prune
  BY <1>1, <1>2, <1>6, NoRunStatus DEF Prune, Settled
<1>7. ASSUME NEW b \in Runs, WatchRun(b) PROVE panel'[c] = runs'[c].status
  <2>1. panel' = panel
    BY <1>7 DEF WatchRun
  <2>2. CASE c = b
    BY <1>1, <1>2, <1>7, <2>1, <2>2, WatchEffect DEF Settled, Run
  <2>3. CASE c # b
    BY <1>1, <1>2, <1>7, <2>1, <2>3, WatchEffect
  <2>4. QED
    BY <2>2, <2>3
<1>8. QED
  BY <1>1, <1>2, <1>3, <1>4, <1>5, <1>6, <1>7, CheckEffect
     DEF TypeInv, Next, Poller, SetServer, Tick, WatchBackups, Restart, vars

\* A run recorded as succeeded or failed is one whose operation ended so.
THEOREM OutcomeIsTrueHolds == Spec => []OutcomeIsTrue
<1>1. Init => OutcomeIsTrue
  BY NoRunStatus DEF Init, OutcomeIsTrue, Settled
<1>2. QED
  BY <1>1, TypeInit, TypeNext, OutcomeStep, PTL DEF Spec

-----------------------------------------------------------------------------
(* Alarms                                                                    *)

\* The newest success is still in the table, or past the retention.
Remembered(s) ==
    \/ succeeded[s] = Never
    \/ RetentionDays >= 0 /\ day - succeeded[s] > RetentionDays
    \/ \E b \in RunsOf(s) : runs[b].status = "succeeded" /\ runs[b].started = succeeded[s]

RememberInv == \A s \in Servers : Remembered(s)

\* A success that is recorded is remembered, and so is one that was and stays in the table.
LEMMA RememberWrite ==
    ASSUME TypeOK, RememberInv, NEW t \in Servers, NEW b \in Runs, NEW run \in Run,
           runs' = [runs EXCEPT ![b] = run], day' = day, runs[b].status # "succeeded",
           IF run.status = "succeeded" THEN Record(run.server, run.started) ELSE UNCHANGED succeeded
    PROVE  Remembered(t)'
<1>1. /\ runs \in [Runs -> Run \cup {NoRun}] /\ succeeded \in [Servers -> Never..MaxDay]
      /\ run # NoRun /\ Remembered(t)
  BY Types, NoRunStatus DEF RememberInv
<1>2. CASE succeeded'[t] = succeeded[t]
  <2>1. \A c \in RunsOf(t) : runs[c].status = "succeeded" => c \in RunsOf(t)' /\ runs'[c] = runs[c]
    BY <1>1 DEF RunsOf
  <2>2. QED
    BY <1>1, <1>2, <2>1 DEF Remembered
<1>3. CASE succeeded'[t] # succeeded[t]
  <2>1. run.status = "succeeded" /\ run.server = t /\ succeeded'[t] = run.started
    BY <1>1, <1>3 DEF Record
  <2>2. b \in RunsOf(t)' /\ runs'[b] = run
    BY <1>1, <2>1 DEF RunsOf
  <2>3. QED
    BY <2>1, <2>2 DEF Remembered
<1>4. QED
  BY <1>2, <1>3

LEMMA RememberStep == TypeInv /\ RememberInv /\ [Next]_vars => RememberInv'
<1>1. SUFFICES ASSUME TypeInv, RememberInv, [Next]_vars, NEW t \in Servers PROVE Remembered(t)'
  BY DEF RememberInv
<1>2. /\ TypeOK /\ runs \in [Runs -> Run \cup {NoRun}] /\ Remembered(t)
      /\ succeeded[t] \in Never..MaxDay /\ day \in Nat
  BY <1>1, Types DEF TypeInv, RememberInv
<1>3. CASE UNCHANGED <<runs, succeeded, day>>
  BY <1>2, <1>3 DEF Remembered, RunsOf
<1>4. ASSUME NEW s \in Servers, NEW b \in Runs, ActBackup(s, b) PROVE Remembered(t)'
  <2>1. day' = day /\ runs[b] = NoRun
    <3>1. day' = day
      BY <1>4 DEF ActBackup
    <3>2. QED
      BY <1>1, <1>4, <3>1, ActEffect
  <2>2. \/ UNCHANGED <<runs, succeeded>>
        \/ \E run \in Run :
             /\ runs' = [runs EXCEPT ![b] = run]
             /\ run.server = s /\ run.started = day
             /\ IF run.status = "succeeded" THEN Record(s, day) ELSE UNCHANGED succeeded
    BY <1>1, <1>4, ActEffect
  <2>3. runs[b].status # "succeeded"
    BY <2>1 DEF NoRun
  <2>4. QED
    BY <1>1, <1>2, <1>3, <2>1, <2>2, <2>3, RememberWrite
<1>5. CASE Tick
  <2>1. UNCHANGED <<runs, succeeded>> /\ day' = day + 1
    BY <1>5 DEF Tick
  <2>2. RetentionDays >= 0 /\ day - succeeded[t] > RetentionDays => day' - succeeded'[t] > RetentionDays
    BY <1>2, <2>1, BackupsAssumption DEF Never
  <2>3. QED
    BY <1>2, <2>1, <2>2 DEF Remembered, RunsOf
<1>6. CASE Prune
  <2>1. UNCHANGED <<succeeded, day>> /\ RetentionDays >= 0
    BY <1>6 DEF Prune
  <2>2. ASSUME NEW b \in RunsOf(t), runs[b].status = "succeeded", runs[b].started = succeeded[t]
        PROVE  Remembered(t)'
    <3>1. CASE day - runs[b].started > RetentionDays
      BY <2>1, <2>2, <3>1 DEF Remembered
    <3>2. CASE ~(day - runs[b].started > RetentionDays)
      <4>1. b \in Runs /\ runs'[b] = runs[b]
        BY <1>2, <1>6, <3>2 DEF Prune, RunsOf
      <4>2. b \in RunsOf(t)'
        BY <2>2, <4>1 DEF RunsOf
      <4>3. QED
        BY <2>1, <2>2, <4>1, <4>2 DEF Remembered
    <3>3. QED
      BY <3>1, <3>2
  <2>3. QED
    BY <1>2, <2>1, <2>2 DEF Remembered
<1>7. ASSUME NEW b \in Runs, WatchRun(b) PROVE Remembered(t)'
  <2>1. day' = day /\ runs[b] \in Run /\ runs[b].status # "succeeded"
    BY <1>1, <1>7, WatchEffect DEF WatchRun
  <2>2. PICK status \in {"running", "succeeded", "failed"} :
          \/ UNCHANGED <<runs, succeeded>>
          \/ /\ runs' = [runs EXCEPT ![b].status = status]
             /\ IF status = "succeeded" THEN Record(runs[b].server, runs[b].started)
                ELSE UNCHANGED succeeded
    BY <1>1, <1>7, WatchEffect
  <2>3. CASE UNCHANGED <<runs, succeeded>>
    BY <1>3, <2>1, <2>3
  <2>4. CASE /\ runs' = [runs EXCEPT ![b].status = status]
             /\ IF status = "succeeded" THEN Record(runs[b].server, runs[b].started)
                ELSE UNCHANGED succeeded
    <3> DEFINE run == [runs[b] EXCEPT !.status = status]
    <3>1. /\ run \in Run /\ run.status = status
          /\ run.server = runs[b].server /\ run.started = runs[b].started
      BY <2>1, WordFacts DEF Run
    <3>2. runs' = [runs EXCEPT ![b] = run]
      BY <1>2, <2>4
    <3> HIDE DEF run
    <3>3. QED
      BY <1>1, <1>2, <2>1, <2>4, <3>1, <3>2, RememberWrite
  <2>5. QED
    BY <2>2, <2>3, <2>4
<1>8. QED
  BY <1>1, <1>2, <1>3, <1>4, <1>5, <1>6, <1>7, CheckEffect
     DEF TypeInv, Next, Poller, PanelFinishes, SetServer, WatchBackups, Restart, vars

\* A check that goes on saw no success within the threshold.
CheckInv == check # NoCheck => check.seen = Never \/ day - check.seen > BackupStaleDays

LEMMA CheckStep ==
    ASSUME RetentionDays >= BackupStaleDays
    PROVE  TypeInv /\ RememberInv /\ CheckInv /\ [Next]_vars => CheckInv'
<1>1. SUFFICES ASSUME TypeInv, RememberInv, CheckInv, [Next]_vars, check' # NoCheck
               PROVE  check'.seen = Never \/ day' - check'.seen > BackupStaleDays
  BY DEF CheckInv
<1>2. TypeOK /\ day \in Nat /\ (check # NoCheck => check \in Check)
  BY <1>1, Types DEF TypeInv, TypeOK
<1>3. CASE check' = check /\ day' = day
  BY <1>1, <1>3 DEF CheckInv
<1>4. CASE Tick
  <2>1. check' = check /\ day' = day + 1 /\ check \in Check
    BY <1>1, <1>2, <1>4 DEF Tick
  <2>2. check.seen \in Int
    BY <2>1, CheckFacts, BackupsAssumption DEF Never
  <2>3. QED
    BY <1>1, <1>2, <2>1, <2>2, BackupsAssumption DEF CheckInv
<1>5. ASSUME NEW s \in Servers, LatestSuccess(s), check' # NoCheck
      PROVE  check'.seen = Never \/ day' - check'.seen > BackupStaleDays
  <2>1. /\ check'.seen = succeeded[s] /\ day' = day /\ ~FreshOn(s, today)
    BY <1>5 DEF LatestSuccess, LookFor, Checked
  <2>2. /\ Remembered(s) /\ succeeded[s] \in Never..MaxDay
        /\ today \in Nat /\ today <= day
    BY <1>1, <1>2, Types DEF RememberInv
  <2>3. CASE day - succeeded[s] > RetentionDays
    BY <1>2, <2>1, <2>2, <2>3, BackupsAssumption DEF Never
  <2>4. CASE \E b \in RunsOf(s) : runs[b].status = "succeeded" /\ runs[b].started = succeeded[s]
    BY <1>2, <2>1, <2>2, <2>4, BackupsAssumption DEF FreshOn, Never
  <2>5. QED
    BY <2>1, <2>2, <2>3, <2>4 DEF Remembered
<1>6. CASE Suppressed
  <2>1. check \in Check
    BY <1>2, <1>6, CheckFacts DEF Suppressed
  <2>2. check'.seen = check.seen /\ day' = day
    BY <1>1, <1>6, <2>1 DEF Suppressed, Checked, Check
  <2>3. QED
    BY <1>1, <2>1, <2>2, CheckFacts DEF CheckInv
<1>7. CASE OpenIncident
  BY <1>1, <1>7 DEF OpenIncident, Checked
<1>8. QED
  BY <1>1, <1>3, <1>4, <1>5, <1>6, <1>7
     DEF Next, Poller, ActBackup, PanelFinishes, SetServer, WatchBackups, WatchRun, Prune, Restart, vars

\* With a retention no shorter than the threshold, a stale-backup incident opens only
\* when the check that opens it saw no success within the threshold, whatever was pruned
\* before and recorded since.
THEOREM NoFalseAlarmHolds ==
    ASSUME RetentionDays >= BackupStaleDays
    PROVE  Spec => NoFalseAlarm
<1>1. Init => RememberInv /\ CheckInv
  BY DEF Init, RememberInv, Remembered, CheckInv
<1>2. TypeInv /\ CheckInv /\ [Next]_vars =>
        [stale' \ stale # {} =>
           /\ stale' \ stale = {check.server}
           /\ check.seen = Never \/ day - check.seen > BackupStaleDays]_vars
  <2>1. SUFFICES ASSUME TypeInv, CheckInv, [Next]_vars, stale' \ stale # {}
                 PROVE  /\ stale' \ stale = {check.server}
                        /\ check.seen = Never \/ day - check.seen > BackupStaleDays
    OBVIOUS
  <2>2. OpenIncident
    <3>1. ASSUME NEW b \in Runs, WatchRun(b) PROVE stale' \subseteq stale
      BY <2>1, <3>1, WatchEffect
    <3>2. QED
      BY <2>1, <3>1, CheckEffect DEF TypeInv, Next, Poller, ActBackup, PanelFinishes, SetServer, Tick,
         WatchBackups, Prune, Restart, vars
  <2>3. check # NoCheck /\ stale' = stale \cup {check.server}
    BY <2>2, CheckFacts DEF OpenIncident
  <2>4. QED
    BY <2>1, <2>3 DEF CheckInv
<1>3. QED
  BY <1>1, <1>2, TypeInit, TypeNext, RememberStep, CheckStep, PTL DEF Spec, NoFalseAlarm
=============================================================================
