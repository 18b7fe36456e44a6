-------------------------------- MODULE Backups --------------------------------
(***************************************************************************)
(* Backup runs: started on a panel by an operator, followed by the poller   *)
(* until the panel reports an outcome, and missed when none succeeds.       *)
(*                                                                         *)
(* A panel runs a backup as an operation and describes it in a word of its *)
(* own; the manager keeps one row per run, with the word of the panel's    *)
(* first answer as its status.  The poller, a single goroutine, reads the  *)
(* rows not yet terminal, asks the panel about each, and once an hour      *)
(* prunes old rows and looks for servers without a recent success.         *)
(***************************************************************************)
EXTENDS Integers

CONSTANTS
    Servers,
    MaxRuns,          \* bound: backup runs started
    BackupStaleDays,  \* age from which the last success is stale
    RetentionDays,    \* age from which settled rows are pruned; negative: never
    MaxDay,           \* bound: the day the calendar stops at
    MaxFaults         \* bound: lost answers, unreachable panels, removals and restarts

ASSUME BackupsAssumption ==
    /\ BackupStaleDays \in Nat
    /\ RetentionDays \in Int
    /\ MaxRuns \in Nat
    /\ MaxDay \in Nat
    /\ MaxFaults \in Nat

VARIABLES
    servers,    \* the servers table, with the maintenance windows
    panel,      \* the panels' operations, the truth about each run
    runs,       \* the backup_runs table
    stale,      \* servers with an open backup_stale incident
    at,         \* what the poller is doing
    todo,       \* rows, or servers, the poller has read and not done with
    check,      \* the stale check of a server: its next statement and what it saw
    today,      \* the day the stale checks under way take for now, else 0
    day,
    succeeded,  \* history: the newest start of a run recorded as succeeded
    faults

vars == <<servers, panel, runs, stale, at, todo, check, today, day, succeeded, faults>>

-----------------------------------------------------------------------------
Runs == 1..MaxRuns

\* "maintenance" is an active server within a maintenance window.
ServerState == {"active", "maintenance", "disabled", "removed"}
Polled(s) == servers[s] \in {"active", "maintenance"}

\* Words of a panel for an operation: of those the write-automation document and
\* the poller know, one that is a status of the manager and one that is not.
Word == [working   |-> {"pending", "queued"},
         succeeded |-> {"succeeded", "done"},
         failed    |-> {"failed"}]
Words == UNION {Word[state] : state \in DOMAIN Word}

\* Two wrong forms: whatever is over has succeeded, and an outcome keeps its word.
BackupTerminalOver(word) == IF word \in Word.working THEN "" ELSE "succeeded"
BackupTerminalWord(word) == IF word \in Word.working THEN "" ELSE "over"

\* backupTerminal: the status a word stands for, "" while the operation goes on.
BackupTerminal(word) ==
    CASE word \in {"succeeded", "done"} -> "succeeded"
      [] word = "failed"                -> "failed"
      [] OTHER                          -> ""

\* operation: the panel returned an operation id.
Run == [server : Servers, operation : BOOLEAN, status : Words \cup {"running"}, started : 0..MaxDay]
NoRun == [status |-> "none"]
Settled == {"succeeded", "failed"}
Never == -1

\* seen: history, the newest success there was when the check looked.
Check == [at : {"gate", "open"}, server : Servers, seen : Never..MaxDay]
NoCheck == [at |-> "none"]

TypeOK ==
    /\ servers \in [Servers -> ServerState]
    /\ panel \in [Runs -> DOMAIN Word \cup {"none"}]
    /\ runs \in [Runs -> Run \cup {NoRun}]
    /\ stale \subseteq Servers
    /\ at \in {"idle", "watching", "checking"}
    /\ at = "idle" <=> todo = {}
    /\ IF at = "watching" THEN todo \subseteq Runs
       ELSE todo \subseteq Servers
    /\ check \in Check \cup {NoCheck}
    /\ check # NoCheck => at = "checking" /\ check.server \in todo /\ check.server \notin stale
    /\ today \in 0..day
    /\ day \in 0..MaxDay
    /\ succeeded \in [Servers -> Never..MaxDay]
    /\ faults \in 0..MaxFaults

RunsOf(s) == {b \in Runs : runs[b] # NoRun /\ runs[b].server = s}

\* A wrong form: runs already seen running are not listed.
NonTerminalPending == {b \in Runs : runs[b].status = "pending"}

NonTerminal == {b \in Runs : runs[b].status \in {"pending", "running"}}

\* On day d the newest success of server s is within the threshold.
FreshOn(s, d) ==
    \E b \in RunsOf(s) : runs[b].status = "succeeded" /\ d - runs[b].started <= BackupStaleDays
Fresh(s) == FreshOn(s, day)

\* Keeps the history: the newest start of a success of server s.
Record(s, started) ==
    succeeded' = [succeeded EXCEPT ![s] = IF started > @ THEN started ELSE @]

-----------------------------------------------------------------------------
Init ==
    /\ servers = [s \in Servers |-> "active"]
    /\ panel = [b \in Runs |-> "none"]
    /\ runs = [b \in Runs |-> NoRun]
    /\ stale = {}
    /\ at = "idle"
    /\ todo = {}
    /\ check = NoCheck
    /\ today = 0
    /\ day = 0
    /\ succeeded = [s \in Servers |-> Never]
    /\ faults = MaxFaults

Fault == faults > 0 /\ faults' = faults - 1

-----------------------------------------------------------------------------
(* Operators and panels *)

\* actBackup: the panel answers with its word for the operation, which may be over
\* by then, and perhaps an operation id; the row is inserted with that word as it is.
\* An answer that is lost, an error or followed by a crash is not recorded.
ActBackup(s, b) ==
    /\ servers[s] # "removed"
    /\ panel[b] = "none" /\ \A c \in 1..b - 1 : panel[c] # "none"
    /\ \E state \in DOMAIN Word :
         /\ panel' = [panel EXCEPT ![b] = state]
         /\ \/ /\ \E word \in Word[state], operation \in BOOLEAN :
                    /\ runs' = [runs EXCEPT ![b] = [server |-> s, operation |-> operation,
                                                   status |-> word, started |-> day]]
                    /\ IF word = "succeeded" THEN Record(s, day) ELSE UNCHANGED succeeded
               /\ UNCHANGED faults
            \/ Fault /\ UNCHANGED <<runs, succeeded>>
    /\ UNCHANGED <<servers, stale, at, todo, check, today, day>>

PanelFinishes(b) ==
    /\ panel[b] = "working"
    /\ \E state \in {"succeeded", "failed"} : panel' = [panel EXCEPT ![b] = state]
    /\ UNCHANGED <<servers, runs, stale, at, todo, check, today, day, succeeded, faults>>

\* enable, disable and remove, and the windows that begin and end.  The runs and the
\* incident of a removed server stay.
SetServer(s, state) ==
    /\ servers[s] \notin {"removed", state}
    /\ IF state = "removed" THEN Fault ELSE UNCHANGED faults
    /\ servers' = [servers EXCEPT ![s] = state]
    /\ UNCHANGED <<panel, runs, stale, at, todo, check, today, day, succeeded>>

Tick ==
    /\ day < MaxDay
    /\ day' = day + 1
    /\ UNCHANGED <<servers, panel, runs, stale, at, todo, check, today, succeeded, faults>>

-----------------------------------------------------------------------------
(* The poller *)

\* The poller turns to phase with a list, and is idle again when the list is empty; its
\* checks take date for now.
Turn(phase, list, date) ==
    /\ todo' = list
    /\ at' = IF list = {} THEN "idle" ELSE phase
    /\ today' = IF at' = "checking" THEN date ELSE 0

WatchBackups ==
    /\ at = "idle"
    /\ Turn("watching", NonTerminal, 0)
    /\ UNCHANGED <<servers, panel, runs, stale, check, day, succeeded, faults>>

\* One row of the list.  Nothing to ask about, nobody to ask, or no answer: next.
\* Otherwise the row takes the panel's outcome, or is running; a success resolves.
WatchRun(b) ==
    LET s == runs[b].server IN
    /\ at = "watching" /\ b \in todo
    /\ Turn("watching", todo \ {b}, 0)
    /\ \/ /\ ~runs[b].operation \/ servers[s] = "removed"
          /\ UNCHANGED <<runs, stale, succeeded, faults>>
       \/ Fault /\ UNCHANGED <<runs, stale, succeeded>>
       \/ /\ runs[b].operation /\ servers[s] # "removed"
          /\ \E word \in Word[panel[b]] :
               LET terminal == BackupTerminal(word) IN
               /\ runs' = [runs EXCEPT ![b].status = IF terminal = "" THEN "running" ELSE terminal]
               /\ IF terminal = "succeeded"
                  THEN stale' = stale \ {s} /\ Record(s, runs[b].started)
                  ELSE UNCHANGED <<stale, succeeded>>
          /\ UNCHANGED faults
    /\ UNCHANGED <<servers, panel, check, day>>

\* A wrong form: every settled row is pruned.
PruneAll ==
    /\ at = "idle"
    /\ RetentionDays >= 0
    /\ runs' = [b \in Runs |-> IF runs[b].status \in Settled THEN NoRun ELSE runs[b]]
    /\ Turn("checking", {s \in Servers : Polled(s)}, day)
    /\ UNCHANGED <<servers, panel, stale, check, day, succeeded, faults>>

\* Old settled rows go, then the servers to check are listed.  Without a retention
\* nothing is pruned and nothing is checked.
Prune ==
    /\ at = "idle"
    /\ RetentionDays >= 0
    /\ runs' = [b \in Runs |->
                  IF runs[b].status \in Settled /\ day - runs[b].started > RetentionDays
                  THEN NoRun ELSE runs[b]]
    /\ Turn("checking", {s \in Servers : Polled(s)}, day)
    /\ UNCHANGED <<servers, panel, stale, check, day, succeeded, faults>>

\* The check of server s is over.
Checked(s) ==
    /\ Turn("checking", todo \ {s}, today)
    /\ check' = NoCheck
    /\ UNCHANGED <<servers, panel, runs, day, succeeded, faults>>

\* checkBackupStale, a server of the list after the other.  LatestSuccess decides; what
\* follows at once, ResolveActive or ActiveExists, concerns the incident, which nobody but
\* the poller changes.  A stale server without an incident goes on to the gate.
LookFor(s, fresh, resolve) ==
    /\ at = "checking" /\ s \in todo
    /\ check = NoCheck
    /\ \/ fresh /\ stale' = (IF resolve THEN stale \ {s} ELSE stale) /\ Checked(s)
       \/ ~fresh /\ s \in stale /\ UNCHANGED stale /\ Checked(s)
       \/ /\ ~fresh /\ s \notin stale
          /\ check' = [at |-> "gate", server |-> s, seen |-> succeeded[s]]
          /\ UNCHANGED <<servers, panel, runs, stale, at, todo, today, day, succeeded, faults>>

\* Two wrong forms: a server that never had a backup is not stale, and an open incident
\* is left to the watch.
LatestSuccessIfAny(s) == LookFor(s, FreshOn(s, today) \/ RunsOf(s) = {}, TRUE)
LatestSuccessKeeping(s) == LookFor(s, FreshOn(s, today), FALSE)
LatestSuccess(s) == LookFor(s, FreshOn(s, today), TRUE)

\* suppressed: a maintenance window ends the check.
Suppressed ==
    /\ check.at = "gate"
    /\ IF servers[check.server] = "maintenance"
       THEN Checked(check.server) /\ UNCHANGED stale
       ELSE /\ check' = [check EXCEPT !.at = "open"]
            /\ UNCHANGED <<servers, panel, runs, stale, at, todo, today, day, succeeded, faults>>

\* Create, whatever was recorded since the look.
OpenIncident ==
    /\ check.at = "open"
    /\ stale' = stale \cup {check.server}
    /\ Checked(check.server)

\* The manager stops and starts again: a pass under way is lost.
Restart ==
    /\ Fault
    /\ Turn("idle", {}, 0)
    /\ check' = NoCheck
    /\ UNCHANGED <<servers, panel, runs, stale, day, succeeded>>

-----------------------------------------------------------------------------
Poller ==
    \/ \E b \in Runs : WatchRun(b)
    \/ \E s \in Servers : LatestSuccess(s)
    \/ Suppressed
    \/ OpenIncident

Next ==
    \/ \E s \in Servers, b \in Runs : ActBackup(s, b)
    \/ \E b \in Runs : PanelFinishes(b)
    \/ \E s \in Servers, state \in ServerState : SetServer(s, state)
    \/ Tick
    \/ WatchBackups
    \/ Prune
    \/ Poller
    \/ Restart

\* The poller's loop never stops, and its two tickers both fire again and again;
\* select takes either of two ready tickers with the same chance.
Fairness == WF_vars(Poller) /\ SF_vars(WatchBackups) /\ SF_vars(Prune)

Spec == Init /\ [][Next]_vars /\ Fairness

-----------------------------------------------------------------------------
(* Properties *)

\* A run the manager calls succeeded or failed is one whose operation ended so on
\* the panel, whichever words the panel used and however its answers were delayed.
OutcomeIsTrue ==
    \A b \in Runs : runs[b].status \in Settled => panel[b] = runs[b].status

\* A stale-backup incident opens only if the newest success recorded when the check
\* looked, in a row that may be pruned by now, started before the threshold.  A request
\* that records a success between the look and the Create is too late to hold it back;
\* SuccessResolves says that such an incident goes with the next check.
NoFalseAlarm ==
    [][stale' \ stale # {} =>
         /\ stale' \ stale = {check.server}
         /\ check.seen = Never \/ day - check.seen > BackupStaleDays]_vars

\* The server of run b is no longer enrolled.
Orphaned(b) == runs[b] # NoRun /\ servers[runs[b].server] = "removed"

\* A run the panel accepted as an operation still pending or running settles, once
\* the operation is over, unless the server is removed.
AcceptedRunsSettle ==
    \A b \in Runs :
        (runs[b].status \in {"pending", "running"} /\ runs[b].operation /\ panel[b] # "working")
            ~> (runs[b].status \in Settled \/ Orphaned(b))

\* A polled server that stays without a recent success gets an incident, maintenance
\* windows aside.
NegligenceShows ==
    \A s \in Servers :
        <>[](servers[s] = "active" /\ ~Fresh(s)) => []<>(s \in stale)

\* A recent success resolves the incident of a polled server before it is stale again.
SuccessResolves ==
    \A s \in Servers :
        (s \in stale /\ Fresh(s)) ~> (s \notin stale \/ ~Fresh(s) \/ ~Polled(s))

\* What the README says of backup tracking: every run recorded is polled to its
\* completion, unless the server is removed.
RunsSettle ==
    \A b \in Runs :
        (runs[b] # NoRun /\ panel[b] # "working")
            ~> (runs[b].status \in Settled \/ Orphaned(b))
=============================================================================
