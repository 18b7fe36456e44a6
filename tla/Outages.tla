-------------------------------- MODULE Outages --------------------------------
(***************************************************************************)
(* What a poll of a server tells the operators and does by itself: the down *)
(* and recovered messages, the warning about the panel's certificate, and   *)
(* the automatic restart of its web service.                                *)
(*                                                                         *)
(* A poll compares its outcome with the row List returned before the probe, *)
(* and writes the row before it sends anything.  The handlers that check a  *)
(* server by hand or save its row run in between (Fleet models them).  The  *)
(* streak of failures and the restart already tried live in memory.         *)
(***************************************************************************)
EXTENDS Clock, FiniteSets

CONSTANTS
    Servers,
    Channels,              \* the alert channels
    CertDates,             \* when certificates of panels expire
    CertWarn,
    RemediationFailures,
    MaxPolls, MaxMishaps   \* bounds: passes; crashes, failures and writes of others

ASSUME OutagesAssumption ==
    /\ CertDates \subseteq Nat
    /\ {CertWarn, MaxPolls, MaxMishaps} \subseteq Nat
    /\ RemediationFailures \in Nat \ {0}

VARIABLES
    servers,      \* of the servers table: status, credential_status, cert_expires_at
    panelCert,    \* the certificate each panel presents
    channels,     \* the alert_channels table: what each channel takes
    covered,      \* servers a maintenance window covers
    polls,        \* the poller's goroutine for each server
    held,         \* the row a handler has read and will save
    failStreak, restarted,
    told,         \* the last health message delivered on each channel
    unsaid,       \* history: <<server, channel>> that missed a change of health
    warned,       \* history: how often a date was announced, by server and date
    lost,         \* history: how often the stored date was not stored or was replaced
    tries,        \* history: automatic restarts since the last healthy check
    failed,       \* history: failed checks since then
    passes, mishaps

outageVars == <<now, servers, panelCert, channels, covered, polls, held, failStreak, restarted,
                told, unsaid, warned, lost, tries, failed, passes, mishaps>>

-----------------------------------------------------------------------------
ServerStatus == {"active", "disabled", "unreachable"}
CredentialStatus == {"valid", "invalid", "unknown"}
ServerRow == [status : ServerStatus, cred : CredentialStatus, cert : CertDates \cup {Never}]

\* A goroutine: its next step, the row it was given, what the probe showed (secret: the
\* token could be decrypted), and the date it read from the panel.
Step == {"probe", "store", "alert", "cert", "warn", "remediate", "restart"}
Poll == [at : Step, row : ServerRow, status : ServerStatus, cred : CredentialStatus,
         secret : BOOLEAN, date : CertDates \cup {Never}]
Resting == [at |-> "rest"]
Unheld == [cert |-> "unheld"]
Messages == {"none", "down", "recovered"}

\* A channel that is enabled takes every message, or none that is only information.
Settings == {"off", "every", "urgent"}
NoChannel == "no channel"

OutagesTypeOK ==
    /\ now \in 0..MaxTime
    /\ servers \in [Servers -> ServerRow]
    /\ panelCert \in [Servers -> CertDates]
    /\ channels \in [Channels -> Settings \cup {NoChannel}]
    /\ covered \subseteq Servers
    /\ polls \in [Servers -> Poll \cup {Resting}]
    /\ held \in [Servers -> ServerRow \cup {Unheld}]
    /\ failStreak \in [Servers -> Nat]
    /\ restarted \subseteq Servers
    /\ told \in [Servers -> [Channels -> Messages]]
    /\ unsaid \subseteq Servers \X Channels
    /\ warned \in [Servers -> [CertDates -> Nat]]
    /\ lost \in [Servers -> Nat]
    /\ tries \in [Servers -> Nat]
    /\ failed \in [Servers -> Nat]
    /\ passes \in 0..MaxPolls
    /\ mishaps \in 0..MaxMishaps

Healthy(row) == row.status = "active" /\ row.cred = "valid"
KnownBad(row) == row.status = "unreachable" \/ row.cred = "invalid"
SameHealth(row, other) == row.status = other.status /\ row.cred = other.cred
AllOf(s) == {s} \X Channels

Mishap == mishaps > 0 /\ mishaps' = mishaps - 1

\* A server as it is enrolled; every channel is set up.
OutagesInit ==
    /\ now = 0
    /\ servers = [s \in Servers |-> [status |-> "active", cred |-> "unknown", cert |-> Never]]
    /\ panelCert \in [Servers -> CertDates]
    /\ channels = [c \in Channels |-> "every"]
    /\ covered = {}
    /\ polls = [s \in Servers |-> Resting]
    /\ held = [s \in Servers |-> Unheld]
    /\ failStreak = [s \in Servers |-> 0]
    /\ restarted = {}
    /\ told = [s \in Servers |-> [c \in Channels |-> "none"]]
    /\ unsaid = {}
    /\ warned = [s \in Servers |-> [d \in CertDates |-> 0]]
    /\ lost = [s \in Servers |-> 0]
    /\ tries = [s \in Servers |-> 0]
    /\ failed = [s \in Servers |-> 0]
    /\ passes = MaxPolls
    /\ mishaps = MaxMishaps

-----------------------------------------------------------------------------
(* The poller *)

At(s, step) == polls[s].at = step
Goto(s, step) == polls' = [polls EXCEPT ![s].at = step]

\* PollOnce: a goroutine for every server that is not disabled; the pass before is over.
PollOnce ==
    /\ passes > 0
    /\ \A s \in Servers : polls[s] = Resting
    /\ passes' = passes - 1
    /\ polls' = [s \in Servers |->
                   IF servers[s].status = "disabled" THEN Resting
                   ELSE [at |-> "probe", row |-> servers[s], status |-> "active",
                         cred |-> "unknown", secret |-> TRUE, date |-> Never]]
    /\ UNCHANGED <<now, servers, panelCert, channels, covered, held, failStreak, restarted, told,
                   unsaid, warned, lost, tries, failed, mishaps>>

\* The secret cannot be opened, or the probe fails, or the panel refuses the token, or
\* all is well: status, credentials and whether there is a secret.
Outcomes(row) == {<<row.status, "invalid", FALSE>>, <<"unreachable", "unknown", TRUE>>,
                  <<"active", "invalid", TRUE>>, <<"active", "valid", TRUE>>}
Probe(s) ==
    /\ At(s, "probe")
    /\ \E o \in Outcomes(polls[s].row) :
         polls' = [polls EXCEPT ![s] = [@ EXCEPT !.at = "store", !.status = o[1], !.cred = o[2],
                                                 !.secret = o[3]]]
    /\ UNCHANGED <<now, servers, panelCert, channels, covered, held, failStreak, restarted, told,
                   unsaid, warned, lost, tries, failed, passes, mishaps>>

\* UpdateStatus and the heartbeat; errors are dropped.
Store(s) ==
    /\ At(s, "store")
    /\ \/ /\ servers' = [servers EXCEPT ![s].status = polls[s].status, ![s].cred = polls[s].cred]
          /\ UNCHANGED <<unsaid, mishaps>>
       \/ /\ Mishap
          /\ unsaid' = unsaid \cup AllOf(s)
          /\ UNCHANGED servers
    /\ Goto(s, "alert")
    /\ UNCHANGED <<now, panelCert, channels, covered, held, failStreak, restarted, told, warned,
                   lost, tries, failed, passes>>

\* maybeAlert: the boundary the poll saw crossed.  A wrong form takes a server to be
\* known bad only when it did not answer.
CrossingOfAnswers(s) ==
    IF Healthy(polls[s].row) /\ ~Healthy(polls[s]) THEN "down"
    ELSE IF polls[s].row.status = "unreachable" /\ Healthy(polls[s]) THEN "recovered"
    ELSE "none"
Crossing(s) ==
    IF Healthy(polls[s].row) /\ ~Healthy(polls[s]) THEN "down"
    ELSE IF KnownBad(polls[s].row) /\ Healthy(polls[s]) THEN "recovered"
    ELSE "none"

\* notifiersFor: a recovery is only information.
Takers(kind) ==
    {c \in Channels : channels[c] = "every" \/ (channels[c] = "urgent" /\ kind # "recovered")}

\* dispatch: in a window nothing is sent; otherwise each channel may fail by itself.
Delivered(s, kind, sent) ==
    IF s \in covered THEN sent = {} /\ UNCHANGED mishaps
    ELSE \/ sent = Takers(kind) /\ UNCHANGED mishaps
         \/ sent \in SUBSET Takers(kind) \ {Takers(kind)} /\ Mishap

Alert(s) ==
    LET kind == Crossing(s) IN
    /\ At(s, "alert")
    /\ \/ /\ kind = "none"
          /\ UNCHANGED <<told, unsaid, mishaps>>
       \/ /\ kind # "none"
          /\ \E sent \in SUBSET Channels :
               /\ Delivered(s, kind, sent)
               /\ told' = [told EXCEPT ![s] = [c \in Channels |-> IF c \in sent THEN kind ELSE @[c]]]
               /\ unsaid' = IF SameHealth(servers[s], polls[s])
                            THEN (unsaid \ ({s} \X sent)) \cup ({s} \X (Channels \ sent))
                            ELSE unsaid \cup AllOf(s)
    /\ Goto(s, "cert")
    /\ UNCHANGED <<now, servers, panelCert, channels, covered, held, failStreak, restarted,
                   warned, lost, tries, failed, passes>>

\* The date that should be stored is not.
Loses(s) == lost' = [lost EXCEPT ![s] = @ + 1]

\* checkCert: the date the panel shows is stored, if it shows one.
CheckCert(s) ==
    /\ At(s, "cert")
    /\ \/ /\ Goto(s, "remediate")
          /\ UNCHANGED <<servers, lost, mishaps>>
       \/ /\ polls' = [polls EXCEPT ![s] = [@ EXCEPT !.at = "warn", !.date = panelCert[s]]]
          /\ \/ /\ servers' = [servers EXCEPT ![s].cert = panelCert[s]]
                /\ UNCHANGED <<lost, mishaps>>
             \/ /\ Mishap
                /\ Loses(s)
                /\ UNCHANGED servers
    /\ UNCHANGED <<now, panelCert, channels, covered, held, failStreak, restarted, told, unsaid,
                   warned, tries, failed, passes>>

\* Near by the threshold, the date just read and the date of the row that was listed,
\* both at the same instant.  A wrong form has no prior date.
Near(date) == date - now < CertWarn
NewlyNearAlways(s) == Near(polls[s].date)
NewlyNear(s) ==
    Near(polls[s].date) /\ ~(polls[s].row.cert # Never /\ Near(polls[s].row.cert))
Warn(s) ==
    /\ At(s, "warn")
    /\ warned' = IF NewlyNear(s) /\ s \notin covered
                 THEN [warned EXCEPT ![s][polls[s].date] = @ + 1] ELSE warned
    /\ Goto(s, "remediate")
    /\ UNCHANGED <<now, servers, panelCert, channels, covered, held, failStreak, restarted, told,
                   unsaid, lost, tries, failed, passes, mishaps>>

\* maybeRemediate: the count, and whether to restart; no window may cover the server.
Remediate(s) ==
    /\ At(s, "remediate")
    /\ IF Healthy(polls[s])
       THEN /\ failStreak' = [failStreak EXCEPT ![s] = 0]
            /\ restarted' = restarted \ {s}
            /\ polls' = [polls EXCEPT ![s] = Resting]
            /\ tries' = [tries EXCEPT ![s] = 0]
            /\ failed' = [failed EXCEPT ![s] = 0]
       ELSE /\ failStreak' = [failStreak EXCEPT ![s] = @ + 1]
            /\ failed' = [failed EXCEPT ![s] = @ + 1]
            /\ polls' = IF /\ failStreak[s] + 1 >= RemediationFailures
                           /\ s \notin restarted /\ polls[s].secret /\ s \notin covered
                        THEN [polls EXCEPT ![s].at = "restart"]
                        ELSE [polls EXCEPT ![s] = Resting]
            /\ UNCHANGED <<restarted, tries>>
    /\ UNCHANGED <<now, servers, panelCert, channels, covered, held, told, unsaid, warned,
                   lost, passes, mishaps>>

\* The call to the panel, that may fail, and the one attempt of the outage.  A wrong form
\* counts an attempt that worked.
RestartPanel(s) ==
    /\ At(s, "restart")
    /\ tries' = [tries EXCEPT ![s] = @ + 1]
    /\ polls' = [polls EXCEPT ![s] = Resting]
    /\ UNCHANGED <<now, servers, panelCert, channels, covered, held, failStreak, told, unsaid,
                   warned, lost, failed, passes, mishaps>>
RestartServiceThatWorked(s) ==
    RestartPanel(s) /\ (restarted' = restarted \cup {s} \/ UNCHANGED restarted)
RestartService(s) ==
    RestartPanel(s) /\ restarted' = restarted \cup {s}

-----------------------------------------------------------------------------
(* Everything else *)

\* A change of the health columns that no poll saw, or that a poll under way overlaps.
Unseen(s, row) ==
    IF polls[s] = Resting /\ SameHealth(row, servers[s])
    THEN unsaid ELSE unsaid \cup AllOf(s)

\* POST /servers/:id/check by hand.
ManualCheck(s) ==
    /\ Mishap
    /\ \E o \in Outcomes(servers[s]) :
         LET row == [servers[s] EXCEPT !.status = o[1], !.cred = o[2]] IN
         /\ servers' = [servers EXCEPT ![s] = row]
         /\ unsaid' = Unseen(s, row)
    /\ UNCHANGED <<now, panelCert, channels, covered, polls, held, failStreak, restarted, told,
                   warned, lost, tries, failed, passes>>

\* What a handler makes of the row it read: enabled or disabled, with new credentials,
\* with what a check by hand found before its second write, or as it was.
HandlerRows(row) ==
    {row, [row EXCEPT !.status = "active"], [row EXCEPT !.status = "disabled"],
     [row EXCEPT !.cred = "unknown"]}
    \cup {[row EXCEPT !.status = "active", !.cred = cred] : cred \in {"valid", "invalid"}}

\* A handler that reads the row and saves it whole later.
HandlerReads(s) ==
    /\ Mishap
    /\ held[s] = Unheld
    /\ held' = [held EXCEPT ![s] = servers[s]]
    /\ UNCHANGED <<now, servers, panelCert, channels, covered, polls, failStreak, restarted,
                   told, unsaid, warned, lost, tries, failed, passes>>
HandlerSaves(s) ==
    /\ held[s] # Unheld
    /\ \E row \in HandlerRows(held[s]) :
         /\ servers' = [servers EXCEPT ![s] = row]
         /\ unsaid' = Unseen(s, row)
    /\ IF held[s].cert = servers[s].cert THEN UNCHANGED lost ELSE Loses(s)
    /\ held' = [held EXCEPT ![s] = Unheld]
    /\ UNCHANGED <<now, panelCert, channels, covered, polls, failStreak, restarted, told, warned,
                   tries, failed, passes, mishaps>>

\* An import of settings saves a new row for a server it finds: active or disabled, with
\* the credentials the file says, and without a date.
ImportServer(s) ==
    /\ Mishap
    /\ \E status \in {"active", "disabled"}, cred \in CredentialStatus :
         LET row == [status |-> status, cred |-> cred, cert |-> Never] IN
         /\ servers' = [servers EXCEPT ![s] = row]
         /\ unsaid' = Unseen(s, row)
    /\ IF servers[s].cert = Never THEN UNCHANGED lost ELSE Loses(s)
    /\ UNCHANGED <<now, panelCert, channels, covered, polls, held, failStreak, restarted, told,
                   warned, tries, failed, passes>>

\* An operator sets up a channel anew, changes what it takes (which takes its configuration
\* anew: without one no notifier is built and the request is refused), or deletes it.
CreateChannel(c) ==
    /\ channels[c] = NoChannel
    /\ \E setting \in Settings : channels' = [channels EXCEPT ![c] = setting]
    /\ told' = [s \in Servers |-> [told[s] EXCEPT ![c] = "none"]]
    /\ unsaid' = unsaid \ (Servers \X {c})
    /\ UNCHANGED <<now, servers, panelCert, covered, polls, held, failStreak, restarted, warned,
                   lost, tries, failed, passes, mishaps>>
UpdateChannel(c) ==
    /\ Mishap
    /\ channels[c] # NoChannel
    /\ \E setting \in Settings : channels' = [channels EXCEPT ![c] = setting]
    /\ UNCHANGED <<now, servers, panelCert, covered, polls, held, failStreak, restarted, told,
                   unsaid, warned, lost, tries, failed, passes>>
DeleteChannel(c) ==
    /\ Mishap
    /\ channels[c] # NoChannel
    /\ channels' = [channels EXCEPT ![c] = NoChannel]
    /\ UNCHANGED <<now, servers, panelCert, covered, polls, held, failStreak, restarted, told,
                   unsaid, warned, lost, tries, failed, passes>>

\* An operator opens or closes a window; a panel gets a certificate that lasts longer.
Maintain(s) ==
    /\ Mishap
    /\ covered' = IF s \in covered THEN covered \ {s} ELSE covered \cup {s}
    /\ UNCHANGED <<now, servers, panelCert, channels, polls, held, failStreak, restarted, told,
                   unsaid, warned, lost, tries, failed, passes>>
Renew(s) ==
    /\ \E d \in CertDates : d > panelCert[s] /\ panelCert' = [panelCert EXCEPT ![s] = d]
    /\ UNCHANGED <<now, servers, channels, covered, polls, held, failStreak, restarted, told,
                   unsaid, warned, lost, tries, failed, passes, mishaps>>

\* The process ends; a crossing that is stored and not sent yet is lost.
OutagesRestart ==
    /\ Mishap
    /\ polls' = [s \in Servers |-> Resting]
    /\ held' = [s \in Servers |-> Unheld]
    /\ failStreak' = [s \in Servers |-> 0]
    /\ restarted' = {}
    /\ unsaid' = unsaid \cup UNION {AllOf(s) : s \in {s \in Servers : At(s, "alert")}}
    /\ tries' = [s \in Servers |-> 0]
    /\ failed' = [s \in Servers |-> 0]
    /\ UNCHANGED <<now, servers, panelCert, channels, covered, told, warned, lost, passes>>

OutagesTick ==
    /\ Tick
    /\ UNCHANGED <<servers, panelCert, channels, covered, polls, held, failStreak, restarted,
                   told, unsaid, warned, lost, tries, failed, passes, mishaps>>

OutagesNext ==
    \/ PollOnce
    \/ \E s \in Servers :
         \/ Probe(s) \/ Store(s) \/ Alert(s) \/ CheckCert(s) \/ Warn(s)
         \/ Remediate(s) \/ RestartService(s)
         \/ ManualCheck(s) \/ HandlerReads(s) \/ HandlerSaves(s) \/ ImportServer(s)
         \/ Maintain(s) \/ Renew(s)
    \/ \E c \in Channels : CreateChannel(c) \/ UpdateChannel(c) \/ DeleteChannel(c)
    \/ OutagesRestart
    \/ OutagesTick

OutagesSpec == OutagesInit /\ [][OutagesNext]_outageVars

-----------------------------------------------------------------------------
(* Properties *)

\* Between polls the last message on a channel says what the row says, unless the
\* channel missed a change of health: because it does not take the message, in a window,
\* by a delivery that failed, by a crash between the row and the message, or because a
\* handler wrote the row.
MessagesAgree ==
    \A s \in Servers, c \in Channels :
      polls[s] = Resting /\ <<s, c>> \notin unsaid /\ told[s][c] # "none"
        => (told[s][c] = "recovered" <=> Healthy(servers[s]))

\* A certificate is announced once, and once more at most for each time the stored date
\* was lost: by a write that failed, a handler that saved a row it had read before, or an
\* import, which stores none.
CertAnnouncedOnce ==
    \A s \in Servers, d \in CertDates : warned[s][d] <= 1 + lost[s]

\* The channels hear of every change of health, and of a certificate as often as its date
\* is new to the manager.
ChannelsHear == MessagesAgree /\ CertAnnouncedOnce

\* The panel's service is restarted only after enough checks that failed in a row, and
\* once until a check succeeds or the manager restarts, whatever the call answered.
RestartEarned ==
    \A s \in Servers : tries[s] <= 1 /\ (tries[s] = 1 => failed[s] >= RemediationFailures)

\* Said by the comment of checkCert: the alert comes when the certificate first crosses
\* the threshold.  When checkCert is done with a date that is near, on a server nothing
\* else wrote and no window covers, the date has been announced.
CrossingAnnounced ==
    [][\A s \in {s \in Servers \ covered : lost[s] = 0} :
         At(s, "warn") /\ ~At(s, "warn")' /\ Near(polls[s].date)
           => warned'[s][polls[s].date] > 0]_outageVars
=============================================================================
