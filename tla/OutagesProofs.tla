---------------------------- MODULE OutagesProofs ----------------------------
(* What polls announce and restart, for any servers, channels, dates and bounds. *)
EXTENDS Outages, TLAPS

-----------------------------------------------------------------------------
(* Records and constants *)

LEMMA PollIsUnderWay == Resting \notin Poll /\ Resting.at = "rest"
<1>1. Resting.at = "rest"
  BY DEF Resting
<1>2. \A p \in Poll : p.at \in Step
  BY DEF Poll
<1>3. "rest" \notin Step
  BY DEF Step
<1>4. QED
  BY <1>1, <1>2, <1>3

LEMMA Bounds ==
    /\ MaxPolls \in Nat /\ MaxMishaps \in Nat /\ CertWarn \in Nat /\ MaxTime \in Nat
    /\ RemediationFailures \in Nat \ {0}
    /\ CertDates \subseteq Nat
BY OutagesAssumption, ClockAssumption DEF OutagesAssumption

LEMMA PollAt ==
    ASSUME OutagesTypeOK, NEW s \in Servers, NEW step \in Step, At(s, step)
    PROVE  polls[s] \in Poll
BY PollIsUnderWay DEF OutagesTypeOK, At, Step

-----------------------------------------------------------------------------
(* Types *)

LEMMA OutagesInitTypes == OutagesInit => OutagesTypeOK
<1>1. [status |-> "active", cred |-> "unknown", cert |-> Never] \in ServerRow
  BY DEF ServerRow, ServerStatus, CredentialStatus
<1>2. QED
  BY <1>1, Bounds DEF OutagesInit, OutagesTypeOK, Settings, Messages

LEMMA PollOnceTypes ==
    ASSUME OutagesTypeOK, PollOnce
    PROVE  OutagesTypeOK'
<1>1. \A s \in Servers :
        [at |-> "probe", row |-> servers[s], status |-> "active", cred |-> "unknown",
         secret |-> TRUE, date |-> Never] \in Poll
  BY DEF OutagesTypeOK, Poll, Step, ServerStatus, CredentialStatus
<1>2. polls' \in [Servers -> Poll \cup {Resting}]
  BY <1>1 DEF PollOnce
<1>3. QED
  BY <1>2, Bounds DEF PollOnce, OutagesTypeOK

\* What a goroutine was given and has found out stays.
Kept(s) ==
    /\ polls'[s].row = polls[s].row /\ polls'[s].date = polls[s].date
    /\ SameHealth(polls'[s], polls[s])

\* A step of the goroutine of one server: where it goes is where a goroutine can be.
LEMMA GotoTypes ==
    ASSUME OutagesTypeOK, NEW s \in Servers, polls[s] \in Poll, NEW step \in Step, Goto(s, step)
    PROVE  /\ polls' \in [Servers -> Poll \cup {Resting}]
           /\ polls'[s].at = step /\ Kept(s)
           /\ \A u \in Servers : u # s => polls'[u] = polls[u]
<1>1. PICK p \in Poll : p = polls[s]
  OBVIOUS
<1>2. PICK q : q = [p EXCEPT !.at = step]
  OBVIOUS
<1>3. q \in Poll /\ q.at = step /\ q.row = p.row /\ SameHealth(q, p) /\ q.date = p.date
  BY <1>2 DEF Poll, SameHealth
<1>4. QED
  BY <1>1, <1>2, <1>3 DEF Goto, Kept, OutagesTypeOK

LEMMA OutcomeFacts ==
    ASSUME NEW row \in ServerRow, NEW o \in Outcomes(row)
    PROVE  /\ o[1] \in ServerStatus /\ o[2] \in CredentialStatus /\ o[3] \in BOOLEAN
           /\ \/ o[1] = "active" /\ o[2] = "valid"
              \/ o[1] = "unreachable" \/ o[2] = "invalid"
<1>1. row.status \in ServerStatus
  BY DEF ServerRow
<1>2. \/ o = <<row.status, "invalid", FALSE>>
      \/ o = <<"unreachable", "unknown", TRUE>>
      \/ o = <<"active", "invalid", TRUE>>
      \/ o = <<"active", "valid", TRUE>>
  BY DEF Outcomes
<1>3. ASSUME NEW a, NEW b, NEW c, o = <<a, b, c>>
      PROVE  o[1] = a /\ o[2] = b /\ o[3] = c
  BY <1>3
<1>4. CASE o = <<row.status, "invalid", FALSE>>
  BY <1>1, <1>3, <1>4 DEF ServerStatus, CredentialStatus
<1>5. CASE o = <<"unreachable", "unknown", TRUE>>
  BY <1>3, <1>5 DEF ServerStatus, CredentialStatus
<1>6. CASE o = <<"active", "invalid", TRUE>>
  BY <1>3, <1>6 DEF ServerStatus, CredentialStatus
<1>7. CASE o = <<"active", "valid", TRUE>>
  BY <1>3, <1>7 DEF ServerStatus, CredentialStatus
<1>8. QED
  BY <1>2, <1>4, <1>5, <1>6, <1>7

LEMMA ProbeTypes ==
    ASSUME OutagesTypeOK, NEW s \in Servers, Probe(s)
    PROVE  /\ OutagesTypeOK'
           /\ At(s, "store")' /\ polls'[s].row = polls[s].row
           /\ Healthy(polls'[s]) \/ KnownBad(polls'[s])
           /\ \A u \in Servers : u # s => polls'[u] = polls[u]
<1>1. PICK p \in Poll : p = polls[s]
  BY PollAt DEF Probe, Step
<1>2. PICK o \in Outcomes(p.row) :
        polls' = [polls EXCEPT ![s] = [p EXCEPT !.at = "store", !.status = o[1], !.cred = o[2],
                                                !.secret = o[3]]]
  BY <1>1 DEF Probe, OutagesTypeOK
<1>3. p.row \in ServerRow
  BY DEF Poll
<1>4. PICK q : q = [p EXCEPT !.at = "store", !.status = o[1], !.cred = o[2], !.secret = o[3]]
  OBVIOUS
<1>5. /\ q \in Poll
      /\ q.at = "store" /\ q.row = p.row /\ q.status = o[1] /\ q.cred = o[2]
  BY <1>3, <1>4, OutcomeFacts DEF Poll, Step
<1>6. /\ polls' \in [Servers -> Poll \cup {Resting}]
      /\ polls'[s] = q
      /\ \A u \in Servers : u # s => polls'[u] = polls[u]
  BY <1>2, <1>4, <1>5 DEF OutagesTypeOK
<1>7. OutagesTypeOK'
  BY <1>6 DEF Probe, OutagesTypeOK
<1>8. At(s, "store")' /\ polls'[s].row = polls[s].row
  BY <1>1, <1>5, <1>6 DEF At
<1>9. Healthy(q) \/ KnownBad(q)
  BY <1>3, <1>5, OutcomeFacts DEF Healthy, KnownBad
<1>10. QED
  BY <1>6, <1>7, <1>8, <1>9

\* A write of the health columns.
LEMMA WriteTypes ==
    ASSUME OutagesTypeOK, NEW s \in Servers, NEW row \in ServerRow,
           servers' = [servers EXCEPT ![s] = row]
    PROVE  /\ servers' \in [Servers -> ServerRow]
           /\ servers'[s] = row
           /\ \A u \in Servers : u # s => servers'[u] = servers[u]
BY DEF OutagesTypeOK

LEMMA UnsaidTypes ==
    ASSUME OutagesTypeOK, NEW s \in Servers, NEW row
    PROVE  AllOf(s) \subseteq Servers \X Channels /\ Unseen(s, row) \subseteq Servers \X Channels
<1>1. AllOf(s) \subseteq Servers \X Channels
  BY DEF AllOf
<1>2. QED
  BY <1>1 DEF Unseen, OutagesTypeOK

LEMMA StoreTypes ==
    ASSUME OutagesTypeOK, NEW s \in Servers, Store(s)
    PROVE  /\ OutagesTypeOK'
           /\ polls'[s].at = "alert" /\ Kept(s)
           /\ \A u \in Servers : u # s => polls'[u] = polls[u]
<1>1. PICK p \in Poll : p = polls[s]
  BY PollAt DEF Store, Step
<1>2. /\ polls' \in [Servers -> Poll \cup {Resting}]
      /\ polls'[s].at = "alert" /\ Kept(s)
      /\ \A u \in Servers : u # s => polls'[u] = polls[u]
  BY <1>1, GotoTypes DEF Store, Step
<1>3. PICK row : row = servers[s]
  OBVIOUS
<1>4. [[row EXCEPT !.status = p.status] EXCEPT !.cred = p.cred] \in ServerRow
  BY <1>3 DEF OutagesTypeOK, ServerRow, Poll
<1>5. servers' \in [Servers -> ServerRow]
  BY <1>1, <1>3, <1>4 DEF Store, OutagesTypeOK
<1>6. unsaid' \subseteq Servers \X Channels /\ mishaps' \in 0..MaxMishaps
  <2>1. AllOf(s) \subseteq Servers \X Channels
    BY UnsaidTypes
  <2>2. QED
    BY <2>1, Bounds DEF Store, Mishap, OutagesTypeOK
<1>7. OutagesTypeOK'
  BY <1>2, <1>5, <1>6 DEF Store, OutagesTypeOK
<1>8. QED
  BY <1>2, <1>7

LEMMA AlertTypes ==
    ASSUME OutagesTypeOK, NEW s \in Servers, Alert(s)
    PROVE  /\ OutagesTypeOK'
           /\ polls'[s].at = "cert" /\ Kept(s)
           /\ \A u \in Servers : u # s => polls'[u] = polls[u]
<1>1. polls[s] \in Poll
  BY PollAt DEF Alert, Step
<1>2. /\ polls' \in [Servers -> Poll \cup {Resting}]
      /\ polls'[s].at = "cert" /\ Kept(s)
      /\ \A u \in Servers : u # s => polls'[u] = polls[u]
  BY <1>1, GotoTypes DEF Alert, Step
<1>3. Crossing(s) \in Messages
  BY DEF Crossing, Messages
<1>4. mishaps' \in 0..MaxMishaps
  BY Bounds DEF Alert, Delivered, Mishap, OutagesTypeOK
<1>5. told' \in [Servers -> [Channels -> Messages]] /\ unsaid' \subseteq Servers \X Channels
  <2>1. CASE Crossing(s) = "none"
    BY <2>1 DEF Alert, OutagesTypeOK
  <2>2. CASE Crossing(s) # "none"
    <3>1. PICK kind \in Messages : kind = Crossing(s)
      BY <1>3
    <3>2. PICK sent \in SUBSET Channels :
            /\ told' = [told EXCEPT ![s] = [c \in Channels |-> IF c \in sent THEN kind ELSE @[c]]]
            /\ unsaid' = IF SameHealth(servers[s], polls[s])
                         THEN (unsaid \ ({s} \X sent)) \cup ({s} \X (Channels \ sent))
                         ELSE unsaid \cup AllOf(s)
      BY <2>2, <3>1 DEF Alert
    <3>3. told' \in [Servers -> [Channels -> Messages]]
      BY <3>2 DEF OutagesTypeOK
    <3>4. unsaid' \subseteq Servers \X Channels
      BY <3>2, UnsaidTypes DEF OutagesTypeOK
    <3>5. QED
      BY <3>3, <3>4
  <2>3. QED
    BY <2>1, <2>2
<1>6. OutagesTypeOK'
  BY <1>2, <1>4, <1>5 DEF Alert, OutagesTypeOK
<1>7. QED
  BY <1>2, <1>6

LEMMA LosesTypes ==
    ASSUME OutagesTypeOK, NEW s \in Servers, Loses(s)
    PROVE  /\ lost' \in [Servers -> Nat] /\ lost'[s] = lost[s] + 1
           /\ \A u \in Servers : u # s => lost'[u] = lost[u]
BY DEF Loses, OutagesTypeOK

LEMMA CheckCertTypes ==
    ASSUME OutagesTypeOK, NEW s \in Servers, CheckCert(s)
    PROVE  /\ OutagesTypeOK'
           /\ \A u \in Servers : u # s => polls'[u] = polls[u] /\ servers'[u] = servers[u]
           /\ SameHealth(servers'[s], servers[s])
           /\ \A u \in Servers : u # s => lost'[u] = lost[u]
           /\ \/ At(s, "remediate")' /\ UNCHANGED <<servers, lost>>
              \/ /\ At(s, "warn")' /\ polls'[s].row = polls[s].row
                 /\ polls'[s].date = panelCert[s]
                 /\ \/ servers'[s].cert = panelCert[s] /\ lost' = lost
                    \/ servers' = servers /\ lost'[s] = lost[s] + 1
<1>1. PICK p \in Poll : p = polls[s]
  BY PollAt DEF CheckCert, Step
<1>2. PICK date \in CertDates : date = panelCert[s]
  BY DEF OutagesTypeOK
<1>3. CASE Goto(s, "remediate") /\ UNCHANGED <<servers, lost, mishaps>>
  <2>1. /\ polls' \in [Servers -> Poll \cup {Resting}]
        /\ polls'[s].at = "remediate"
        /\ \A u \in Servers : u # s => polls'[u] = polls[u]
    BY <1>1, <1>3, GotoTypes DEF Step
  <2>2. OutagesTypeOK'
    BY <1>3, <2>1 DEF CheckCert, OutagesTypeOK
  <2>3. QED
    BY <1>3, <2>1, <2>2 DEF At, SameHealth
<1>4. CASE polls' = [polls EXCEPT ![s] = [@ EXCEPT !.at = "warn", !.date = panelCert[s]]]
  <2>1. PICK q : q = [p EXCEPT !.at = "warn", !.date = date]
    OBVIOUS
  <2>2. q \in Poll /\ q.at = "warn" /\ q.row = p.row /\ q.date = date
    BY <2>1 DEF Poll, Step
  <2>3. polls' = [polls EXCEPT ![s] = q]
    BY <1>1, <1>2, <1>4, <2>1 DEF OutagesTypeOK
  <2>4. /\ polls' \in [Servers -> Poll \cup {Resting}]
        /\ polls'[s] = q
        /\ \A u \in Servers : u # s => polls'[u] = polls[u]
    BY <2>2, <2>3 DEF OutagesTypeOK
  <2>5. PICK row \in ServerRow : row = servers[s]
    BY DEF OutagesTypeOK
  <2>6. PICK new : new = [row EXCEPT !.cert = date]
    OBVIOUS
  <2>7. new \in ServerRow /\ SameHealth(new, row) /\ new.cert = date
    BY <2>6 DEF ServerRow, SameHealth
  <2>8. ~Goto(s, "remediate")
    <3>1. [p EXCEPT !.at = "remediate"].at = "remediate"
      BY DEF Poll
    <3>2. Goto(s, "remediate") => polls'[s].at = "remediate"
      BY <1>1, <3>1 DEF Goto, OutagesTypeOK
    <3>3. QED
      BY <2>2, <2>4, <3>2
  <2>9. \/ /\ servers' = [servers EXCEPT ![s] = new]
           /\ lost' = lost /\ mishaps' = mishaps
        \/ /\ servers' = servers
           /\ Loses(s) /\ Mishap
    BY <1>2, <2>5, <2>6, <2>8 DEF CheckCert, OutagesTypeOK
  <2>10. /\ servers' \in [Servers -> ServerRow]
         /\ \A u \in Servers : u # s => servers'[u] = servers[u]
         /\ SameHealth(servers'[s], servers[s])
         /\ \/ servers'[s].cert = date /\ lost' = lost
            \/ servers' = servers /\ Loses(s)
    BY <2>5, <2>7, <2>9 DEF OutagesTypeOK, SameHealth
  <2>11. /\ lost' \in [Servers -> Nat] /\ mishaps' \in 0..MaxMishaps
         /\ \A u \in Servers : u # s => lost'[u] = lost[u]
    BY <2>9, LosesTypes, Bounds DEF OutagesTypeOK, Mishap
  <2>12. OutagesTypeOK'
    BY <2>4, <2>10, <2>11 DEF CheckCert, OutagesTypeOK
  <2>13. QED
    BY <1>1, <1>2, <2>2, <2>4, <2>10, <2>11, <2>12, LosesTypes DEF At
<1>5. QED
  BY <1>3, <1>4 DEF CheckCert

LEMMA WarnTypes ==
    ASSUME OutagesTypeOK, NEW s \in Servers, Warn(s)
    PROVE  /\ OutagesTypeOK'
           /\ At(s, "remediate")'
           /\ \A u \in Servers : u # s => polls'[u] = polls[u] /\ warned'[u] = warned[u]
           /\ \A d \in CertDates :
                warned'[s][d] = IF d = polls[s].date /\ NewlyNear(s) /\ s \notin covered
                                THEN warned[s][d] + 1 ELSE warned[s][d]
<1>1. PICK p \in Poll : p = polls[s]
  BY PollAt DEF Warn, Step
<1>2. /\ polls' \in [Servers -> Poll \cup {Resting}]
      /\ polls'[s].at = "remediate"
      /\ \A u \in Servers : u # s => polls'[u] = polls[u]
  BY <1>1, GotoTypes DEF Warn, Step
<1>3. At(s, "remediate")'
  BY <1>2 DEF At
<1>4. PICK counts : counts = warned[s]
  OBVIOUS
<1>5. counts \in [CertDates -> Nat]
  BY <1>4 DEF OutagesTypeOK
<1>6. PICK more : more = [counts EXCEPT ![p.date] = @ + 1]
  OBVIOUS
<1>7. more \in [CertDates -> Nat]
  <2>1. CASE p.date \in CertDates
    BY <1>5, <1>6, <2>1
  <2>2. CASE p.date \notin CertDates
    BY <1>5, <1>6, <2>2
  <2>3. QED
    BY <2>1, <2>2
<1>8. \A d \in CertDates : more[d] = IF d = p.date THEN counts[d] + 1 ELSE counts[d]
  BY <1>5, <1>6
<1>9. CASE NewlyNear(s) /\ s \notin covered
  <2>1. warned' = [warned EXCEPT ![s] = more]
    BY <1>1, <1>4, <1>6, <1>9 DEF Warn, OutagesTypeOK
  <2>2. /\ warned' \in [Servers -> [CertDates -> Nat]]
        /\ warned'[s] = more
        /\ \A u \in Servers : u # s => warned'[u] = warned[u]
    BY <1>7, <2>1 DEF OutagesTypeOK
  <2>3. OutagesTypeOK'
    BY <1>2, <2>2 DEF Warn, OutagesTypeOK
  <2>4. QED
    BY <1>1, <1>2, <1>3, <1>4, <1>8, <1>9, <2>2, <2>3
<1>10. CASE ~(NewlyNear(s) /\ s \notin covered)
  <2>1. warned' = warned
    BY <1>10 DEF Warn
  <2>2. OutagesTypeOK'
    BY <1>2, <2>1 DEF Warn, OutagesTypeOK
  <2>3. QED
    BY <1>2, <1>3, <1>10, <2>1, <2>2
<1>11. QED
  BY <1>9, <1>10

LEMMA RemediateTypes ==
    ASSUME OutagesTypeOK, NEW s \in Servers, Remediate(s)
    PROVE  /\ OutagesTypeOK'
           /\ polls'[s].at \in {"rest", "restart"}
           /\ \A u \in Servers : u # s => polls'[u] = polls[u]
<1>1. PICK p \in Poll : p = polls[s]
  BY PollAt DEF Remediate, Step
<1>2. PICK q : q = [p EXCEPT !.at = "restart"]
  OBVIOUS
<1>3. q \in Poll /\ q.at = "restart"
  BY <1>2 DEF Poll, Step
<1>4. polls' = [polls EXCEPT ![s] = q] \/ polls' = [polls EXCEPT ![s] = Resting]
  BY <1>1, <1>2 DEF Remediate, OutagesTypeOK
<1>5. /\ polls' \in [Servers -> Poll \cup {Resting}]
      /\ polls'[s].at \in {"rest", "restart"}
      /\ \A u \in Servers : u # s => polls'[u] = polls[u]
  BY <1>3, <1>4, PollIsUnderWay DEF OutagesTypeOK
<1>6. /\ failStreak' \in [Servers -> Nat] /\ failed' \in [Servers -> Nat]
      /\ tries' \in [Servers -> Nat] /\ restarted' \subseteq Servers
  <2>1. /\ failStreak \in [Servers -> Nat] /\ failed \in [Servers -> Nat]
        /\ tries \in [Servers -> Nat] /\ restarted \subseteq Servers
    BY DEF OutagesTypeOK
  <2>2. \/ failStreak' = [failStreak EXCEPT ![s] = 0] /\ failed' = [failed EXCEPT ![s] = 0]
        \/ /\ failStreak' = [failStreak EXCEPT ![s] = @ + 1]
           /\ failed' = [failed EXCEPT ![s] = @ + 1]
    BY DEF Remediate
  <2>3. \/ restarted' = restarted \ {s} /\ tries' = [tries EXCEPT ![s] = 0]
        \/ UNCHANGED <<restarted, tries>>
    BY DEF Remediate
  <2>4. QED
    BY <2>1, <2>2, <2>3
<1>7. OutagesTypeOK'
  BY <1>5, <1>6 DEF Remediate, OutagesTypeOK
<1>8. QED
  BY <1>5, <1>7

LEMMA RestartTypes ==
    ASSUME OutagesTypeOK, NEW s \in Servers, RestartService(s)
    PROVE  /\ OutagesTypeOK'
           /\ polls'[s] = Resting
           /\ \A u \in Servers : u # s => polls'[u] = polls[u]
<1>1. /\ polls' \in [Servers -> Poll \cup {Resting}]
      /\ polls'[s] = Resting
      /\ \A u \in Servers : u # s => polls'[u] = polls[u]
  BY DEF RestartService, RestartPanel, OutagesTypeOK
<1>2. tries' \in [Servers -> Nat] /\ restarted' \subseteq Servers
  BY DEF RestartService, RestartPanel, OutagesTypeOK
<1>3. OutagesTypeOK'
  BY <1>1, <1>2 DEF RestartService, RestartPanel, OutagesTypeOK
<1>4. QED
  BY <1>1, <1>3

LEMMA ManualCheckTypes ==
    ASSUME OutagesTypeOK, NEW s \in Servers, ManualCheck(s)
    PROVE  /\ OutagesTypeOK'
           /\ \A u \in Servers : u # s => servers'[u] = servers[u]
           /\ servers'[s].cert = servers[s].cert
           /\ unsaid' = Unseen(s, servers'[s])
<1>1. PICK old \in ServerRow : old = servers[s]
  BY DEF OutagesTypeOK
<1>2. PICK o \in Outcomes(old) :
        /\ servers' = [servers EXCEPT ![s] = [old EXCEPT !.status = o[1], !.cred = o[2]]]
        /\ unsaid' = Unseen(s, [old EXCEPT !.status = o[1], !.cred = o[2]])
  BY <1>1 DEF ManualCheck
<1>3. PICK row : row = [old EXCEPT !.status = o[1], !.cred = o[2]]
  OBVIOUS
<1>4. row \in ServerRow /\ row.cert = old.cert
  BY <1>3, OutcomeFacts DEF ServerRow
<1>5. /\ servers' \in [Servers -> ServerRow] /\ servers'[s] = row
      /\ \A u \in Servers : u # s => servers'[u] = servers[u]
  BY <1>2, <1>3, <1>4, WriteTypes
<1>6. unsaid' \subseteq Servers \X Channels
  BY <1>2, UnsaidTypes
<1>7. OutagesTypeOK'
  BY <1>5, <1>6, Bounds DEF ManualCheck, Mishap, OutagesTypeOK
<1>8. QED
  BY <1>1, <1>2, <1>3, <1>4, <1>5, <1>7

\* What a handler makes of a row is a row with the same date.
LEMMA HandlerRowsTypes ==
    ASSUME NEW old \in ServerRow, NEW row \in HandlerRows(old)
    PROVE  row \in ServerRow /\ row.cert = old.cert
BY DEF HandlerRows, ServerRow, ServerStatus, CredentialStatus

\* The row of a server is replaced by one with another date, or none.
Replaced(s) ==
    /\ unsaid' = Unseen(s, servers'[s])
    /\ \A u \in Servers : u # s => servers'[u] = servers[u] /\ lost'[u] = lost[u]
    /\ \/ servers'[s].cert = servers[s].cert /\ lost'[s] = lost[s]
       \/ lost'[s] = lost[s] + 1

LEMMA HandlerSavesTypes ==
    ASSUME OutagesTypeOK, NEW s \in Servers, HandlerSaves(s)
    PROVE  OutagesTypeOK' /\ Replaced(s) /\ servers'[s].cert = held[s].cert
<1>1. PICK old : old = held[s]
  OBVIOUS
<1>2. old \in ServerRow
  BY <1>1 DEF HandlerSaves, OutagesTypeOK
<1>3. PICK row \in HandlerRows(old) :
        servers' = [servers EXCEPT ![s] = row] /\ unsaid' = Unseen(s, row)
  BY <1>1 DEF HandlerSaves
<1>4. row \in ServerRow /\ row.cert = old.cert
  BY <1>2, <1>3, HandlerRowsTypes
<1>5. /\ servers' \in [Servers -> ServerRow] /\ servers'[s] = row
      /\ \A u \in Servers : u # s => servers'[u] = servers[u]
  BY <1>3, <1>4, WriteTypes
<1>6. unsaid' \subseteq Servers \X Channels
  BY <1>3, UnsaidTypes
<1>7. held' \in [Servers -> ServerRow \cup {Unheld}]
  BY DEF HandlerSaves, OutagesTypeOK
<1>8. \/ held[s].cert = servers[s].cert /\ lost' = lost
      \/ Loses(s)
  BY DEF HandlerSaves
<1>9. lost' \in [Servers -> Nat]
  BY <1>8, LosesTypes DEF OutagesTypeOK
<1>10. OutagesTypeOK'
  BY <1>5, <1>6, <1>7, <1>9 DEF HandlerSaves, OutagesTypeOK
<1>11. Replaced(s)
  BY <1>1, <1>3, <1>4, <1>5, <1>8, LosesTypes DEF Replaced
<1>12. QED
  BY <1>1, <1>4, <1>5, <1>10, <1>11

LEMMA ImportTypes ==
    ASSUME OutagesTypeOK, NEW s \in Servers, ImportServer(s)
    PROVE  OutagesTypeOK' /\ Replaced(s) /\ servers'[s].cert = Never
<1>1. PICK status \in {"active", "disabled"}, cred \in CredentialStatus :
        /\ servers' = [servers EXCEPT ![s] = [status |-> status, cred |-> cred, cert |-> Never]]
        /\ unsaid' = Unseen(s, [status |-> status, cred |-> cred, cert |-> Never])
  BY DEF ImportServer
<1>2. PICK row : row = [status |-> status, cred |-> cred, cert |-> Never]
  OBVIOUS
<1>3. row \in ServerRow /\ row.cert = Never
  BY <1>2 DEF ServerRow, ServerStatus
<1>4. /\ servers' \in [Servers -> ServerRow] /\ servers'[s] = row
      /\ \A u \in Servers : u # s => servers'[u] = servers[u]
  BY <1>1, <1>2, <1>3, WriteTypes
<1>5. unsaid' \subseteq Servers \X Channels
  BY <1>1, UnsaidTypes
<1>6. \/ servers[s].cert = Never /\ lost' = lost
      \/ Loses(s)
  BY DEF ImportServer
<1>7. lost' \in [Servers -> Nat]
  BY <1>6, LosesTypes DEF OutagesTypeOK
<1>8. OutagesTypeOK'
  BY <1>4, <1>5, <1>7, Bounds DEF ImportServer, Mishap, OutagesTypeOK
<1>9. Replaced(s)
  BY <1>1, <1>2, <1>3, <1>4, <1>6, LosesTypes DEF Replaced
<1>10. QED
  BY <1>3, <1>4, <1>8, <1>9

LEMMA OtherTypes ==
    ASSUME OutagesTypeOK,
           \/ \E s \in Servers : HandlerReads(s) \/ Maintain(s) \/ Renew(s)
           \/ \E c \in Channels : CreateChannel(c) \/ UpdateChannel(c) \/ DeleteChannel(c)
           \/ OutagesRestart \/ OutagesTick
    PROVE  OutagesTypeOK'
<1>1. CASE \E s \in Servers : HandlerReads(s)
  BY <1>1, Bounds DEF HandlerReads, Mishap, OutagesTypeOK
<1>2. CASE \E s \in Servers : Maintain(s)
  BY <1>2, Bounds DEF Maintain, Mishap, OutagesTypeOK
<1>3. CASE \E s \in Servers : Renew(s)
  BY <1>3 DEF Renew, OutagesTypeOK
<1>4. ASSUME NEW c \in Channels, CreateChannel(c) PROVE OutagesTypeOK'
  <2>1. told' \in [Servers -> [Channels -> Messages]]
    <3>1. \A s \in Servers : [told[s] EXCEPT ![c] = "none"] \in [Channels -> Messages]
      BY DEF OutagesTypeOK, Messages
    <3>2. QED
      BY <1>4, <3>1 DEF CreateChannel
  <2>2. channels' \in [Channels -> Settings \cup {NoChannel}]
    BY <1>4 DEF CreateChannel, OutagesTypeOK
  <2>3. unsaid' \subseteq Servers \X Channels
    BY <1>4 DEF CreateChannel, OutagesTypeOK
  <2>4. QED
    BY <1>4, <2>1, <2>2, <2>3 DEF CreateChannel, OutagesTypeOK
<1>5. ASSUME NEW c \in Channels, UpdateChannel(c) \/ DeleteChannel(c) PROVE OutagesTypeOK'
  <2>1. channels' \in [Channels -> Settings \cup {NoChannel}]
    BY <1>5 DEF UpdateChannel, DeleteChannel, OutagesTypeOK
  <2>2. QED
    BY <1>5, <2>1, Bounds DEF UpdateChannel, DeleteChannel, Mishap, OutagesTypeOK
<1>6. CASE OutagesRestart
  <2>1. UNION {AllOf(s) : s \in {s \in Servers : At(s, "alert")}} \subseteq Servers \X Channels
    BY DEF AllOf
  <2>2. unsaid' \subseteq Servers \X Channels
    BY <1>6, <2>1 DEF OutagesRestart, OutagesTypeOK
  <2>3. QED
    BY <1>6, <2>2, Bounds DEF OutagesRestart, Mishap, OutagesTypeOK
<1>7. CASE OutagesTick
  BY <1>7, Bounds DEF OutagesTick, Tick, OutagesTypeOK
<1>8. QED
  BY <1>1, <1>2, <1>3, <1>4, <1>5, <1>6, <1>7

LEMMA OutagesStepTypes ==
    ASSUME OutagesTypeOK, OutagesNext
    PROVE  OutagesTypeOK'
BY PollOnceTypes, ProbeTypes, StoreTypes, AlertTypes, CheckCertTypes, WarnTypes, RemediateTypes,
   RestartTypes, ManualCheckTypes, HandlerSavesTypes, ImportTypes, OtherTypes DEF OutagesNext

\* The variables of Outages keep their types.
THEOREM OutagesTypeCorrect == OutagesSpec => []OutagesTypeOK
<1>1. OutagesTypeOK /\ UNCHANGED outageVars => OutagesTypeOK'
  BY DEF OutagesTypeOK, outageVars
<1>2. QED
  BY <1>1, OutagesInitTypes, OutagesStepTypes, PTL DEF OutagesSpec

-----------------------------------------------------------------------------
(* Restarts.  The streak is the number of failed checks, a restart that was tried is   *)
(* remembered, and a goroutine about to restart a service has the failures it takes.   *)

RestartFor(s) ==
    /\ failStreak[s] = failed[s]
    /\ tries[s] = IF s \in restarted THEN 1 ELSE 0
    /\ s \in restarted => failed[s] >= RemediationFailures
    /\ At(s, "restart") => s \notin restarted /\ failed[s] >= RemediationFailures

RestartInv == \A s \in Servers : RestartFor(s)

\* A step that counts nothing and brings no goroutine to the restart.
LEMMA RestartQuiet ==
    ASSUME RestartInv, UNCHANGED <<failStreak, restarted, tries, failed>>,
           \A u \in Servers : polls'[u].at = "restart" => polls[u].at = "restart"
    PROVE  RestartInv'
BY DEF RestartInv, RestartFor, At

LEMMA RemediateCounts ==
    ASSUME OutagesTypeOK, RestartInv, NEW s \in Servers, Remediate(s)
    PROVE  RestartInv'
<1>1. \A u \in Servers : u # s => RestartFor(u)'
  <2>1. ASSUME NEW u \in Servers, u # s
        PROVE  /\ failStreak'[u] = failStreak[u] /\ failed'[u] = failed[u]
               /\ tries'[u] = tries[u] /\ (u \in restarted' <=> u \in restarted)
               /\ polls'[u] = polls[u]
    BY <2>1, RemediateTypes DEF Remediate, OutagesTypeOK
  <2>2. QED
    BY <2>1 DEF RestartInv, RestartFor, At
<1>2. CASE Healthy(polls[s])
  <2>1. /\ failStreak'[s] = 0 /\ failed'[s] = 0 /\ tries'[s] = 0 /\ s \notin restarted'
        /\ polls'[s] = Resting
    BY <1>2 DEF Remediate, OutagesTypeOK
  <2>2. RestartFor(s)'
    BY <2>1, PollIsUnderWay DEF RestartFor, At
  <2>3. QED
    BY <1>1, <2>2 DEF RestartInv
<1>3. CASE ~Healthy(polls[s])
  <2>1. /\ failStreak'[s] = failStreak[s] + 1 /\ failed'[s] = failed[s] + 1
        /\ restarted' = restarted /\ tries' = tries
    BY <1>3 DEF Remediate, OutagesTypeOK
  <2>2. At(s, "restart")' =>
          failStreak[s] + 1 >= RemediationFailures /\ s \notin restarted
    BY <1>3, PollIsUnderWay DEF Remediate, OutagesTypeOK, At
  <2>3. failed[s] \in Nat /\ failStreak[s] = failed[s]
    BY DEF OutagesTypeOK, RestartInv, RestartFor
  <2>4. RestartFor(s)'
    BY <2>1, <2>2, <2>3, Bounds DEF RestartInv, RestartFor
  <2>5. QED
    BY <1>1, <2>4 DEF RestartInv
<1>4. QED
  BY <1>2, <1>3

LEMMA RestartCounts ==
    ASSUME OutagesTypeOK, RestartInv, NEW s \in Servers, RestartService(s)
    PROVE  RestartInv'
<1>1. At(s, "restart")
  BY DEF RestartService, RestartPanel
<1>2. /\ failStreak' = failStreak /\ failed' = failed /\ restarted' = restarted \cup {s}
      /\ tries'[s] = tries[s] + 1
      /\ \A u \in Servers : u # s => tries'[u] = tries[u]
  BY DEF RestartService, RestartPanel, OutagesTypeOK
<1>3. polls'[s] = Resting /\ \A u \in Servers : u # s => polls'[u] = polls[u]
  BY RestartTypes
<1>4. RestartFor(s)'
  BY <1>1, <1>2, <1>3, PollIsUnderWay DEF RestartInv, RestartFor, At
<1>5. \A u \in Servers : u # s => RestartFor(u)'
  BY <1>2, <1>3 DEF RestartInv, RestartFor, At
<1>6. QED
  BY <1>4, <1>5 DEF RestartInv

LEMMA RestartStep ==
    ASSUME OutagesTypeOK, RestartInv, OutagesNext
    PROVE  RestartInv'
<1>1. CASE PollOnce
  <2>1. \A u \in Servers : polls'[u].at # "restart"
    BY <1>1, PollIsUnderWay DEF PollOnce
  <2>2. QED
    BY <1>1, <2>1, RestartQuiet DEF PollOnce
<1>2. ASSUME NEW s \in Servers, Probe(s) PROVE RestartInv'
  BY <1>2, ProbeTypes, RestartQuiet DEF Probe, At
<1>3. ASSUME NEW s \in Servers, Store(s) PROVE RestartInv'
  BY <1>3, StoreTypes, RestartQuiet DEF Store, At
<1>4. ASSUME NEW s \in Servers, Alert(s) PROVE RestartInv'
  BY <1>4, AlertTypes, RestartQuiet DEF Alert, At
<1>5. ASSUME NEW s \in Servers, CheckCert(s) PROVE RestartInv'
  BY <1>5, CheckCertTypes, RestartQuiet DEF CheckCert, At
<1>6. ASSUME NEW s \in Servers, Warn(s) PROVE RestartInv'
  BY <1>6, WarnTypes, RestartQuiet DEF Warn, At
<1>7. ASSUME NEW s \in Servers, Remediate(s) PROVE RestartInv'
  BY <1>7, RemediateCounts
<1>8. ASSUME NEW s \in Servers, RestartService(s) PROVE RestartInv'
  BY <1>8, RestartCounts
<1>9. ASSUME NEW s \in Servers,
             \/ ManualCheck(s) \/ HandlerReads(s) \/ HandlerSaves(s) \/ ImportServer(s)
             \/ Maintain(s) \/ Renew(s)
      PROVE  RestartInv'
  BY <1>9, RestartQuiet DEF ManualCheck, HandlerReads, HandlerSaves, ImportServer, Maintain, Renew
<1>10. ASSUME NEW c \in Channels, CreateChannel(c) \/ UpdateChannel(c) \/ DeleteChannel(c)
       PROVE  RestartInv'
  BY <1>10, RestartQuiet DEF CreateChannel, UpdateChannel, DeleteChannel
<1>11. CASE OutagesRestart
  BY <1>11, PollIsUnderWay DEF OutagesRestart, RestartInv, RestartFor, At
<1>12. CASE OutagesTick
  BY <1>12, RestartQuiet DEF OutagesTick
<1>13. QED
  BY <1>1, <1>2, <1>3, <1>4, <1>5, <1>6, <1>7, <1>8, <1>9, <1>10, <1>11, <1>12 DEF OutagesNext

\* A service is restarted once in an outage, and only after the failed checks it takes.
THEOREM RestartEarnedHolds == OutagesSpec => []RestartEarned
<1>1. OutagesInit => RestartInv
  BY PollIsUnderWay DEF OutagesInit, RestartInv, RestartFor, At
<1>2. RestartInv /\ UNCHANGED outageVars => RestartInv'
  BY DEF RestartInv, RestartFor, At, outageVars
<1>3. RestartInv => RestartEarned
  BY DEF RestartInv, RestartFor, RestartEarned
<1>4. QED
  BY <1>1, <1>2, <1>3, RestartStep, OutagesTypeCorrect, PTL DEF OutagesSpec

-----------------------------------------------------------------------------
(* Messages.  A channel that has missed nothing and was told something was told what    *)
(* the row said when the last message went out; while a goroutine works, that is the     *)
(* row it was given until it has sent its own.                                          *)

Before(s) == IF At(s, "alert") THEN polls[s].row ELSE servers[s]

AgreeOn(s, c) ==
    /\ polls[s].at \in {"probe", "store"} => SameHealth(polls[s].row, servers[s])
    /\ At(s, "alert") => SameHealth(servers[s], polls[s])
    /\ told[s][c] = "recovered" <=> Healthy(Before(s))
    /\ Healthy(Before(s)) \/ KnownBad(Before(s))

Heard(s, c) == <<s, c>> \notin unsaid /\ told[s][c] # "none"

AgreeFor(s) ==
    /\ polls[s].at \in {"store", "alert"} => Healthy(polls[s]) \/ KnownBad(polls[s])
    /\ \A c \in Channels : Heard(s, c) => AgreeOn(s, c)

AgreeInv == \A s \in Servers : AgreeFor(s)

LEMMA HealthExclusive ==
    ASSUME NEW row, NEW other
    PROVE  /\ ~(Healthy(row) /\ KnownBad(row))
           /\ SameHealth(row, other) => /\ SameHealth(other, row)
                                        /\ Healthy(row) <=> Healthy(other)
                                        /\ KnownBad(row) <=> KnownBad(other)
BY DEF Healthy, KnownBad, SameHealth

\* A server that a step leaves alone.
Alone(u) ==
    /\ polls'[u] = polls[u] /\ told'[u] = told[u]
    /\ SameHealth(servers'[u], servers[u])
    /\ \A c \in Channels : <<u, c>> \notin unsaid' => <<u, c>> \notin unsaid

LEMMA AgreeAlone ==
    ASSUME NEW u \in Servers, AgreeFor(u), Alone(u)
    PROVE  AgreeFor(u)'
<1>1. \A c \in Channels : Heard(u, c)' => Heard(u, c)
  BY DEF Alone, Heard
<1>2. ASSUME NEW c \in Channels, AgreeOn(u, c) PROVE AgreeOn(u, c)'
  BY <1>2 DEF Alone, AgreeOn, Before, At, SameHealth, Healthy, KnownBad
<1>3. QED
  BY <1>1, <1>2 DEF AgreeFor, Alone

LEMMA AgreePollOnce ==
    ASSUME OutagesTypeOK, AgreeInv, PollOnce, NEW u \in Servers
    PROVE  AgreeFor(u)'
<1>1. polls[u] = Resting /\ UNCHANGED <<servers, told, unsaid>>
  BY DEF PollOnce
<1>2. \/ polls'[u] = Resting
      \/ polls'[u].at = "probe" /\ polls'[u].row = servers[u]
  BY DEF PollOnce
<1>3. ASSUME NEW c \in Channels, Heard(u, c)' PROVE AgreeOn(u, c)'
  <2>1. AgreeOn(u, c)
    BY <1>1, <1>3 DEF AgreeInv, AgreeFor, Heard
  <2>2. QED
    BY <1>1, <1>2, <2>1, PollIsUnderWay DEF AgreeOn, Before, At, SameHealth
<1>4. QED
  BY <1>2, <1>3, PollIsUnderWay DEF AgreeFor

LEMMA AgreeProbe ==
    ASSUME OutagesTypeOK, AgreeInv, NEW s \in Servers, Probe(s)
    PROVE  AgreeFor(s)'
<1>1. /\ polls'[s].at = "store" /\ polls'[s].row = polls[s].row /\ polls[s].at = "probe"
      /\ Healthy(polls'[s]) \/ KnownBad(polls'[s])
      /\ UNCHANGED <<servers, told, unsaid>>
  BY ProbeTypes DEF Probe, At
<1>2. ASSUME NEW c \in Channels, Heard(s, c)' PROVE AgreeOn(s, c)'
  <2>1. AgreeOn(s, c)
    BY <1>1, <1>2 DEF AgreeInv, AgreeFor, Heard
  <2>2. QED
    BY <1>1, <2>1 DEF AgreeOn, Before, At
<1>3. Healthy(polls[s])' \/ KnownBad(polls[s])'
  BY <1>1 DEF Healthy, KnownBad
<1>4. QED
  BY <1>2, <1>3 DEF AgreeFor

LEMMA AgreeStore ==
    ASSUME OutagesTypeOK, AgreeInv, NEW s \in Servers, Store(s)
    PROVE  AgreeFor(s)'
<1>1. /\ polls'[s].at = "alert" /\ polls'[s].row = polls[s].row /\ polls[s].at = "store"
      /\ SameHealth(polls'[s], polls[s]) /\ told' = told
  BY StoreTypes DEF Store, At, Kept
<1>2. Healthy(polls[s])' \/ KnownBad(polls[s])'
  BY <1>1 DEF AgreeInv, AgreeFor, Healthy, KnownBad, SameHealth
<1>3. ASSUME NEW c \in Channels, Heard(s, c)' PROVE AgreeOn(s, c)'
  <2>1. /\ unsaid' = unsaid
        /\ servers' = [servers EXCEPT ![s].status = polls[s].status, ![s].cred = polls[s].cred]
    BY <1>3 DEF Store, Heard, AllOf
  <2>2. SameHealth(servers'[s], polls[s])
    <3>1. PICK row \in ServerRow : row = servers[s]
      BY DEF OutagesTypeOK
    <3>2. PICK p : p = polls[s]
      OBVIOUS
    <3>3. PICK new : new = [[row EXCEPT !.status = p.status] EXCEPT !.cred = p.cred]
      OBVIOUS
    <3>4. new.status = p.status /\ new.cred = p.cred
      BY <3>3 DEF ServerRow
    <3>5. servers'[s] = new
      BY <2>1, <3>1, <3>2, <3>3 DEF OutagesTypeOK
    <3>6. QED
      BY <3>2, <3>4, <3>5 DEF SameHealth
  <2>3. AgreeOn(s, c)
    BY <1>1, <1>3, <2>1 DEF AgreeInv, AgreeFor, Heard
  <2>4. QED
    BY <1>1, <2>2, <2>3 DEF AgreeOn, Before, At, SameHealth, Healthy, KnownBad
<1>4. QED
  BY <1>2, <1>3 DEF AgreeFor

LEMMA AgreeAlert ==
    ASSUME OutagesTypeOK, AgreeInv, NEW s \in Servers, Alert(s)
    PROVE  AgreeFor(s)' /\ \A u \in Servers : u # s => Alone(u)
<1>1. /\ polls'[s].at = "cert" /\ polls[s].at = "alert" /\ servers' = servers
      /\ \A u \in Servers : u # s => polls'[u] = polls[u]
  BY AlertTypes DEF Alert, At
<1>2. CASE Crossing(s) = "none"
  <2>1. told' = told /\ unsaid' = unsaid
    BY <1>2 DEF Alert
  <2>2. ASSUME NEW c \in Channels, Heard(s, c)' PROVE AgreeOn(s, c)'
    <3>1. AgreeOn(s, c)
      BY <2>1, <2>2 DEF AgreeInv, AgreeFor, Heard
    <3>2. PICK row, p : row = polls[s].row /\ p = polls[s]
      OBVIOUS
    <3>3. /\ SameHealth(servers[s], p)
          /\ told[s][c] = "recovered" <=> Healthy(row)
          /\ Healthy(row) \/ KnownBad(row)
      BY <1>1, <3>1, <3>2 DEF AgreeOn, Before, At
    <3>4. Healthy(p) \/ KnownBad(p)
      BY <1>1, <3>2 DEF AgreeInv, AgreeFor
    <3>5. ~(Healthy(row) /\ ~Healthy(p)) /\ ~(KnownBad(row) /\ Healthy(p))
      BY <1>2, <3>2 DEF Crossing
    <3>6. Healthy(row) <=> Healthy(p)
      BY <3>3, <3>5
    <3>7. Healthy(servers[s]) <=> Healthy(p)
      BY <3>3, HealthExclusive
    <3>8. KnownBad(servers[s]) <=> KnownBad(p)
      BY <3>3, HealthExclusive
    <3>9. /\ told'[s][c] = "recovered" <=> Healthy(servers[s])
          /\ Healthy(servers[s]) \/ KnownBad(servers[s])
      BY <2>1, <3>3, <3>4, <3>6, <3>7, <3>8
    <3>10. QED
      BY <1>1, <3>9 DEF AgreeOn, Before, At
  <2>3. QED
    BY <1>1, <2>1, <2>2 DEF AgreeFor, Alone, SameHealth
<1>3. CASE Crossing(s) # "none"
  <2>1. PICK kind : kind = Crossing(s)
    OBVIOUS
  <2>2. PICK sent \in SUBSET Channels :
          /\ told' = [told EXCEPT ![s] = [c \in Channels |-> IF c \in sent THEN kind ELSE @[c]]]
          /\ unsaid' = IF SameHealth(servers[s], polls[s])
                       THEN (unsaid \ ({s} \X sent)) \cup ({s} \X (Channels \ sent))
                       ELSE unsaid \cup AllOf(s)
    BY <1>3, <2>1 DEF Alert
  <2>3. ASSUME NEW c \in Channels, <<s, c>> \notin unsaid'
        PROVE  SameHealth(servers[s], polls[s]) /\ told'[s][c] = kind
    <3>1. SameHealth(servers[s], polls[s])
      BY <2>2, <2>3 DEF AllOf
    <3>2. c \in sent
      BY <2>2, <2>3, <3>1
    <3>3. QED
      BY <2>2, <3>1, <3>2 DEF OutagesTypeOK
  <2>4. PICK row, p : row = polls[s].row /\ p = polls[s]
    OBVIOUS
  <2>5. Healthy(p) \/ KnownBad(p)
    BY <1>1, <2>4 DEF AgreeInv, AgreeFor
  <2>6. kind = "recovered" <=> Healthy(p)
    BY <1>3, <2>1, <2>4 DEF Crossing
  <2>7. ASSUME NEW c \in Channels, Heard(s, c)' PROVE AgreeOn(s, c)'
    <3>1. SameHealth(servers[s], p) /\ told'[s][c] = kind
      BY <2>3, <2>4, <2>7 DEF Heard
    <3>2. Healthy(servers[s]) <=> Healthy(p)
      BY <3>1, HealthExclusive
    <3>3. KnownBad(servers[s]) <=> KnownBad(p)
      BY <3>1, HealthExclusive
    <3>4. /\ told'[s][c] = "recovered" <=> Healthy(servers[s])
          /\ Healthy(servers[s]) \/ KnownBad(servers[s])
      BY <2>5, <2>6, <3>1, <3>2, <3>3
    <3>5. QED
      BY <1>1, <3>4 DEF AgreeOn, Before, At
  <2>8. ASSUME NEW u \in Servers, u # s PROVE Alone(u)
    <3>1. told'[u] = told[u]
      BY <2>2, <2>8 DEF OutagesTypeOK
    <3>2. \A c \in Channels : <<u, c>> \notin unsaid' => <<u, c>> \notin unsaid
      BY <2>2, <2>8
    <3>3. QED
      BY <1>1, <2>8, <3>1, <3>2 DEF Alone, SameHealth
  <2>9. QED
    BY <1>1, <2>7, <2>8 DEF AgreeFor
<1>4. QED
  BY <1>2, <1>3

\* A goroutine that is past the message, a row of which only the date changes.
LEMMA AgreeLater ==
    ASSUME NEW s \in Servers, AgreeFor(s), UNCHANGED <<told, unsaid>>,
           SameHealth(servers'[s], servers[s]),
           polls[s].at \notin {"probe", "store", "alert"},
           polls'[s].at \notin {"probe", "store", "alert"}
    PROVE  AgreeFor(s)'
BY DEF AgreeFor, AgreeOn, Heard, Before, At, SameHealth, Healthy, KnownBad

\* A row that another write changed, and what it leaves unsaid.
LEMMA AgreeUnseen ==
    ASSUME OutagesTypeOK, NEW s \in Servers, AgreeFor(s), UNCHANGED <<told, polls>>,
           unsaid' = Unseen(s, servers'[s])
    PROVE  AgreeFor(s)'
<1>1. CASE polls[s] = Resting /\ SameHealth(servers'[s], servers[s])
  <2>1. unsaid' = unsaid
    BY <1>1 DEF Unseen
  <2>2. QED
    BY <1>1, <2>1, PollIsUnderWay
       DEF AgreeFor, AgreeOn, Heard, Before, At, SameHealth, Healthy, KnownBad
<1>2. CASE ~(polls[s] = Resting /\ SameHealth(servers'[s], servers[s]))
  <2>1. \A c \in Channels : ~Heard(s, c)'
    BY <1>2 DEF Unseen, Heard, AllOf
  <2>2. QED
    BY <2>1 DEF AgreeFor, Healthy, KnownBad
<1>3. QED
  BY <1>1, <1>2

\* The step of one server leaves the others alone.
LEMMA AgreeOthers ==
    ASSUME AgreeInv, NEW s \in Servers, AgreeFor(s)', \A u \in Servers : u # s => Alone(u)
    PROVE  AgreeInv'
BY AgreeAlone DEF AgreeInv

LEMMA AgreeStep ==
    ASSUME OutagesTypeOK, AgreeInv, OutagesNext
    PROVE  AgreeInv'
<1>1. CASE PollOnce
  BY <1>1, AgreePollOnce DEF AgreeInv
<1>2. ASSUME NEW s \in Servers, Probe(s) PROVE AgreeInv'
  <2>1. \A u \in Servers : u # s => Alone(u)
    BY <1>2, ProbeTypes DEF Probe, Alone, SameHealth
  <2>2. QED
    BY <1>2, <2>1, AgreeProbe, AgreeOthers
<1>3. ASSUME NEW s \in Servers, Store(s) PROVE AgreeInv'
  <2>1. ASSUME NEW u \in Servers, u # s PROVE Alone(u)
    <3>1. polls'[u] = polls[u] /\ servers'[u] = servers[u]
      BY <1>3, <2>1, StoreTypes DEF Store, OutagesTypeOK
    <3>2. told'[u] = told[u] /\ unsaid \subseteq unsaid'
      BY <1>3 DEF Store
    <3>3. QED
      BY <3>1, <3>2 DEF Alone, SameHealth
  <2>2. QED
    BY <1>3, <2>1, AgreeStore, AgreeOthers
<1>4. ASSUME NEW s \in Servers, Alert(s) PROVE AgreeInv'
  BY <1>4, AgreeAlert, AgreeOthers
<1>5. ASSUME NEW s \in Servers, CheckCert(s) PROVE AgreeInv'
  <2>1. \A u \in Servers : u # s => Alone(u)
    BY <1>5, CheckCertTypes DEF CheckCert, Alone, SameHealth
  <2>2. AgreeFor(s)'
    BY <1>5, CheckCertTypes, AgreeLater DEF CheckCert, AgreeInv, At, SameHealth
  <2>3. QED
    BY <2>1, <2>2, AgreeOthers
<1>6. ASSUME NEW s \in Servers, Warn(s) PROVE AgreeInv'
  <2>1. \A u \in Servers : u # s => Alone(u)
    BY <1>6, WarnTypes DEF Warn, Alone, SameHealth
  <2>2. AgreeFor(s)'
    BY <1>6, WarnTypes, AgreeLater DEF Warn, AgreeInv, At, SameHealth
  <2>3. QED
    BY <2>1, <2>2, AgreeOthers
<1>7. ASSUME NEW s \in Servers, Remediate(s) PROVE AgreeInv'
  <2>1. \A u \in Servers : u # s => Alone(u)
    BY <1>7, RemediateTypes DEF Remediate, Alone, SameHealth
  <2>2. AgreeFor(s)'
    BY <1>7, RemediateTypes, AgreeLater DEF Remediate, AgreeInv, At, SameHealth
  <2>3. QED
    BY <2>1, <2>2, AgreeOthers
<1>8. ASSUME NEW s \in Servers, RestartService(s) PROVE AgreeInv'
  <2>1. \A u \in Servers : u # s => Alone(u)
    BY <1>8, RestartTypes DEF RestartService, RestartPanel, Alone, SameHealth
  <2>2. AgreeFor(s)'
    BY <1>8, RestartTypes, AgreeLater, PollIsUnderWay
       DEF RestartService, RestartPanel, AgreeInv, At, SameHealth
  <2>3. QED
    BY <2>1, <2>2, AgreeOthers
<1>9. ASSUME NEW s \in Servers, ManualCheck(s) \/ HandlerSaves(s) \/ ImportServer(s)
      PROVE  AgreeInv'
  <2>1. /\ unsaid' = Unseen(s, servers'[s]) /\ UNCHANGED <<told, polls>>
        /\ \A u \in Servers : u # s => servers'[u] = servers[u]
    BY <1>9, ManualCheckTypes, HandlerSavesTypes, ImportTypes
       DEF Replaced, ManualCheck, HandlerSaves, ImportServer
  <2>2. unsaid \subseteq unsaid'
    BY <2>1 DEF Unseen
  <2>3. \A u \in Servers : u # s => Alone(u)
    BY <2>1, <2>2 DEF Alone, SameHealth
  <2>4. AgreeFor(s)'
    BY <2>1, AgreeUnseen DEF AgreeInv
  <2>5. QED
    BY <2>3, <2>4, AgreeOthers
<1>10. ASSUME UNCHANGED <<polls, servers, told, unsaid>> PROVE AgreeInv'
  <2>1. \A u \in Servers : Alone(u)
    BY <1>10 DEF Alone, SameHealth
  <2>2. QED
    BY <2>1, AgreeAlone DEF AgreeInv
<1>11. ASSUME NEW c \in Channels, CreateChannel(c) PROVE AgreeInv'
  <2>1. ASSUME NEW u \in Servers, NEW d \in Channels, Heard(u, d)'
        PROVE  Heard(u, d) /\ told'[u][d] = told[u][d]
    <3>1. told'[u] = [told[u] EXCEPT ![c] = "none"]
      BY <1>11 DEF CreateChannel
    <3>2. told[u] \in [Channels -> Messages]
      BY DEF OutagesTypeOK
    <3>3. d # c
      BY <2>1, <3>1, <3>2 DEF Heard
    <3>4. told'[u][d] = told[u][d]
      BY <3>1, <3>2, <3>3
    <3>5. <<u, d>> \in unsaid' <=> <<u, d>> \in unsaid
      BY <1>11, <3>3 DEF CreateChannel
    <3>6. QED
      BY <2>1, <3>4, <3>5 DEF Heard
  <2>2. UNCHANGED <<polls, servers>>
    BY <1>11 DEF CreateChannel
  <2>3. QED
    BY <2>1, <2>2 DEF AgreeInv, AgreeFor, AgreeOn, Before, At, SameHealth, Healthy, KnownBad
<1>12. CASE OutagesRestart
  <2>1. /\ UNCHANGED <<servers, told>> /\ unsaid \subseteq unsaid'
        /\ \A s \in Servers : polls'[s] = Resting
    BY <1>12 DEF OutagesRestart
  <2>2. ASSUME NEW s \in Servers, NEW c \in Channels, Heard(s, c)'
        PROVE  AgreeOn(s, c)'
    <3>1. ~At(s, "alert")
      BY <1>12, <2>2 DEF OutagesRestart, Heard, AllOf
    <3>2. Heard(s, c)
      BY <2>1, <2>2 DEF Heard
    <3>3. AgreeOn(s, c)
      BY <3>2 DEF AgreeInv, AgreeFor
    <3>4. QED
      BY <2>1, <3>1, <3>3, PollIsUnderWay DEF AgreeOn, Before, At, SameHealth, Healthy, KnownBad
  <2>3. QED
    BY <2>1, <2>2, PollIsUnderWay DEF AgreeInv, AgreeFor
<1>13. QED
  BY <1>1, <1>2, <1>3, <1>4, <1>5, <1>6, <1>7, <1>8, <1>9, <1>10, <1>11, <1>12
     DEF OutagesNext, HandlerReads, Maintain, Renew, UpdateChannel, DeleteChannel, OutagesTick

-----------------------------------------------------------------------------
(* Certificates.  Every date the manager has read is no later than the one the panel      *)
(* shows.  A date announced once more than dates were lost is near, no later than the      *)
(* stored one, and no later than the one a goroutine was given, which therefore keeps       *)
(* quiet about it.                                                                       *)

Early == {"probe", "store", "alert", "cert"}

Spent(s, d) == warned[s][d] = 1 + lost[s]

ReadBefore(s) ==
    /\ servers[s].cert <= panelCert[s]
    /\ held[s] # Unheld => held[s].cert <= panelCert[s]
    /\ polls[s].at \in Early => polls[s].row.cert <= panelCert[s]
    /\ polls[s].at = "warn" => /\ polls[s].date \in CertDates
                              /\ polls[s].row.cert <= polls[s].date

SpentFor(s) ==
    \A d \in CertDates :
      /\ warned[s][d] <= 1 + lost[s]
      /\ Spent(s, d) => /\ Near(d)
                        /\ d <= servers[s].cert
                        /\ polls[s].at \in Early \cup {"warn"} => d <= polls[s].row.cert

\* A date about to be announced for the last time is the stored one, or an earlier one.
AboutToSpend(s) ==
    At(s, "warn") /\ polls[s].row.cert < polls[s].date /\ warned[s][polls[s].date] = lost[s]
      => polls[s].date <= servers[s].cert

CertFor(s) == ReadBefore(s) /\ SpentFor(s) /\ AboutToSpend(s)

CertInv == \A s \in Servers : CertFor(s)

\* A step that leaves dates and announcements alone, and starts no goroutine.
PollQuiet(s) ==
    /\ panelCert'[s] = panelCert[s] /\ warned'[s] = warned[s] /\ now' = now
    /\ polls'[s].at \in Early => polls[s].at \in Early /\ polls'[s].row = polls[s].row
    /\ polls'[s].at = "warn" => polls'[s] = polls[s]
HeldQuiet(s) ==
    \/ held'[s] = held[s]
    \/ held'[s] = Unheld
    \/ held'[s].cert = servers[s].cert
CertQuiet(s) ==
    /\ PollQuiet(s) /\ HeldQuiet(s)
    /\ servers'[s].cert = servers[s].cert /\ lost'[s] = lost[s]

LEMMA CertKept ==
    ASSUME NEW s \in Servers, CertFor(s), CertQuiet(s)
    PROVE  CertFor(s)'
<1>1. ReadBefore(s)'
  BY DEF CertFor, CertQuiet, PollQuiet, HeldQuiet, ReadBefore
<1>2. SpentFor(s)'
  BY DEF CertFor, CertQuiet, PollQuiet, SpentFor, Spent, Near
<1>3. AboutToSpend(s)'
  BY DEF CertFor, CertQuiet, PollQuiet, AboutToSpend, At
<1>4. QED
  BY <1>1, <1>2, <1>3 DEF CertFor

\* Dates are numbers.
LEMMA DateFacts ==
    ASSUME OutagesTypeOK, NEW s \in Servers
    PROVE  /\ servers[s].cert \in CertDates \cup {Never}
           /\ panelCert[s] \in CertDates /\ panelCert[s] \in Int
           /\ servers[s].cert \in Int /\ now \in Int
           /\ \A d \in CertDates : d \in Int /\ d > Never
           /\ \A d \in CertDates : warned[s][d] \in Nat
           /\ lost[s] \in Nat
           /\ polls[s].at # "rest" => /\ polls[s].row.cert \in CertDates \cup {Never}
                                     /\ polls[s].row.cert \in Int
           /\ held[s] # Unheld => held[s].cert \in Int
<1>1. servers[s] \in ServerRow
  BY DEF OutagesTypeOK
<1>2. servers[s].cert \in CertDates \cup {Never}
  BY <1>1 DEF ServerRow
<1>3. Never \in Int /\ \A d \in CertDates : d \in Int /\ d > Never
  BY Bounds DEF Never
<1>4. /\ panelCert[s] \in CertDates /\ now \in Int /\ warned[s] \in [CertDates -> Nat]
      /\ lost[s] \in Nat /\ polls[s] \in Poll \cup {Resting} /\ held[s] \in ServerRow \cup {Unheld}
  BY DEF OutagesTypeOK
<1>5. /\ \A row \in ServerRow : row.cert \in CertDates \cup {Never}
      /\ \A p \in Poll : p.row.cert \in CertDates \cup {Never}
  BY DEF Poll, ServerRow
<1>6. \A date \in CertDates \cup {Never} : date \in Int
  BY <1>3
<1>7. polls[s].at # "rest" => polls[s] \in Poll
  BY <1>4, PollIsUnderWay
<1>8. QED
  BY <1>2, <1>3, <1>4, <1>5, <1>6, <1>7

\* A date is lost: whatever was announced, once more is not too often.
LEMMA CertLost ==
    ASSUME OutagesTypeOK, NEW s \in Servers, CertFor(s), PollQuiet(s), HeldQuiet(s),
           lost'[s] = lost[s] + 1, servers'[s].cert <= panelCert[s]
    PROVE  CertFor(s)'
<1>1. ReadBefore(s)'
  BY DEF CertFor, PollQuiet, HeldQuiet, ReadBefore
<1>2. \A d \in CertDates : warned'[s][d] <= lost'[s] /\ lost'[s] \in Nat /\ warned'[s][d] \in Nat
  BY DateFacts DEF CertFor, SpentFor, PollQuiet
<1>3. SpentFor(s)'
  BY <1>2 DEF SpentFor, Spent
<1>4. AboutToSpend(s)'
  <2>1. SUFFICES ASSUME At(s, "warn")', polls'[s].row.cert < polls'[s].date,
                        warned'[s][polls'[s].date] = lost'[s]
                 PROVE  FALSE
    BY DEF AboutToSpend
  <2>2. polls'[s] = polls[s] /\ polls[s].at = "warn"
    BY <2>1 DEF PollQuiet, At
  <2>3. PICK date \in CertDates : date = polls[s].date
    BY <2>2 DEF CertFor, ReadBefore
  <2>4. Spent(s, date)
    BY <2>1, <2>2, <2>3, DateFacts DEF PollQuiet, Spent
  <2>5. date <= polls[s].row.cert
    BY <2>2, <2>4 DEF CertFor, SpentFor
  <2>6. polls[s].row.cert \in Int /\ date \in Int
    BY <2>2, DateFacts
  <2>7. QED
    BY <2>1, <2>2, <2>3, <2>5, <2>6
<1>5. QED
  BY <1>1, <1>3, <1>4 DEF CertFor

LEMMA CertPollOnce ==
    ASSUME OutagesTypeOK, CertInv, PollOnce
    PROVE  CertInv'
<1>1. UNCHANGED <<servers, panelCert, warned, lost, held, now>>
  BY DEF PollOnce
<1>2. ASSUME NEW s \in Servers PROVE CertFor(s)'
  <2>1. \/ polls'[s] = Resting
        \/ polls'[s].at = "probe" /\ polls'[s].row = servers[s]
    BY DEF PollOnce
  <2>2. CertFor(s)
    BY DEF CertInv
  <2>3. ReadBefore(s)'
    BY <1>1, <2>1, <2>2, PollIsUnderWay DEF CertFor, ReadBefore, Early
  <2>4. SpentFor(s)'
    BY <1>1, <2>1, <2>2, PollIsUnderWay DEF CertFor, SpentFor, Spent, Near, Early
  <2>5. AboutToSpend(s)'
    BY <2>1, PollIsUnderWay DEF AboutToSpend, At
  <2>6. QED
    BY <2>3, <2>4, <2>5 DEF CertFor
<1>3. QED
  BY <1>2 DEF CertInv

LEMMA CertCheck ==
    ASSUME OutagesTypeOK, CertInv, NEW s \in Servers, CheckCert(s)
    PROVE  CertInv'
<1>1. UNCHANGED <<now, panelCert, warned, held>>
  BY DEF CheckCert
<1>2. ASSUME NEW u \in Servers, u # s PROVE CertFor(u)'
  <2>1. CertQuiet(u)
    BY <1>1, <1>2, CheckCertTypes DEF CertQuiet, PollQuiet, HeldQuiet
  <2>2. QED
    BY <1>2, <2>1, CertKept DEF CertInv
<1>3. CertFor(s)'
  <2>1. CertFor(s) /\ polls[s].at = "cert" /\ polls[s].at \in Early
    BY DEF CertInv, CheckCert, At, Early
  <2>2. CASE At(s, "remediate")' /\ UNCHANGED <<servers, lost>>
    <3>1. CertQuiet(s)
      BY <1>1, <2>2 DEF CertQuiet, PollQuiet, HeldQuiet, At, Early
    <3>2. QED
      BY <2>1, <3>1, CertKept
  <2>3. CASE /\ At(s, "warn")' /\ polls'[s].row = polls[s].row
             /\ polls'[s].date = panelCert[s]
             /\ servers'[s].cert = panelCert[s] /\ lost' = lost
    <3>1. ReadBefore(s)'
      BY <1>1, <2>1, <2>3, DateFacts DEF CertFor, ReadBefore, At, Early
    <3>2. ASSUME NEW d \in CertDates, Spent(s, d)
          PROVE  Near(d)' /\ d <= servers'[s].cert /\ d <= polls'[s].row.cert
      <4>1. /\ Near(d) /\ d <= servers[s].cert /\ d <= polls[s].row.cert
            /\ servers[s].cert <= panelCert[s]
        BY <2>1, <3>2 DEF CertFor, SpentFor, ReadBefore
      <4>2. QED
        BY <1>1, <2>3, <4>1, DateFacts DEF Near
    <3>3. SpentFor(s)'
      BY <1>1, <2>1, <2>3, <3>2 DEF CertFor, SpentFor, Spent
    <3>4. AboutToSpend(s)'
      BY <2>3, DateFacts DEF AboutToSpend
    <3>5. QED
      BY <3>1, <3>3, <3>4 DEF CertFor
  <2>4. CASE /\ At(s, "warn")' /\ polls'[s].row = polls[s].row
             /\ polls'[s].date = panelCert[s]
             /\ servers' = servers /\ lost'[s] = lost[s] + 1
    <3>1. ReadBefore(s)'
      BY <1>1, <2>1, <2>4, DateFacts DEF CertFor, ReadBefore, At, Early
    <3>2. \A d \in CertDates :
            warned'[s][d] <= lost'[s] /\ lost'[s] \in Nat /\ warned'[s][d] \in Nat
      BY <1>1, <2>1, <2>4, DateFacts DEF CertFor, SpentFor
    <3>3. SpentFor(s)'
      BY <3>2 DEF SpentFor, Spent
    <3>4. ASSUME warned[s][panelCert[s]] = lost[s] + 1 PROVE panelCert[s] <= polls[s].row.cert
      BY <2>1, <3>4, DateFacts DEF CertFor, SpentFor, Spent
    <3>5. polls[s].row.cert \in Int
      BY <2>1, DateFacts
    <3>6. AboutToSpend(s)'
      BY <1>1, <2>4, <3>4, <3>5, DateFacts DEF AboutToSpend
    <3>7. QED
      BY <3>1, <3>3, <3>6 DEF CertFor
  <2>5. QED
    BY <2>2, <2>3, <2>4, CheckCertTypes
<1>4. QED
  BY <1>2, <1>3 DEF CertInv

LEMMA CertWarnStep ==
    ASSUME OutagesTypeOK, CertInv, NEW s \in Servers, Warn(s)
    PROVE  CertInv'
<1>1. UNCHANGED <<now, servers, panelCert, lost, held>>
  BY DEF Warn
<1>2. ASSUME NEW u \in Servers, u # s PROVE CertFor(u)'
  <2>1. CertQuiet(u)
    BY <1>1, <1>2, WarnTypes DEF CertQuiet, PollQuiet, HeldQuiet
  <2>2. QED
    BY <1>2, <2>1, CertKept DEF CertInv
<1>3. CertFor(s)'
  <2>1. CertFor(s) /\ polls[s].at = "warn" /\ At(s, "remediate")'
    BY WarnTypes DEF CertInv, Warn, At
  <2>2. PICK date \in CertDates : date = polls[s].date
    BY <2>1 DEF CertFor, ReadBefore
  <2>3. PICK prior : prior = polls[s].row.cert
    OBVIOUS
  <2>4. prior \in Int /\ prior \in CertDates \cup {Never} /\ prior <= date
    BY <2>1, <2>2, <2>3, DateFacts DEF CertFor, ReadBefore
  <2>5. \A d \in CertDates :
          warned'[s][d] = IF d = date /\ NewlyNear(s) /\ s \notin covered
                          THEN warned[s][d] + 1 ELSE warned[s][d]
    BY <2>2, WarnTypes
  <2>6. NewlyNear(s) => Near(date) /\ prior < date
    <3>1. Near(date) /\ ~(prior # Never /\ Near(prior)) => prior # date
      BY DateFacts
    <3>2. QED
      BY <2>2, <2>3, <2>4, <3>1, DateFacts DEF NewlyNear
  <2>7. ASSUME NEW d \in CertDates
        PROVE  /\ warned'[s][d] <= 1 + lost[s]
               /\ warned'[s][d] = 1 + lost[s] => Near(d) /\ d <= servers[s].cert
    <3>1. /\ warned[s][d] <= 1 + lost[s]
          /\ warned[s][d] = 1 + lost[s] => Near(d) /\ d <= servers[s].cert /\ d <= prior
      BY <2>1, <2>3 DEF CertFor, SpentFor, Spent
    <3>2. CASE d = date /\ NewlyNear(s) /\ s \notin covered
      <4>1. warned'[s][d] = warned[s][d] + 1 /\ Near(d) /\ prior < d
        BY <2>5, <2>6, <3>2
      <4>2. warned[s][d] # 1 + lost[s]
        BY <2>4, <3>1, <4>1, DateFacts
      <4>3. warned[s][d] = lost[s] => d <= servers[s].cert
        BY <2>1, <2>2, <2>3, <3>2, <4>1 DEF CertFor, AboutToSpend, At
      <4>4. QED
        BY <3>1, <4>1, <4>2, <4>3, DateFacts
    <3>3. CASE ~(d = date /\ NewlyNear(s) /\ s \notin covered)
      BY <2>5, <3>1, <3>3
    <3>4. QED
      BY <3>2, <3>3
  <2>8. \A d \in CertDates : Near(d)' <=> Near(d)
    BY <1>1 DEF Near
  <2>9. ReadBefore(s)'
    BY <1>1, <2>1 DEF CertFor, ReadBefore, At, Early
  <2>10. SpentFor(s)'
    BY <1>1, <2>1, <2>7, <2>8 DEF SpentFor, Spent, At, Early
  <2>11. AboutToSpend(s)'
    BY <2>1 DEF AboutToSpend, At
  <2>12. QED
    BY <2>9, <2>10, <2>11 DEF CertFor
<1>4. QED
  BY <1>2, <1>3 DEF CertInv

\* A handler or an import replaces a row: the date stays, or it is lost.
LEMMA CertReplaced ==
    ASSUME OutagesTypeOK, CertInv, NEW s \in Servers, HandlerSaves(s) \/ ImportServer(s)
    PROVE  CertInv'
<1>1. /\ Replaced(s) /\ UNCHANGED <<now, panelCert, warned, polls>>
      /\ \A u \in Servers : HeldQuiet(u)
  BY HandlerSavesTypes, ImportTypes DEF HandlerSaves, ImportServer, HeldQuiet, OutagesTypeOK
<1>2. \A u \in Servers : PollQuiet(u)
  BY <1>1 DEF PollQuiet
<1>3. servers'[s].cert <= panelCert[s]
  <2>1. CASE HandlerSaves(s)
    BY <2>1, HandlerSavesTypes DEF HandlerSaves, CertInv, CertFor, ReadBefore
  <2>2. CASE ImportServer(s)
    BY <2>2, ImportTypes, DateFacts, Bounds DEF Never
  <2>3. QED
    BY <2>1, <2>2
<1>4. ASSUME NEW u \in Servers, CertQuiet(u) PROVE CertFor(u)'
  BY <1>4, CertKept DEF CertInv
<1>5. CertFor(s)'
  <2>1. CASE lost'[s] = lost[s] + 1
    BY <1>1, <1>2, <1>3, <2>1, CertLost DEF CertInv
  <2>2. CASE servers'[s].cert = servers[s].cert /\ lost'[s] = lost[s]
    BY <1>1, <1>2, <1>4, <2>2 DEF CertQuiet
  <2>3. QED
    BY <1>1, <2>1, <2>2 DEF Replaced
<1>6. ASSUME NEW u \in Servers, u # s PROVE CertFor(u)'
  BY <1>1, <1>2, <1>4, <1>6 DEF Replaced, CertQuiet
<1>7. QED
  BY <1>5, <1>6 DEF CertInv

LEMMA CertStep ==
    ASSUME OutagesTypeOK, CertInv, OutagesNext
    PROVE  CertInv'
<1>1. ASSUME \A s \in Servers : CertQuiet(s) PROVE CertInv'
  BY <1>1, CertKept DEF CertInv
<1> USE DEF CertQuiet, PollQuiet, HeldQuiet, At, Early
<1>2. CASE PollOnce
  BY <1>2, CertPollOnce
<1>3. ASSUME NEW s \in Servers, Probe(s) PROVE CertInv'
  BY <1>1, <1>3, ProbeTypes DEF Probe
<1>4. ASSUME NEW s \in Servers, Store(s) PROVE CertInv'
  <2>1. \A u \in Servers : servers'[u].cert = servers[u].cert
    <3>1. PICK row \in ServerRow : row = servers[s]
      BY DEF OutagesTypeOK
    <3>2. PICK p : p = polls[s]
      OBVIOUS
    <3>3. PICK new : new = [[row EXCEPT !.status = p.status] EXCEPT !.cred = p.cred]
      OBVIOUS
    <3>4. new.cert = row.cert
      BY <3>3 DEF ServerRow
    <3>5. servers' = [servers EXCEPT ![s] = new] \/ servers' = servers
      BY <1>4, <3>1, <3>2, <3>3 DEF Store, OutagesTypeOK
    <3>6. QED
      BY <3>1, <3>4, <3>5 DEF OutagesTypeOK
  <2>2. QED
    BY <1>1, <1>4, <2>1, StoreTypes DEF Store, Kept
<1>5. ASSUME NEW s \in Servers, Alert(s) PROVE CertInv'
  BY <1>1, <1>5, AlertTypes DEF Alert, Kept
<1>6. ASSUME NEW s \in Servers, CheckCert(s) PROVE CertInv'
  BY <1>6, CertCheck
<1>7. ASSUME NEW s \in Servers, Warn(s) PROVE CertInv'
  BY <1>7, CertWarnStep
<1>8. ASSUME NEW s \in Servers, Remediate(s) PROVE CertInv'
  BY <1>1, <1>8, RemediateTypes DEF Remediate
<1>9. ASSUME NEW s \in Servers, RestartService(s) PROVE CertInv'
  BY <1>1, <1>9, RestartTypes, PollIsUnderWay DEF RestartService, RestartPanel
<1>10. ASSUME NEW s \in Servers, ManualCheck(s) PROVE CertInv'
  BY <1>1, <1>10, ManualCheckTypes DEF ManualCheck
<1>11. ASSUME NEW s \in Servers, HandlerReads(s) \/ Maintain(s) PROVE CertInv'
  BY <1>1, <1>11 DEF HandlerReads, Maintain, OutagesTypeOK
<1>17. ASSUME NEW s \in Servers, HandlerSaves(s) \/ ImportServer(s) PROVE CertInv'
  BY <1>17, CertReplaced
<1>12. ASSUME NEW s \in Servers, Renew(s) PROVE CertInv'
  <2>1. /\ UNCHANGED <<now, servers, polls, held, warned, lost>>
        /\ \A u \in Servers : panelCert[u] <= panelCert'[u] /\ panelCert'[u] \in Int
    BY <1>12, DateFacts, Bounds DEF Renew, OutagesTypeOK
  <2>2. ASSUME NEW u \in Servers PROVE CertFor(u)'
    <3>1. SpentFor(u)' /\ AboutToSpend(u)'
      BY <2>1 DEF CertInv, CertFor, SpentFor, Spent, AboutToSpend, Near
    <3>2. ASSUME NEW d \in Int, d <= panelCert[u] PROVE d <= panelCert'[u]
      BY <2>1, <3>2, DateFacts
    <3>3. /\ servers[u].cert \in Int /\ (held[u] # Unheld => held[u].cert \in Int)
          /\ (polls[u].at \in Early => polls[u].row.cert \in Int)
      BY DateFacts DEF Early
    <3>4. ReadBefore(u)'
      BY <2>1, <3>2, <3>3 DEF CertInv, CertFor, ReadBefore
    <3>5. QED
      BY <3>1, <3>4 DEF CertFor
  <2>3. QED
    BY <2>2 DEF CertInv
<1>13. ASSUME NEW c \in Channels, CreateChannel(c) \/ UpdateChannel(c) \/ DeleteChannel(c)
       PROVE  CertInv'
  BY <1>1, <1>13 DEF CreateChannel, UpdateChannel, DeleteChannel
<1>14. CASE OutagesRestart
  BY <1>1, <1>14, PollIsUnderWay DEF OutagesRestart
<1>15. CASE OutagesTick
  <2>1. UNCHANGED <<servers, panelCert, polls, held, warned, lost>> /\ now' = now + 1
    BY <1>15 DEF OutagesTick, Tick
  <2>2. \A d \in CertDates : Near(d) => Near(d)'
    <3>1. now \in Int /\ CertDates \subseteq Nat /\ CertWarn \in Nat
      BY Bounds DEF OutagesTypeOK
    <3>2. QED
      BY <2>1, <3>1 DEF Near
  <2>3. QED
    BY <2>1, <2>2 DEF CertInv, CertFor, ReadBefore, SpentFor, Spent, AboutToSpend
<1>16. QED
  BY <1>2, <1>3, <1>4, <1>5, <1>6, <1>7, <1>8, <1>9, <1>10, <1>11, <1>12, <1>13, <1>14, <1>15,
     <1>17 DEF OutagesNext

-----------------------------------------------------------------------------
\* The last message on a channel agrees with the row unless the channel missed a change,
\* and a certificate is announced once, and once more at most for each loss of its date.
THEOREM ChannelsHearHolds == OutagesSpec => []ChannelsHear
<1>1. OutagesInit => AgreeInv /\ CertInv
  <2>1. OutagesInit => AgreeInv
    BY PollIsUnderWay DEF OutagesInit, AgreeInv, AgreeFor, Heard
  <2>2. ASSUME OutagesInit PROVE CertInv
    <3>1. \A s \in Servers : /\ servers[s].cert = Never /\ panelCert[s] \in Nat
                             /\ polls[s] = Resting /\ held[s] = Unheld /\ lost[s] = 0
                             /\ \A d \in CertDates : warned[s][d] = 0
      BY <2>2, Bounds DEF OutagesInit
    <3>2. QED
      BY <3>1, PollIsUnderWay
         DEF CertInv, CertFor, ReadBefore, SpentFor, Spent, AboutToSpend, At, Never, Early
  <2>3. QED
    BY <2>1, <2>2
<1>2. AgreeInv /\ CertInv /\ UNCHANGED outageVars => AgreeInv' /\ CertInv'
  <2>1. ASSUME UNCHANGED outageVars
        PROVE  UNCHANGED <<servers, panelCert, polls, held, told, unsaid, warned, lost, now>>
    BY <2>1 DEF outageVars
  <2>2. QED
    BY <2>1 DEF AgreeInv, AgreeFor, AgreeOn, Heard, Before, CertInv, CertFor, ReadBefore,
                SpentFor, Spent, AboutToSpend, At, SameHealth, Healthy, KnownBad, Near
<1>3. OutagesTypeOK /\ AgreeInv => MessagesAgree
  BY PollIsUnderWay DEF AgreeInv, AgreeFor, AgreeOn, Heard, Before, At, MessagesAgree
<1>4. OutagesTypeOK /\ CertInv => CertAnnouncedOnce
  BY DEF CertInv, CertFor, SpentFor, CertAnnouncedOnce
<1>5. OutagesTypeOK /\ AgreeInv /\ CertInv => ChannelsHear
  BY <1>3, <1>4 DEF ChannelsHear
<1>6. QED
  BY <1>1, <1>2, <1>5, AgreeStep, CertStep, OutagesTypeCorrect, PTL DEF OutagesSpec
=============================================================================
