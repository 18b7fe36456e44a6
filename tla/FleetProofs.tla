----------------------------- MODULE FleetProofs -----------------------------
(***************************************************************************)
(* Type correctness and the safety invariants of Fleet, for every set of   *)
(* servers, secrets and handlers and every bound.                          *)
(***************************************************************************)
EXTENDS Fleet, TLAPS

\* Fleet's operators start as one request and end as one: what the type
\* invariant needs to know of a handler's record.
LEMMA RequestType ==
    ASSUME TypeOK, NEW r \in Requests, req[r].at # "none"
    PROVE  req[r] \in Request
BY DEF TypeOK, NoRequest

LEMMA JobType ==
    ASSUME TypeOK, NEW s \in Servers, job[s].at # "none"
    PROVE  job[s] \in Job
BY DEF TypeOK, NoJob

\* A handler that takes a step holds a request.
LEMMA HandleBusy ==
    ASSUME TypeOK, NEW r \in Requests, Handle(r)
    PROVE  /\ req[r] \in Request
           /\ req[r] # NoRequest
           /\ req[r].srv \in Servers
           /\ req[r].row \in Row
<1>1. req[r] \in Request
  <2>1. req[r].at # "none"
    BY DEF Handle, SaveEdit, SaveStatus, Delete, SaveImport, Insert, CheckUndecryptable,
       CheckProbe, CheckStore, CheckSaveVersion, SaveCapabilities
  <2>2. QED
    BY <2>1, RequestType
<1>2. req[r].at \in Phase
  BY <1>1 DEF Request
<1>3. req[r] # NoRequest
  <2>1. NoRequest.at = "none"
    BY DEF NoRequest
  <2>2. QED
    BY <1>2, <2>1 DEF Phase
<1>4. QED
  BY <1>1, <1>3 DEF Request

LEMMA StatusFromCheckType ==
    ASSUME TypeOK, NEW s \in Servers, NEW k
    PROVE  /\ StatusFromCheck(s, k).status \in {"active", "unreachable"}
           /\ StatusFromCheck(s, k).cred \in CredentialStatus
           /\ StatusFromCheck(s, k).status = "unreachable" => StatusFromCheck(s, k).cred # "valid"
BY DEF StatusFromCheck, CredentialStatus

LEMMA TypeInit == Init => TypeOK
BY FleetAssumption DEF Init, TypeOK, Row, NoRow, Panel, ServerStatus, CredentialStatus, NoJob, NoRequest

LEMMA TypeStart ==
    ASSUME TypeOK, NEW r \in Requests, NEW s \in Servers, NEW phase \in Phase, NEW row \in Row,
           Start(r, s, phase, row)
    PROVE  req' \in [Requests -> Request \cup {NoRequest}] /\ ops' \in 0..MaxOps
BY FleetAssumption DEF TypeOK, Start, Request

LEMMA TypeNext == TypeOK /\ [Next]_vars => TypeOK'
<1> SUFFICES ASSUME TypeOK, [Next]_vars PROVE TypeOK'
  OBVIOUS
<1> USE FleetAssumption
<1>1. ASSUME NEW r \in Requests, NEW s \in Servers, Arrive(r, s) PROVE TypeOK'
  <2>1. rows[s] \in Row
    BY DEF TypeOK
  <2>2. CASE UpdateServer(r, s)
    <3>1. PICK row \in Row : Start(r, s, "edit", row)
      BY <2>1, <2>2 DEF UpdateServer, Row, CredentialStatus
    <3>2. QED
      BY <2>2, <3>1, TypeStart DEF UpdateServer, TypeOK, Phase
  <2>3. CASE SetStatus(r, s)
    <3>1. PICK row \in Row : Start(r, s, "status", row)
      BY <2>1, <2>3 DEF SetStatus, Row, ServerStatus
    <3>2. QED
      BY <2>3, <3>1, TypeStart DEF SetStatus, TypeOK, Phase
  <2>4. CASE Remove(r, s)
    BY <2>1, <2>4, TypeStart DEF Remove, TypeOK, Phase
  <2>5. CASE CheckHealth(r, s)
    BY <2>1, <2>5, TypeStart DEF CheckHealth, TypeOK, Phase
  <2>6. CASE ActCapabilities(r, s)
    BY <2>1, <2>6, TypeStart DEF ActCapabilities, TypeOK, Phase
  <2>7. CASE ImportServer(r, s)
    <3>1. PICK row \in Row, phase \in Phase : Start(r, s, phase, row)
      BY <2>1, <2>7 DEF ImportServer, ImportedRow, Row, ServerStatus, CredentialStatus, Phase
    <3>2. QED
      BY <2>7, <3>1, TypeStart DEF ImportServer, TypeOK
  <2>8. CASE Create(r, s)
    <3>1. panel[s].token \in Secrets
      BY DEF TypeOK, Panel
    <3>2. [status |-> "active", cred |-> "valid", secret |-> panel[s].token] \in Row
      BY <3>1 DEF Row, ServerStatus, CredentialStatus
    <3>3. QED
      BY <2>8, <3>2, TypeStart DEF Create, TypeOK, Phase
  <2>9. QED
    BY <1>1, <2>2, <2>3, <2>4, <2>5, <2>6, <2>7, <2>8 DEF Arrive
<1>2. ASSUME NEW r \in Requests, Handle(r) PROVE TypeOK'
  <2>1. req[r] \in Request
    BY <1>2, HandleBusy
  <2>2. /\ req[r].srv \in Servers /\ req[r].row \in Row
        /\ req[r].row.secret \in Secrets \cup {NoSecret, Foreign}
    BY <2>1 DEF Request, Row
  <2>3. CASE SaveEdit(r)
    BY <2>2, <2>3 DEF SaveEdit, Update, Acknowledge, Finish, TypeOK
  <2>4. CASE SaveStatus(r)
    BY <2>2, <2>4 DEF SaveStatus, Update, Acknowledge, Finish, TypeOK
  <2>5. CASE Delete(r)
    <3>1. NoRow \in Row
      BY DEF NoRow, Row, CredentialStatus
    <3>2. QED
      BY <2>2, <2>5, <3>1 DEF Delete, Acknowledge, Finish, TypeOK
  <2>6. CASE SaveImport(r)
    BY <2>2, <2>6 DEF SaveImport, Update, Acknowledge, Finish, TypeOK
  <2>7. CASE Insert(r)
    BY <2>2, <2>7 DEF Insert, Update, Acknowledge, Finish, TypeOK
  <2>8. CASE CheckUndecryptable(r)
    BY <2>2, <2>8 DEF CheckUndecryptable, UpdateStatus, Finish, TypeOK, Row, CredentialStatus
  <2>9. CASE CheckProbe(r)
    <3>1. CASE Finish(r)
      BY <2>9, <3>1 DEF CheckProbe, Finish, TypeOK
    <3>2. CASE Continue(r, "answer",
                 [req[r].row EXCEPT !.status = StatusFromCheck(req[r].srv, req[r].row.secret).status,
                                    !.cred = StatusFromCheck(req[r].srv, req[r].row.secret).cred])
      <4> DEFINE row == [req[r].row EXCEPT
                           !.status = StatusFromCheck(req[r].srv, req[r].row.secret).status,
                           !.cred = StatusFromCheck(req[r].srv, req[r].row.secret).cred]
      <4>1. row \in Row
        BY <2>2, StatusFromCheckType DEF Row, ServerStatus
      <4> HIDE DEF row
      <4>2. Continue(r, "answer", row)
        BY <3>2 DEF row
      <4>3. QED
        BY <2>2, <2>9, <4>1, <4>2 DEF CheckProbe, Continue, TypeOK, Request, Phase
    <3>3. QED
      BY <2>9, <3>1, <3>2 DEF CheckProbe
  <2>10. CASE CheckStore(r)
    BY <2>2, <2>10 DEF CheckStore, UpdateStatus, Continue, TypeOK, Row, Request, Phase
  <2>11. CASE CheckSaveVersion(r)
    <3>1. rows' \in [Servers -> Row]
      BY <2>2, <2>11 DEF CheckSaveVersion, Update, TypeOK
    <3>2. req' \in [Requests -> Request \cup {NoRequest}]
      <4>1. \/ Continue(r, "capabilities", req[r].row)
            \/ Finish(r)
        BY <2>11 DEF CheckSaveVersion
      <4>2. CASE Continue(r, "capabilities", req[r].row)
        BY <2>2, <4>2 DEF Continue, TypeOK, Request, Phase
      <4>3. CASE Finish(r)
        BY <4>3 DEF Finish, TypeOK
      <4>4. QED
        BY <4>1, <4>2, <4>3
    <3>3. QED
      BY <2>11, <3>1, <3>2 DEF CheckSaveVersion, TypeOK
  <2>12. CASE SaveCapabilities(r)
    BY <2>2, <2>12 DEF SaveCapabilities, Update, Finish, TypeOK
  <2>13. QED
    BY <1>2, <2>3, <2>4, <2>5, <2>6, <2>7, <2>8, <2>9, <2>10, <2>11, <2>12 DEF Handle
<1>3. CASE PollOnce
  BY <1>3 DEF PollOnce, TypeOK, Job
<1>4. ASSUME NEW s \in Servers, Poll(s) PROVE TypeOK'
  <2>1. job[s] \in Job
    BY <1>4, JobType DEF Poll, PollProbe, PollStore, NoJob
  <2>2. job[s].row \in Row
    BY <2>1 DEF Job
  <2>3. CASE PollProbe(s)
    <3>1. /\ Outcome(s, job[s].row).status \in ServerStatus \cup {"absent"}
          /\ Outcome(s, job[s].row).cred \in CredentialStatus
      BY <2>2, StatusFromCheckType DEF Outcome, Row, ServerStatus, CredentialStatus
    <3>2. QED
      BY <2>2, <2>3, <3>1 DEF PollProbe, TypeOK, Job, Row
  <2>4. CASE PollStore(s)
    BY <2>2, <2>4 DEF PollStore, UpdateStatus, TypeOK, Row
  <2>5. QED
    BY <1>4, <2>3, <2>4 DEF Poll
<1>5. ASSUME NEW s \in Servers, PanelChange(s) PROVE TypeOK'
  BY <1>5 DEF PanelChange, TypeOK
<1>6. CASE Restart
  BY <1>6 DEF Restart, TypeOK
<1>7. CASE UNCHANGED vars
  BY <1>7 DEF vars, TypeOK
<1>8. QED
  BY <1>1, <1>2, <1>3, <1>4, <1>5, <1>6, <1>7 DEF Next

\* Every variable of Fleet keeps its type.
THEOREM TypeCorrect == Spec => []TypeOK
<1>1. Init => TypeOK
  BY TypeInit
<1>2. QED
  BY <1>1, TypeNext, PTL DEF Spec

-----------------------------------------------------------------------------
(* Status and credential are written in pairs                               *)

LEMMA HealthNext == TypeOK /\ HealthInv /\ [Next]_vars => HealthInv'
<1> SUFFICES ASSUME TypeOK, HealthInv, [Next]_vars PROVE HealthInv'
  OBVIOUS
<1> USE DEF HealthInv
<1>1. ASSUME NEW r \in Requests, NEW s \in Servers, Arrive(r, s) PROVE HealthInv'
  <2>1. PICK phase, row : Start(r, s, phase, row) /\ Paired(row)
    <3>1. Paired(rows[s]) /\ rows[s] \in Row
      BY DEF TypeOK
    <3>2. CASE UpdateServer(r, s)
      <4>1. ASSUME NEW k \in Secrets
            PROVE  Paired([rows[s] EXCEPT !.secret = k, !.cred = "unknown"])
        BY <3>1 DEF Paired, Row
      <4>2. QED
        BY <3>1, <3>2, <4>1 DEF UpdateServer
    <3>3. CASE SetStatus(r, s)
      BY <3>1, <3>3 DEF SetStatus, Paired, Row
    <3>4. CASE Remove(r, s) \/ CheckHealth(r, s) \/ ActCapabilities(r, s)
      BY <3>1, <3>4 DEF Remove, CheckHealth, ActCapabilities
    <3>5. CASE ImportServer(r, s)
      <4>1. ASSUME NEW given, NEW st \in {"active", "disabled"}, NEW cr
            PROVE  Paired(ImportedRow(s, given, st, cr))
        BY DEF ImportedRow, Paired
      <4>2. QED
        BY <3>5, <4>1 DEF ImportServer
    <3>6. CASE Create(r, s)
      BY <3>6 DEF Create, Paired
    <3>7. QED
      BY <1>1, <3>2, <3>3, <3>4, <3>5, <3>6 DEF Arrive
  <2>2. rows' = rows /\ job' = job
    BY <1>1 DEF Arrive, UpdateServer, SetStatus, Remove, CheckHealth, ActCapabilities,
       ImportServer, Create
  <2>3. req' = [req EXCEPT ![r] = [at |-> phase, srv |-> s, row |-> row]]
    BY <2>1 DEF Start
  <2>4. QED
    BY <2>1, <2>2, <2>3 DEF TypeOK, Paired
<1>2. ASSUME NEW r \in Requests, Handle(r) PROVE HealthInv'
  <2>1. req[r] \in Request /\ req[r] # NoRequest
    BY <1>2, HandleBusy
  <2>2. req[r].srv \in Servers /\ req[r].row \in Row /\ Paired(req[r].row)
    BY <2>1 DEF Request
  <2>3. job' = job
    BY <1>2 DEF Handle, SaveEdit, SaveStatus, Delete, SaveImport, Insert, CheckUndecryptable,
       CheckProbe, CheckStore, CheckSaveVersion, SaveCapabilities
  <2>4. ASSUME NEW s \in Servers PROVE Paired(rows[s])'
    <3>1. CASE rows' = rows
      BY <3>1 DEF Paired
    <3>2. CASE Update(req[r].srv, req[r].row)
      BY <2>2, <3>2 DEF Update, Paired, TypeOK
    <3>3. CASE Delete(r)
      BY <2>2, <3>3 DEF Delete, NoRow, Paired, TypeOK
    <3>4. CASE CheckUndecryptable(r)
      BY <2>2, <3>4 DEF CheckUndecryptable, UpdateStatus, Paired, TypeOK, Row
    <3>5. CASE CheckStore(r)
      BY <2>2, <3>5 DEF CheckStore, UpdateStatus, Paired, TypeOK, Row
    <3>6. QED
      BY <1>2, <3>1, <3>2, <3>3, <3>4, <3>5 DEF Handle, SaveEdit, SaveStatus, SaveImport, Insert,
         CheckProbe, CheckSaveVersion, SaveCapabilities
  <2>5. \/ req' = [req EXCEPT ![r] = NoRequest]
        \/ \E phase, row : /\ Paired(row)
                           /\ req' = [req EXCEPT ![r] = [at |-> phase, srv |-> req[r].srv, row |-> row]]
    <3>1. CASE CheckProbe(r)
      <4>1. CASE Finish(r)
        BY <4>1 DEF Finish
      <4>2. CASE ~Finish(r)
        <5> DEFINE seen == StatusFromCheck(req[r].srv, req[r].row.secret)
                   row  == [req[r].row EXCEPT !.status = seen.status, !.cred = seen.cred]
        <5>1. Continue(r, "answer", row)
          BY <3>1, <4>2 DEF CheckProbe
        <5>2. row.status = seen.status /\ row.cred = seen.cred
          BY <2>2 DEF Row
        <5>3. seen.status = "unreachable" => seen.cred # "valid"
          BY <2>2, StatusFromCheckType
        <5> HIDE DEF row, seen
        <5>4. Paired(row)
          BY <5>2, <5>3 DEF Paired
        <5>5. QED
          BY <5>1, <5>4 DEF Continue
      <4>3. QED
        BY <4>1, <4>2
    <3>2. CASE CheckStore(r)
      BY <2>2, <3>2 DEF CheckStore, Continue
    <3>3. CASE CheckSaveVersion(r)
      BY <2>2, <3>3 DEF CheckSaveVersion, Continue, Finish
    <3>4. CASE \/ SaveEdit(r) \/ SaveStatus(r) \/ Delete(r) \/ SaveImport(r) \/ Insert(r)
               \/ CheckUndecryptable(r) \/ SaveCapabilities(r)
      BY <3>4 DEF SaveEdit, SaveStatus, Delete, SaveImport, Insert, CheckUndecryptable,
         SaveCapabilities, Finish
    <3>5. QED
      BY <1>2, <3>1, <3>2, <3>3, <3>4 DEF Handle
  <2>6. ASSUME NEW q \in Requests, req'[q] # NoRequest PROVE Paired(req[q].row)'
    BY <2>5, <2>6 DEF TypeOK, Paired
  <2>7. QED
    BY <2>3, <2>4, <2>6 DEF Paired
<1>3. CASE PollOnce
  BY <1>3 DEF PollOnce, Paired, NoJob
<1>4. ASSUME NEW s \in Servers, Poll(s) PROVE HealthInv'
  <2>1. job[s] \in Job /\ job[s] # NoJob
    BY <1>4, JobType DEF Poll, PollProbe, PollStore, NoJob
  <2>2. job[s].row \in Row /\ Paired(job[s].row)
    BY <2>1 DEF Job
  <2>3. CASE PollProbe(s)
    <3> DEFINE seen == Outcome(s, job[s].row)
               row  == [job[s].row EXCEPT !.status = seen.status, !.cred = seen.cred]
    <3>1. job' = [job EXCEPT ![s] = [at |-> "store", row |-> row]]
      BY <2>3 DEF PollProbe
    <3>2. row.status = seen.status /\ row.cred = seen.cred
      BY <2>2 DEF Row
    <3>3. seen.status = "unreachable" => seen.cred # "valid"
      BY <2>2, StatusFromCheckType DEF Outcome
    <3> HIDE DEF row, seen
    <3>4. Paired(row)
      BY <3>2, <3>3 DEF Paired
    <3>5. rows' = rows /\ req' = req
      BY <2>3 DEF PollProbe
    <3>6. QED
      BY <3>1, <3>4, <3>5 DEF TypeOK, Paired
  <2>4. CASE PollStore(s)
    <3>1. \A q \in Servers : Paired(rows'[q])
      BY <2>2, <2>4 DEF PollStore, UpdateStatus, Paired, TypeOK, Row
    <3>2. job' = [job EXCEPT ![s] = NoJob] /\ req' = req
      BY <2>4 DEF PollStore
    <3>3. QED
      BY <3>1, <3>2 DEF TypeOK, Paired
  <2>5. QED
    BY <1>4, <2>3, <2>4 DEF Poll
<1>5. ASSUME NEW s \in Servers, PanelChange(s) PROVE HealthInv'
  BY <1>5 DEF PanelChange, Paired
<1>6. CASE Restart
  BY <1>6 DEF Restart, Paired
<1>7. CASE UNCHANGED vars
  BY <1>7 DEF vars, Paired
<1>8. QED
  BY <1>1, <1>2, <1>3, <1>4, <1>5, <1>6, <1>7 DEF Next

\* An unreachable server never shows a valid credential, whatever handlers and
\* passes overlap.
THEOREM UnreachableNeverValidHolds == Spec => []UnreachableNeverValid
<1>1. Init => HealthInv
  BY DEF Init, HealthInv, Paired, NoRow, NoJob, NoRequest
<1>2. HealthInv => UnreachableNeverValid
  BY DEF HealthInv, Paired, UnreachableNeverValid
<1>3. QED
  BY <1>1, <1>2, TypeCorrect, HealthNext, PTL DEF Spec

-----------------------------------------------------------------------------
(* Acknowledged secrets, pauses and removals stand                          *)

\* What an arriving request does: it holds a row of a server, as the table has
\* it or as the operator wants it, and nothing else changes but the history.
LEMMA ArriveEffect ==
    ASSUME TypeOK, NEW r \in Requests, NEW s \in Servers, Arrive(r, s)
    PROVE  /\ rows' = rows /\ job' = job /\ vault' = vault
           /\ settled' = settled \/ settled' = [settled EXCEPT ![s] = "open"]
           /\ \E phase, row :
                /\ req' = [req EXCEPT ![r] = [at |-> phase, srv |-> s, row |-> row]]
                /\ \/ phase \in {"status", "delete"} /\ Exists(s)
                   \/ phase = "edit" /\ Exists(s) /\ row.status = rows[s].status
                   \/ phase = "capabilities" /\ Exists(s) /\ row = rows[s]
                   \/ phase = "probe" /\ row = rows[s] /\ settled'[s] = "open"
                   \/ phase \in {"import update", "import create", "enrol"} /\ settled'[s] = "open"
<1>1. rows[s] \in Row /\ settled[s] \in {"open", "disabled", "absent"}
  BY DEF TypeOK
<1>2. CASE UpdateServer(r, s)
  <2>1. \A k \in Secrets : [rows[s] EXCEPT !.secret = k, !.cred = "unknown"].status = rows[s].status
    BY <1>1 DEF Row
  <2>2. PICK row : Start(r, s, "edit", row) /\ row.status = rows[s].status
    BY <1>2, <2>1 DEF UpdateServer
  <2>3. QED
    BY <1>2, <2>2 DEF UpdateServer, Start
<1>3. CASE SetStatus(r, s)
  <2>1. PICK row : Start(r, s, "status", row)
    BY <1>3 DEF SetStatus
  <2>2. QED
    BY <1>3, <2>1 DEF SetStatus, Start
<1>4. CASE Remove(r, s)
  BY <1>4 DEF Remove, Start
<1>5. CASE CheckHealth(r, s)
  <2>1. settled'[s] = "open"
    BY <1>5 DEF CheckHealth, TypeOK
  <2>2. QED
    BY <1>5, <2>1 DEF CheckHealth, Start
<1>6. CASE ActCapabilities(r, s)
  BY <1>6 DEF ActCapabilities, Start
<1>7. CASE ImportServer(r, s)
  <2>1. PICK given, st, cr :
          Start(r, s, IF Exists(s) THEN "import update" ELSE "import create",
                ImportedRow(s, given, st, cr))
    BY <1>7 DEF ImportServer
  <2>2. settled'[s] = "open"
    BY <1>7 DEF ImportServer, TypeOK
  <2>3. QED
    BY <1>7, <2>1, <2>2 DEF ImportServer, Start
<1>8. CASE Create(r, s)
  <2>1. settled'[s] = "open"
    BY <1>8 DEF Create, TypeOK
  <2>2. QED
    BY <1>8, <2>1 DEF Create, Start
<1>9. QED
  BY <1>2, <1>3, <1>4, <1>5, <1>6, <1>7, <1>8 DEF Arrive

\* What a handler's next step does to the requests: it ends, or goes on
\* refreshing the same server with the same secret.
LEMMA HandleRequest ==
    ASSUME TypeOK, NEW r \in Requests, Handle(r)
    PROVE  /\ \A q \in Requests \ {r} : req'[q] = req[q]
           /\ \/ req'[r] = NoRequest
              \/ /\ Refreshing(r)
                 /\ req[r].at # "capabilities"
                 /\ req'[r].srv = req[r].srv
                 /\ req'[r].row.secret = req[r].row.secret
<1>1. req[r].row \in Row
  BY HandleBusy
<1>2. CASE CheckProbe(r)
  <2>1. CASE Finish(r)
    BY <2>1 DEF Finish, TypeOK
  <2>2. CASE ~Finish(r)
    <3> DEFINE row == [req[r].row EXCEPT
                         !.status = StatusFromCheck(req[r].srv, req[r].row.secret).status,
                         !.cred = StatusFromCheck(req[r].srv, req[r].row.secret).cred]
    <3>1. Continue(r, "answer", row)
      BY <1>2, <2>2 DEF CheckProbe
    <3>2. row.secret = req[r].row.secret
      BY <1>1 DEF Row
    <3> HIDE DEF row
    <3>3. QED
      BY <1>2, <3>1, <3>2 DEF CheckProbe, Continue, Refreshing, TypeOK
  <2>3. QED
    BY <2>1, <2>2
<1>3. CASE CheckStore(r)
  BY <1>3 DEF CheckStore, Continue, Refreshing, TypeOK
<1>4. CASE CheckSaveVersion(r)
  <2>1. Continue(r, "capabilities", req[r].row) \/ Finish(r)
    BY <1>4 DEF CheckSaveVersion
  <2>2. req[r].at = "version"
    BY <1>4 DEF CheckSaveVersion
  <2>3. CASE Continue(r, "capabilities", req[r].row)
    BY <2>2, <2>3 DEF Continue, Refreshing, TypeOK
  <2>4. CASE Finish(r)
    BY <2>4 DEF Finish, TypeOK
  <2>5. QED
    BY <2>1, <2>3, <2>4
<1>5. CASE \/ SaveEdit(r) \/ SaveStatus(r) \/ Delete(r) \/ SaveImport(r) \/ Insert(r)
           \/ CheckUndecryptable(r) \/ SaveCapabilities(r)
  <2>1. Finish(r)
    BY <1>5 DEF SaveEdit, SaveStatus, Delete, SaveImport, Insert, CheckUndecryptable,
       SaveCapabilities
  <2>2. QED
    BY <2>1 DEF Finish, TypeOK
<1>6. QED
  BY <1>2, <1>3, <1>4, <1>5 DEF Handle

\* What it does to the tables: an operator's write stores a row and says which
\* secret it acknowledged, a refresh leaves the secret of the row alone or
\* stores the one it read.
LEMMA HandleWrite ==
    ASSUME TypeOK, NEW r \in Requests, Handle(r)
    PROVE  \/ \E row \in Row : /\ rows' = [rows EXCEPT ![req[r].srv] = row]
                              /\ Acknowledge(r, req[r].srv, row.secret)
                              /\ Finish(r)
           \/ vault' = vault /\ rows' = rows
           \/ vault' = vault /\ \A s \in Servers : rows'[s].secret = rows[s].secret
           \/ vault' = vault /\ Refreshing(r) /\ rows' = [rows EXCEPT ![req[r].srv] = req[r].row]
<1>1. req[r].row \in Row /\ req[r].srv \in Servers
  BY HandleBusy
<1>2. CASE SaveEdit(r) \/ SaveStatus(r) \/ SaveImport(r)
  BY <1>1, <1>2 DEF SaveEdit, SaveStatus, SaveImport, Update
<1>3. CASE Delete(r)
  <2>1. NoRow \in Row /\ NoRow.secret = NoSecret
    BY DEF NoRow, Row, CredentialStatus
  <2>2. QED
    BY <1>3, <2>1 DEF Delete
<1>4. CASE Insert(r)
  BY <1>1, <1>4 DEF Insert, Update
<1>5. CASE CheckUndecryptable(r)
  BY <1>1, <1>5 DEF CheckUndecryptable, UpdateStatus, TypeOK, Row
<1>6. CASE CheckProbe(r)
  BY <1>6 DEF CheckProbe
<1>7. CASE CheckStore(r)
  BY <1>1, <1>7 DEF CheckStore, UpdateStatus, TypeOK, Row
<1>8. CASE CheckSaveVersion(r)
  BY <1>1, <1>8 DEF CheckSaveVersion, Update, Refreshing
<1>9. CASE SaveCapabilities(r)
  BY <1>1, <1>9 DEF SaveCapabilities, Update, Refreshing
<1>10. QED
  BY <1>2, <1>3, <1>4, <1>5, <1>6, <1>7, <1>8, <1>9 DEF Handle

LEMMA SecretNext == TypeOK /\ SecretInv /\ [Next]_vars => SecretInv'
<1> SUFFICES ASSUME TypeOK, SecretInv, [Next]_vars PROVE SecretInv'
  OBVIOUS
<1> SUFFICES ASSUME NEW t \in Servers, vault'[t] # Unknown
             PROVE  /\ rows'[t].secret = vault'[t]
                    /\ \A q \in Requests : Refreshing(q)' /\ req'[q].srv = t =>
                          req'[q].row.secret = vault'[t]
  BY DEF SecretInv
<1>0. vault[t] # Unknown =>
        /\ rows[t].secret = vault[t]
        /\ \A q \in Requests : Refreshing(q) /\ req[q].srv = t => req[q].row.secret = vault[t]
  BY DEF SecretInv
<1>1. ASSUME NEW r \in Requests, NEW s \in Servers, Arrive(r, s)
      PROVE  /\ rows'[t].secret = vault'[t]
             /\ \A q \in Requests : Refreshing(q)' /\ req'[q].srv = t =>
                   req'[q].row.secret = vault'[t]
  <2>1. rows' = rows /\ vault' = vault
    BY <1>1, ArriveEffect
  <2>2. PICK phase, row :
          /\ req' = [req EXCEPT ![r] = [at |-> phase, srv |-> s, row |-> row]]
          /\ \/ phase \in {"status", "delete"} /\ Exists(s)
             \/ phase = "edit" /\ Exists(s) /\ row.status = rows[s].status
             \/ phase = "capabilities" /\ Exists(s) /\ row = rows[s]
             \/ phase = "probe" /\ row = rows[s] /\ settled'[s] = "open"
             \/ phase \in {"import update", "import create", "enrol"} /\ settled'[s] = "open"
    BY <1>1, ArriveEffect
  <2>3. ASSUME NEW q \in Requests, Refreshing(q)', req'[q].srv = t
        PROVE  req'[q].row.secret = vault'[t]
    <3>1. CASE q = r
      <4>1. req'[q] = [at |-> phase, srv |-> s, row |-> row]
        BY <2>2, <3>1 DEF TypeOK
      <4>2. phase \in {"probe", "answer", "version", "capabilities"} /\ s = t
        BY <2>3, <3>1, <4>1 DEF Refreshing
      <4>3. row = rows[s]
        BY <2>2, <4>2
      <4>4. QED
        BY <1>0, <2>1, <4>1, <4>2, <4>3
    <3>2. CASE q # r
      <4>1. req'[q] = req[q]
        BY <2>2, <3>2 DEF TypeOK
      <4>2. QED
        BY <1>0, <2>1, <2>3, <4>1 DEF Refreshing
    <3>3. QED
      BY <3>1, <3>2
  <2>4. QED
    BY <1>0, <2>1, <2>3
<1>2. ASSUME NEW r \in Requests, Handle(r)
      PROVE  /\ rows'[t].secret = vault'[t]
             /\ \A q \in Requests : Refreshing(q)' /\ req'[q].srv = t =>
                   req'[q].row.secret = vault'[t]
  <2>1. /\ \A q \in Requests \ {r} : req'[q] = req[q]
        /\ \/ req'[r] = NoRequest
           \/ /\ Refreshing(r)
              /\ req'[r].srv = req[r].srv
              /\ req'[r].row.secret = req[r].row.secret
    BY <1>2, HandleRequest
  <2>2. req[r].srv \in Servers /\ req[r].row \in Row
    BY <1>2, HandleBusy
  <2>3. ASSUME vault' = vault
        PROVE  \A q \in Requests : Refreshing(q)' /\ req'[q].srv = t =>
                   req'[q].row.secret = vault'[t]
    BY <1>0, <2>1, <2>3 DEF Refreshing, NoRequest
  <2>4. CASE \E row \in Row : /\ rows' = [rows EXCEPT ![req[r].srv] = row]
                              /\ Acknowledge(r, req[r].srv, row.secret)
                              /\ Finish(r)
    <3>1. PICK row \in Row : /\ rows' = [rows EXCEPT ![req[r].srv] = row]
                             /\ Acknowledge(r, req[r].srv, row.secret)
                             /\ Finish(r)
      BY <2>4
    <3>2. req'[r] = NoRequest
      BY <3>1 DEF Finish, TypeOK
    <3>3. CASE t = req[r].srv
      <4>1. Alone(r, t) /\ vault'[t] = row.secret /\ rows'[t] = row
        BY <2>2, <3>1, <3>3 DEF Acknowledge, TypeOK
      <4>2. \A q \in Requests : Refreshing(q)' => req'[q].srv # t
        BY <2>1, <3>2, <4>1 DEF Alone, Refreshing, NoRequest
      <4>3. QED
        BY <4>1, <4>2
    <3>4. CASE t # req[r].srv
      <4>1. vault'[t] = vault[t] /\ rows'[t] = rows[t]
        BY <2>2, <3>1, <3>4 DEF Acknowledge, TypeOK
      <4>2. QED
        BY <1>0, <2>1, <3>2, <4>1 DEF Refreshing, NoRequest
    <3>5. QED
      BY <3>3, <3>4
  <2>5. CASE vault' = vault /\ rows' = rows
    BY <1>0, <2>3, <2>5
  <2>6. CASE vault' = vault /\ \A s \in Servers : rows'[s].secret = rows[s].secret
    BY <1>0, <2>3, <2>6
  <2>7. CASE vault' = vault /\ Refreshing(r) /\ rows' = [rows EXCEPT ![req[r].srv] = req[r].row]
    BY <1>0, <2>2, <2>3, <2>7 DEF TypeOK
  <2>8. QED
    BY <1>2, <2>4, <2>5, <2>6, <2>7, HandleWrite
<1>3. CASE PollOnce
  BY <1>0, <1>3 DEF PollOnce, Refreshing
<1>4. ASSUME NEW s \in Servers, Poll(s)
      PROVE  /\ rows'[t].secret = vault'[t]
             /\ \A q \in Requests : Refreshing(q)' /\ req'[q].srv = t =>
                   req'[q].row.secret = vault'[t]
  <2>1. vault' = vault /\ req' = req
    BY <1>4 DEF Poll, PollProbe, PollStore
  <2>2. rows'[t].secret = rows[t].secret
    BY <1>4 DEF Poll, PollProbe, PollStore, UpdateStatus, TypeOK, Row
  <2>3. QED
    BY <1>0, <2>1, <2>2 DEF Refreshing
<1>5. ASSUME NEW s \in Servers, PanelChange(s)
      PROVE  /\ rows'[t].secret = vault'[t]
             /\ \A q \in Requests : Refreshing(q)' /\ req'[q].srv = t =>
                   req'[q].row.secret = vault'[t]
  BY <1>0, <1>5 DEF PanelChange, Refreshing
<1>6. CASE Restart
  BY <1>0, <1>6 DEF Restart, Refreshing, NoRequest
<1>7. CASE UNCHANGED vars
  BY <1>0, <1>7 DEF vars, Refreshing
<1>8. QED
  BY <1>1, <1>2, <1>3, <1>4, <1>5, <1>6, <1>7 DEF Next

\* No poll, health check or capabilities refresh ever brings back an older
\* secret than the one an operator stored undisturbed.
THEOREM SecretStandsHolds == Spec => []SecretStands
<1>1. Init => SecretInv
  BY DEF Init, SecretInv, Refreshing, NoRequest
<1>2. SecretInv => SecretStands
  BY DEF SecretInv, SecretStands
<1>3. QED
  BY <1>1, <1>2, TypeCorrect, SecretNext, PTL DEF Spec

-----------------------------------------------------------------------------
(* Settled pauses and removals                                              *)

\* A handler's step leaves the other servers alone, and the goroutines.
LEMMA HandleLocal ==
    ASSUME TypeOK, NEW r \in Requests, Handle(r)
    PROVE  /\ job' = job
           /\ \A s \in Servers : s # req[r].srv => rows'[s] = rows[s] /\ settled'[s] = settled[s]
           /\ SaveStatus(r) \/ Delete(r) \/ settled' = settled
<1>1. /\ req[r].srv \in Servers
      /\ rows \in [Servers -> Row] /\ settled \in [Servers -> {"open", "disabled", "absent"}]
  BY HandleBusy DEF TypeOK
<1>2. CASE SaveStatus(r) \/ Delete(r)
  BY <1>1, <1>2 DEF SaveStatus, Delete, Update
<1>3. CASE SaveEdit(r) \/ SaveImport(r) \/ Insert(r)
  BY <1>1, <1>3 DEF SaveEdit, SaveImport, Insert, Update
<1>4. CASE CheckUndecryptable(r) \/ CheckStore(r)
  BY <1>1, <1>4 DEF CheckUndecryptable, CheckStore, UpdateStatus
<1>5. CASE CheckProbe(r) \/ CheckSaveVersion(r) \/ SaveCapabilities(r)
  BY <1>1, <1>5 DEF CheckProbe, CheckSaveVersion, SaveCapabilities, Update
<1>6. QED
  BY <1>2, <1>3, <1>4, <1>5 DEF Handle

\* A handler that was not about server t is not about it after its step either.
LEMMA HandleElsewhere ==
    ASSUME TypeOK, NEW r \in Requests, Handle(r), NEW t \in Servers,
           NEW q \in Requests, req'[q] # NoRequest, req'[q].srv = t, t # req[r].srv
    PROVE  q # r /\ req'[q] = req[q]
BY HandleRequest

\* The history of SaveStatus and Delete, and what they leave in the row.
LEMMA Settles ==
    ASSUME TypeOK, NEW r \in Requests, Handle(r), NEW t \in Servers, t = req[r].srv
    PROVE  /\ SaveStatus(r) /\ settled'[t] # "open" =>
                /\ settled'[t] = "disabled" /\ rows'[t].status = "disabled"
                /\ Alone(r, t) /\ job[t] = NoJob /\ req'[r] = NoRequest
           /\ Delete(r) /\ settled'[t] # "open" =>
                /\ settled'[t] = "absent" /\ rows'[t].status = "absent"
                /\ Alone(r, t) /\ req'[r] = NoRequest
<1>1. /\ rows \in [Servers -> Row] /\ settled \in [Servers -> {"open", "disabled", "absent"}]
      /\ req \in [Requests -> Request \cup {NoRequest}]
  BY DEF TypeOK
<1>2. QED
  BY <1>1 DEF SaveStatus, Delete, Update, Finish, NoRow

LEMMA RemovalNext == TypeOK /\ RemovalInv /\ [Next]_vars => RemovalInv'
<1> SUFFICES ASSUME TypeOK, RemovalInv, [Next]_vars,
                    NEW t \in Servers, settled'[t] = "absent"
             PROVE  /\ rows'[t].status = "absent"
                    /\ \A q \in Requests : req'[q] = NoRequest \/ req'[q].srv # t
  BY DEF RemovalInv, Exists
<1>0. settled[t] = "absent" =>
        rows[t].status = "absent" /\ \A q \in Requests : req[q] = NoRequest \/ req[q].srv # t
  BY DEF RemovalInv, Exists
<1> DEFINE Goal == /\ rows'[t].status = "absent"
                   /\ \A q \in Requests : req'[q] = NoRequest \/ req'[q].srv # t
<1>1. ASSUME NEW r \in Requests, NEW s \in Servers, Arrive(r, s) PROVE Goal
  <2>1. /\ rows' = rows
        /\ settled' = settled \/ settled' = [settled EXCEPT ![s] = "open"]
    BY <1>1, ArriveEffect
  <2>2. PICK phase, row :
          /\ req' = [req EXCEPT ![r] = [at |-> phase, srv |-> s, row |-> row]]
          /\ \/ phase \in {"status", "delete"} /\ Exists(s)
             \/ phase = "edit" /\ Exists(s) /\ row.status = rows[s].status
             \/ phase = "capabilities" /\ Exists(s) /\ row = rows[s]
             \/ phase = "probe" /\ row = rows[s] /\ settled'[s] = "open"
             \/ phase \in {"import update", "import create", "enrol"} /\ settled'[s] = "open"
    BY <1>1, ArriveEffect
  <2>3. settled[t] = "absent"
    BY <2>1 DEF TypeOK
  <2>4. s # t
    BY <1>0, <2>2, <2>3 DEF Exists
  <2>5. QED
    BY <1>0, <2>1, <2>2, <2>3, <2>4 DEF TypeOK
<1>2. ASSUME NEW r \in Requests, Handle(r) PROVE Goal
  <2>1. req[r] # NoRequest /\ req[r].srv \in Servers
    BY <1>2, HandleBusy
  <2>2. CASE t # req[r].srv
    <3>1. settled[t] = "absent" /\ rows'[t] = rows[t]
      BY <1>2, <2>2, HandleLocal
    <3>2. \A q \in Requests : req'[q] = NoRequest \/ req'[q].srv # t
      BY <1>0, <1>2, <2>2, <3>1, HandleElsewhere
    <3>3. QED
      BY <1>0, <3>1, <3>2
  <2>3. CASE t = req[r].srv
    <3>1. settled[t] # "absent"
      BY <1>0, <2>1, <2>3
    <3>2. Delete(r) \/ SaveStatus(r)
      BY <1>2, <3>1, HandleLocal
    <3>3. rows'[t].status = "absent" /\ Alone(r, t) /\ req'[r] = NoRequest
      BY <1>2, <2>3, <3>2, Settles
    <3>4. QED
      BY <1>2, <3>3, HandleRequest DEF Alone
  <2>4. QED
    BY <2>2, <2>3
<1>3. CASE PollOnce
  BY <1>0, <1>3 DEF PollOnce
<1>4. ASSUME NEW s \in Servers, Poll(s) PROVE Goal
  <2>1. settled' = settled /\ req' = req
    BY <1>4 DEF Poll, PollProbe, PollStore
  <2>2. rows[t].status = "absent" => rows'[t].status = "absent"
    BY <1>4 DEF Poll, PollProbe, PollStore, UpdateStatus, Exists, TypeOK
  <2>3. QED
    BY <1>0, <2>1, <2>2
<1>5. ASSUME NEW s \in Servers, PanelChange(s) PROVE Goal
  BY <1>0, <1>5 DEF PanelChange
<1>6. CASE Restart
  BY <1>0, <1>6 DEF Restart
<1>7. CASE UNCHANGED vars
  BY <1>0, <1>7 DEF vars
<1>8. QED
  BY <1>1, <1>2, <1>3, <1>4, <1>5, <1>6, <1>7 DEF Next

\* A removal that no other handler overlapped is final: no pass and no handler
\* brings the row back.
THEOREM RemovalStandsHolds == Spec => []RemovalStands
<1>1. Init => RemovalInv
  BY DEF Init, RemovalInv
<1>2. RemovalInv => RemovalStands
  BY DEF RemovalInv, RemovalStands
<1>3. QED
  BY <1>1, <1>2, TypeCorrect, RemovalNext, PTL DEF Spec

LEMMA PauseNext == TypeOK /\ PauseInv /\ [Next]_vars => PauseInv'
<1> DEFINE Held(q) == \/ q.at \in {"status", "delete"}
                      \/ q.at \in {"edit", "capabilities"} /\ q.row.status = "disabled"
<1> SUFFICES ASSUME TypeOK, PauseInv, [Next]_vars,
                    NEW t \in Servers, settled'[t] = "disabled"
             PROVE  /\ rows'[t].status = "disabled" /\ job'[t] = NoJob
                    /\ \A q \in Requests : req'[q] # NoRequest /\ req'[q].srv = t => Held(req'[q])
  BY DEF PauseInv
<1> DEFINE Goal == /\ rows'[t].status = "disabled" /\ job'[t] = NoJob
                   /\ \A q \in Requests : req'[q] # NoRequest /\ req'[q].srv = t => Held(req'[q])
<1>0. settled[t] = "disabled" =>
        /\ rows[t].status = "disabled" /\ job[t] = NoJob
        /\ \A q \in Requests : req[q] # NoRequest /\ req[q].srv = t => Held(req[q])
  BY DEF PauseInv
<1>1. ASSUME NEW r \in Requests, NEW s \in Servers, Arrive(r, s) PROVE Goal
  <2>1. /\ rows' = rows /\ job' = job
        /\ settled' = settled \/ settled' = [settled EXCEPT ![s] = "open"]
    BY <1>1, ArriveEffect
  <2>2. PICK phase, row :
          /\ req' = [req EXCEPT ![r] = [at |-> phase, srv |-> s, row |-> row]]
          /\ \/ phase \in {"status", "delete"} /\ Exists(s)
             \/ phase = "edit" /\ Exists(s) /\ row.status = rows[s].status
             \/ phase = "capabilities" /\ Exists(s) /\ row = rows[s]
             \/ phase = "probe" /\ row = rows[s] /\ settled'[s] = "open"
             \/ phase \in {"import update", "import create", "enrol"} /\ settled'[s] = "open"
    BY <1>1, ArriveEffect
  <2>3. settled[t] = "disabled"
    BY <2>1 DEF TypeOK
  <2>4. ASSUME NEW q \in Requests, req'[q] # NoRequest, req'[q].srv = t PROVE Held(req'[q])
    <3>1. CASE q # r
      BY <1>0, <2>2, <2>3, <2>4, <3>1 DEF TypeOK
    <3>2. CASE q = r
      <4>1. req'[q] = [at |-> phase, srv |-> s, row |-> row]
        BY <2>2, <3>2 DEF TypeOK
      <4>2. s = t
        BY <2>4, <4>1
      <4>3. phase \in {"status", "delete"} \/ (phase \in {"edit", "capabilities"} /\ row.status = "disabled")
        BY <1>0, <2>2, <2>3, <4>2
      <4>4. QED
        BY <4>1, <4>3
    <3>3. QED
      BY <3>1, <3>2
  <2>5. QED
    BY <1>0, <2>1, <2>3, <2>4
<1>2. ASSUME NEW r \in Requests, Handle(r) PROVE Goal
  <2>1. req[r] # NoRequest /\ req[r].srv \in Servers /\ req[r].row \in Row
    BY <1>2, HandleBusy
  <2>2. CASE t # req[r].srv
    <3>1. settled[t] = "disabled" /\ rows'[t] = rows[t] /\ job' = job
      BY <1>2, <2>2, HandleLocal
    <3>2. ASSUME NEW q \in Requests, req'[q] # NoRequest, req'[q].srv = t
          PROVE  req'[q] = req[q]
      BY <1>2, <2>2, <3>2, HandleElsewhere
    <3>3. QED
      BY <1>0, <3>1, <3>2
  <2>3. CASE t = req[r].srv /\ (SaveStatus(r) \/ Delete(r))
    <3>1. rows'[t].status = "disabled" /\ Alone(r, t) /\ job[t] = NoJob /\ req'[r] = NoRequest
      BY <1>2, <2>3, Settles
    <3>2. \A q \in Requests : req'[q] = NoRequest \/ req'[q].srv # t
      BY <1>2, <3>1, HandleRequest DEF Alone
    <3>3. job' = job
      BY <1>2, HandleLocal
    <3>4. QED
      BY <3>1, <3>2, <3>3
  <2>4. CASE t = req[r].srv /\ ~SaveStatus(r) /\ ~Delete(r)
    <3>1. settled' = settled /\ job' = job
      BY <1>2, <2>4, HandleLocal
    <3>2. Held(req[r])
      BY <1>0, <2>1, <2>4, <3>1
    <3>3. SaveEdit(r) \/ SaveCapabilities(r)
      BY <1>2, <2>4, <3>2 DEF Handle, SaveImport, Insert, CheckUndecryptable, CheckProbe,
         CheckStore, CheckSaveVersion
    <3>4. req[r].row.status = "disabled"
      BY <3>2, <3>3 DEF SaveEdit, SaveCapabilities
    <3>5. rows'[t].status = "disabled"
      BY <1>0, <2>1, <2>4, <3>1, <3>3, <3>4 DEF SaveEdit, SaveCapabilities, Update, TypeOK
    <3>6. req'[r] = NoRequest /\ \A q \in Requests \ {r} : req'[q] = req[q]
      BY <3>3 DEF SaveEdit, SaveCapabilities, Finish, TypeOK
    <3>7. QED
      BY <1>0, <3>1, <3>5, <3>6
  <2>5. QED
    BY <2>2, <2>3, <2>4
<1>3. CASE PollOnce
  BY <1>0, <1>3 DEF PollOnce
<1>4. ASSUME NEW s \in Servers, Poll(s) PROVE Goal
  <2>1. settled' = settled /\ req' = req
    BY <1>4 DEF Poll, PollProbe, PollStore
  <2>2. s # t
    BY <1>0, <1>4, <2>1 DEF Poll, PollProbe, PollStore, NoJob
  <2>3. rows'[t] = rows[t] /\ job'[t] = job[t]
    BY <1>4, <2>2 DEF Poll, PollProbe, PollStore, UpdateStatus, TypeOK
  <2>4. QED
    BY <1>0, <2>1, <2>3
<1>5. ASSUME NEW s \in Servers, PanelChange(s) PROVE Goal
  BY <1>0, <1>5 DEF PanelChange
<1>6. CASE Restart
  BY <1>0, <1>6 DEF Restart
<1>7. CASE UNCHANGED vars
  BY <1>0, <1>7 DEF vars
<1>8. QED
  BY <1>1, <1>2, <1>3, <1>4, <1>5, <1>6, <1>7 DEF Next

\* A pause that neither a handler nor the pass overlapped holds until an operator
\* enables, imports or checks the server.
THEOREM PauseStandsHolds == Spec => []PauseStands
<1>1. Init => PauseInv
  BY DEF Init, PauseInv
<1>2. PauseInv => PauseStands
  BY DEF PauseInv, PauseStands
<1>3. QED
  BY <1>1, <1>2, TypeCorrect, PauseNext, PTL DEF Spec
=============================================================================
