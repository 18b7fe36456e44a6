-------------------------------- MODULE Fleet --------------------------------
(***************************************************************************)
(* The enrolled servers, the HTTP handlers that edit them and the poller   *)
(* that keeps their health columns current.                                *)
(*                                                                         *)
(* A row of the servers table is read with FindByID or List and written    *)
(* back in one of two ways: UpdateStatus writes two columns of whatever    *)
(* row is there, Update (gorm's Save) writes the whole row the handler     *)
(* holds in memory and inserts it when there is none.  No handler opens a  *)
(* transaction, so every handler is a read, calls to the panel that may    *)
(* take seconds, and one or more writes, interleaved with the others and   *)
(* with the poller.                                                        *)
(***************************************************************************)
EXTENDS Naturals

CONSTANTS
    Servers,    \* server ids
    Secrets,    \* token secrets, sealed so that this install can open them
    Requests,   \* HTTP handlers running at the same time
    FileCreds,  \* credential statuses the imported settings files carry
    MaxOps,     \* bound: requests started in a behaviour
    MaxFaults   \* bound: panel changes, crashes of the manager

NoSecret == "no secret"        \* an empty token_secret_enc
Foreign  == "foreign secret"   \* a blob sealed with another install's key
Unknown  == "unknown"

ASSUME FleetAssumption ==
    /\ Secrets \cap {NoSecret, Foreign, Unknown} = {}
    /\ FileCreds \subseteq {"valid", "invalid", "unknown"}
    /\ MaxOps \in Nat
    /\ MaxFaults \in Nat

VARIABLES
    rows,       \* the servers table
    unissued,   \* server ids no row has been given yet
    panel,      \* the managed panels: answering or not, and the token they accept
    job,        \* the poller's goroutine for each server of the pass under way
    req,        \* the HTTP handlers under way
    vault,      \* history: the secret the last operator write acknowledged
    settled,    \* history: a pause or removal nothing overlapped
    ops, faults \* what is left of the two bounds

vars == <<rows, unissued, panel, job, req, vault, settled, ops, faults>>

-----------------------------------------------------------------------------
(* Types *)

ServerStatus     == {"active", "disabled", "unreachable"}
CredentialStatus == {"valid", "invalid", "unknown"}

\* status "absent" stands for no row.
Row == [status : ServerStatus \cup {"absent"},
        cred   : CredentialStatus,
        secret : Secrets \cup {NoSecret, Foreign}]
NoRow == [status |-> "absent", cred |-> "unknown", secret |-> NoSecret]

Panel == [up : BOOLEAN, token : Secrets]

\* A goroutine of PollOnce: the row List returned, before and after its probe.
Job  == [at : {"probe", "store"}, row : Row]
NoJob == [at |-> "none"]

\* A handler: what it does next, to which server, and the row it holds.
Phase == {"edit", "status", "delete", "import update", "import create", "enrol",
          "probe", "answer", "version", "capabilities"}
Request == [at : Phase, srv : Servers, row : Row]
NoRequest == [at |-> "none"]

TypeOK ==
    /\ rows \in [Servers -> Row]
    /\ unissued \subseteq Servers
    /\ panel \in [Servers -> Panel]
    /\ job \in [Servers -> Job \cup {NoJob}]
    /\ req \in [Requests -> Request \cup {NoRequest}]
    /\ vault \in [Servers -> Secrets \cup {NoSecret, Foreign, Unknown}]
    /\ settled \in [Servers -> {"open", "disabled", "absent"}]
    /\ ops \in 0..MaxOps
    /\ faults \in 0..MaxFaults

-----------------------------------------------------------------------------
(* Helpers *)

Exists(s) == rows[s].status # "absent"

\* secrets.OpenSecret succeeds.
Opens(secret) == secret \in Secrets

\* What a panel answers to a signed health check, as the pair of columns
\* statusFromCheck stores for it.
StatusFromCheck(s, secret) ==
    IF ~panel[s].up THEN [status |-> "unreachable", cred |-> "unknown"]
    ELSE IF panel[s].token = secret THEN [status |-> "active", cred |-> "valid"]
    ELSE [status |-> "active", cred |-> "invalid"]

\* No other handler that already read server s is still running.
Alone(r, s) == \A q \in Requests \ {r} : req[q] = NoRequest \/ req[q].srv # s

-----------------------------------------------------------------------------
(* The two ways to write a row *)

\* Two wrong forms: inserting the row when it is gone, and leaving the
\* credential column out.
UpdateStatusInsert(s, st, cr) ==
    rows' = [rows EXCEPT ![s].status = st, ![s].cred = cr]
UpdateStatusOnly(s, st, cr) ==
    rows' = IF Exists(s) THEN [rows EXCEPT ![s].status = st] ELSE rows

\* UPDATE servers SET status, credential_status WHERE id = s: nothing when
\* there is no such row.
UpdateStatus(s, st, cr) ==
    rows' = IF Exists(s) THEN [rows EXCEPT ![s].status = st, ![s].cred = cr] ELSE rows

\* gorm's Save: the whole row, inserted when there is none.
Update(s, row) == rows' = [rows EXCEPT ![s] = row]

-----------------------------------------------------------------------------
(* Initially some servers are enrolled and healthy, the rest not yet.  The  *)
(* panel of each answers and accepts one of the secrets.                    *)
Init ==
    /\ unissued \in SUBSET Servers
    /\ panel \in [Servers -> {p \in Panel : p.up}]
    /\ rows = [s \in Servers |->
                IF s \in unissued THEN NoRow
                ELSE [status |-> "active", cred |-> "valid", secret |-> panel[s].token]]
    /\ job = [s \in Servers |-> NoJob]
    /\ req = [r \in Requests |-> NoRequest]
    /\ vault = [s \in Servers |-> rows[s].secret]
    /\ settled = [s \in Servers |-> "open"]
    /\ ops = MaxOps
    /\ faults = MaxFaults

-----------------------------------------------------------------------------
(* Handlers: the read *)

\* Request r starts, and holds `row` of server s when the next phase begins.
Start(r, s, phase, row) ==
    /\ req[r] = NoRequest
    /\ ops > 0
    /\ ops' = ops - 1
    /\ req' = [req EXCEPT ![r] = [at |-> phase, srv |-> s, row |-> row]]

Finish(r) == req' = [req EXCEPT ![r] = NoRequest]
Continue(r, phase, row) ==
    req' = [req EXCEPT ![r] = [at |-> phase, srv |-> req[r].srv, row |-> row]]

\* PATCH /servers/:id, up to its Save.  A new token id or secret makes the
\* credential status unknown; any other field leaves these columns alone.
UpdateServer(r, s) ==
    /\ Exists(s)
    /\ \/ \E k \in Secrets :
            Start(r, s, "edit", [rows[s] EXCEPT !.secret = k, !.cred = "unknown"])
       \/ Start(r, s, "edit", rows[s])
    /\ UNCHANGED <<rows, unissued, panel, job, vault, settled, faults>>

\* POST /servers/:id/disable and /enable, up to their Save.
SetStatus(r, s) ==
    /\ Exists(s)
    /\ \E st \in {"disabled", "active"} :
         Start(r, s, "status", [rows[s] EXCEPT !.status = st])
    /\ UNCHANGED <<rows, unissued, panel, job, vault, settled, faults>>

\* DELETE /servers/:id, up to its DELETE.
Remove(r, s) ==
    /\ Exists(s)
    /\ Start(r, s, "delete", rows[s])
    /\ UNCHANGED <<rows, unissued, panel, job, vault, settled, faults>>

\* POST /servers/:id/check, up to its call to the panel.  The handler does not
\* ask whether the server is disabled.
CheckHealth(r, s) ==
    /\ Exists(s)
    /\ Start(r, s, "probe", rows[s])
    /\ settled' = [settled EXCEPT ![s] = "open"]
    /\ UNCHANGED <<rows, unissued, panel, job, vault, faults>>

\* GET /servers/:id/capabilities, up to its call to the panel.
ActCapabilities(r, s) ==
    /\ Exists(s)
    /\ Opens(rows[s].secret)
    /\ Start(r, s, "capabilities", rows[s])
    /\ UNCHANGED <<rows, unissued, panel, job, vault, settled, faults>>

\* A wrong form: an item without a secret does not keep the stored one.
ImportedRowRaw(s, given, st, cr) == [status |-> st, cred |-> cr, secret |-> given]

\* What importServer stores for an item that carries secret `given`, or none
\* ("keep", only when the server exists).  A blob this install cannot open is
\* dropped and the credential is marked invalid.
ImportedRow(s, given, st, cr) ==
    LET blob == IF given = "keep" THEN rows[s].secret ELSE given
    IN  IF blob = Foreign
        THEN [status |-> st, cred |-> "invalid", secret |-> NoSecret]
        ELSE [status |-> st, cred |-> cr, secret |-> blob]

\* One item of POST /settings/import, up to its Save or INSERT.
ImportServer(r, s) ==
    /\ \E given \in Secrets \cup {Foreign, "keep"}, st \in {"active", "disabled"},
          cr \in FileCreds :
         /\ given = "keep" => Exists(s)
         /\ Start(r, s, IF Exists(s) THEN "import update" ELSE "import create",
                  ImportedRow(s, given, st, cr))
    /\ unissued' = unissued \ {s}
    /\ settled' = [settled EXCEPT ![s] = "open"]
    /\ UNCHANGED <<rows, panel, job, vault, faults>>

\* POST /servers, up to its INSERT: enrollmentGate lets it through only when
\* the panel answered and accepted the token.
Create(r, s) ==
    /\ s \in unissued
    /\ unissued' = unissued \ {s}
    /\ panel[s].up
    /\ Start(r, s, "enrol", [status |-> "active", cred |-> "valid", secret |-> panel[s].token])
    /\ settled' = [settled EXCEPT ![s] = "open"]
    /\ UNCHANGED <<rows, panel, job, vault, faults>>

-----------------------------------------------------------------------------
(* Handlers: the writes *)

\* The history of an operator's write: its secret stands if no other handler
\* holds an older copy of the row.
Acknowledge(r, s, secret) ==
    vault' = [vault EXCEPT ![s] = IF Alone(r, s) THEN secret ELSE Unknown]

SaveEdit(r) ==
    LET s == req[r].srv IN
    /\ req[r].at = "edit"
    /\ Update(s, req[r].row)
    /\ Acknowledge(r, s, req[r].row.secret)
    /\ Finish(r)
    /\ UNCHANGED <<unissued, panel, job, settled, ops, faults>>

\* A pause counts as settled when neither another handler nor the pass under
\* way read the server before it.
SaveStatus(r) ==
    LET s == req[r].srv IN
    /\ req[r].at = "status"
    /\ Update(s, req[r].row)
    /\ Acknowledge(r, s, req[r].row.secret)
    /\ settled' = [settled EXCEPT ![s] =
                     IF req[r].row.status = "disabled" /\ Alone(r, s) /\ job[s] = NoJob
                     THEN "disabled" ELSE "open"]
    /\ Finish(r)
    /\ UNCHANGED <<unissued, panel, job, ops, faults>>

\* A removal counts as settled when no other handler holds the row; the pass
\* under way may.
Delete(r) ==
    LET s == req[r].srv IN
    /\ req[r].at = "delete"
    /\ rows' = [rows EXCEPT ![s] = NoRow]
    /\ Acknowledge(r, s, NoSecret)
    /\ settled' = [settled EXCEPT ![s] = IF Alone(r, s) THEN "absent" ELSE "open"]
    /\ Finish(r)
    /\ UNCHANGED <<unissued, panel, job, ops, faults>>

SaveImport(r) ==
    LET s == req[r].srv IN
    /\ req[r].at = "import update"
    /\ Update(s, req[r].row)
    /\ Acknowledge(r, s, req[r].row.secret)
    /\ Finish(r)
    /\ UNCHANGED <<unissued, panel, job, settled, ops, faults>>

\* INSERT, by enrolment or by import; it fails when the id is taken.
Insert(r) ==
    LET s == req[r].srv IN
    /\ req[r].at \in {"enrol", "import create"}
    /\ IF Exists(s) THEN UNCHANGED <<rows, vault>>
       ELSE Update(s, req[r].row) /\ Acknowledge(r, s, req[r].row.secret)
    /\ Finish(r)
    /\ UNCHANGED <<unissued, panel, job, settled, ops, faults>>

\* checkHealth with a secret it cannot open: the status it read is written
\* back with an invalid credential.
CheckUndecryptable(r) ==
    /\ req[r].at = "probe"
    /\ ~Opens(req[r].row.secret)
    /\ UpdateStatus(req[r].srv, req[r].row.status, "invalid")
    /\ Finish(r)
    /\ UNCHANGED <<unissued, panel, job, vault, settled, ops, faults>>

\* checkHealth's call to the panel, or its timeout (503, nothing written).
CheckProbe(r) ==
    /\ req[r].at = "probe"
    /\ Opens(req[r].row.secret)
    /\ \/ LET seen == StatusFromCheck(req[r].srv, req[r].row.secret)
          IN  Continue(r, "answer", [req[r].row EXCEPT !.status = seen.status, !.cred = seen.cred])
       \/ Finish(r)
    /\ UNCHANGED <<rows, unissued, panel, job, vault, settled, ops, faults>>

\* checkHealth stores the outcome: first the two columns...
CheckStore(r) ==
    /\ req[r].at = "answer"
    /\ UpdateStatus(req[r].srv, req[r].row.status, req[r].row.cred)
    /\ Continue(r, "version", req[r].row)
    /\ UNCHANGED <<unissued, panel, job, vault, settled, ops, faults>>

\* ...then, when the panel's version changed, the whole row; it goes on to the
\* capabilities when the credential was accepted.
CheckSaveVersion(r) ==
    /\ req[r].at = "version"
    /\ Update(req[r].srv, req[r].row) \/ UNCHANGED rows
    /\ IF req[r].row.cred = "valid" THEN Continue(r, "capabilities", req[r].row)
       ELSE Finish(r)
    /\ UNCHANGED <<unissued, panel, job, vault, settled, ops, faults>>

\* checkHealth and actCapabilities: the panel's list of actions is fetched, and
\* saved with the whole row when the call succeeded and the list is not empty.
SaveCapabilities(r) ==
    /\ req[r].at = "capabilities"
    /\ \/ /\ StatusFromCheck(req[r].srv, req[r].row.secret).cred = "valid"
          /\ Update(req[r].srv, req[r].row)
       \/ UNCHANGED rows
    /\ Finish(r)
    /\ UNCHANGED <<unissued, panel, job, vault, settled, ops, faults>>

-----------------------------------------------------------------------------
(* The poller *)

\* Two wrong forms: polling the disabled servers too, and only the active ones.
PollOnceEverything ==
    /\ \A s \in Servers : job[s] = NoJob
    /\ job' = [s \in Servers |-> IF Exists(s) THEN [at |-> "probe", row |-> rows[s]] ELSE NoJob]
    /\ UNCHANGED <<rows, unissued, panel, req, vault, settled, ops, faults>>
PollOnceActive ==
    /\ \A s \in Servers : job[s] = NoJob
    /\ job' = [s \in Servers |->
                 IF rows[s].status = "active" THEN [at |-> "probe", row |-> rows[s]] ELSE NoJob]
    /\ UNCHANGED <<rows, unissued, panel, req, vault, settled, ops, faults>>

\* PollOnce lists the servers and starts a goroutine for each that is not
\* disabled, once every goroutine of the pass before it has returned.
PollOnce ==
    /\ \A s \in Servers : job[s] = NoJob
    /\ job' = [s \in Servers |->
                 IF Exists(s) /\ rows[s].status # "disabled"
                 THEN [at |-> "probe", row |-> rows[s]] ELSE NoJob]
    /\ UNCHANGED <<rows, unissued, panel, req, vault, settled, ops, faults>>

\* What pollServer decides from the row List returned: the status it read when
\* the secret cannot be opened, the panel's answer otherwise.
Outcome(s, row) ==
    IF ~Opens(row.secret) THEN [status |-> row.status, cred |-> "invalid"]
    ELSE StatusFromCheck(s, row.secret)

PollProbe(s) ==
    /\ job[s].at = "probe"
    /\ job' = [job EXCEPT ![s] =
                 [at |-> "store",
                  row |-> [job[s].row EXCEPT !.status = Outcome(s, job[s].row).status,
                                             !.cred = Outcome(s, job[s].row).cred]]]
    /\ UNCHANGED <<rows, unissued, panel, req, vault, settled, ops, faults>>

\* A wrong form: the poller writes back the whole row it listed.
PollStoreWholeRow(s) ==
    /\ job[s].at = "store"
    /\ IF Exists(s) THEN Update(s, job[s].row) ELSE UNCHANGED rows
    /\ job' = [job EXCEPT ![s] = NoJob]
    /\ UNCHANGED <<unissued, panel, req, vault, settled, ops, faults>>

\* The poller stores the two columns of the row that is there by now.
PollStore(s) ==
    /\ job[s].at = "store"
    /\ UpdateStatus(s, job[s].row.status, job[s].row.cred)
    /\ job' = [job EXCEPT ![s] = NoJob]
    /\ UNCHANGED <<unissued, panel, req, vault, settled, ops, faults>>

-----------------------------------------------------------------------------
(* The environment *)

\* A panel goes down, comes back or changes the token it accepts.
PanelChange(s) ==
    /\ faults > 0
    /\ faults' = faults - 1
    /\ \E p \in Panel \ {panel[s]} : panel' = [panel EXCEPT ![s] = p]
    /\ UNCHANGED <<rows, unissued, job, req, vault, settled, ops>>

\* The manager crashes or is restarted: handlers and the pass are lost.
Restart ==
    /\ faults > 0
    /\ faults' = faults - 1
    /\ job' = [s \in Servers |-> NoJob]
    /\ req' = [r \in Requests |-> NoRequest]
    /\ UNCHANGED <<rows, unissued, panel, vault, settled, ops>>

Arrive(r, s) ==
    \/ UpdateServer(r, s) \/ SetStatus(r, s) \/ Remove(r, s) \/ CheckHealth(r, s)
    \/ ActCapabilities(r, s) \/ ImportServer(r, s) \/ Create(r, s)

Handle(r) ==
    \/ SaveEdit(r) \/ SaveStatus(r) \/ Delete(r) \/ SaveImport(r) \/ Insert(r)
    \/ CheckUndecryptable(r) \/ CheckProbe(r) \/ CheckStore(r) \/ CheckSaveVersion(r)
    \/ SaveCapabilities(r)

Poll(s) == PollProbe(s) \/ PollStore(s)

Next ==
    \/ \E r \in Requests : Handle(r) \/ \E s \in Servers : Arrive(r, s)
    \/ PollOnce
    \/ \E s \in Servers : Poll(s) \/ PanelChange(s)
    \/ Restart

\* Run's ticker starts pass after pass and every goroutine and handler, whose
\* calls all carry a timeout, returns.  Nothing obliges an operator or a panel.
Fairness ==
    /\ \A r \in Requests : WF_vars(Handle(r))
    /\ WF_vars(PollOnce)
    /\ \A s \in Servers : WF_vars(Poll(s))

Spec == Init /\ [][Next]_vars /\ Fairness

-----------------------------------------------------------------------------
(* Properties *)

\* A server shown as unreachable is never shown with a valid credential:
\* UpdateStatus writes the two columns together, and every whole-row Save
\* writes a pair that was once written together.
UnreachableNeverValid == \A s \in Servers : rows[s].status = "unreachable" => rows[s].cred # "valid"

\* A pause that neither a handler nor the poller's pass overlapped holds: the
\* poller does not list the server as one to poll, and no later edit wakes it,
\* until an operator enables, imports or checks it.
PauseStands == \A s \in Servers : settled[s] = "disabled" => rows[s].status = "disabled"

\* A removal that no other handler overlapped is final, even when the poller
\* was in the middle of polling the server.
RemovalStands == \A s \in Servers : settled[s] = "absent" => ~Exists(s)

\* A secret an operator stored while no other handler held the row stays stored
\* until an operator changes it: neither the poller nor a health check nor a
\* capabilities refresh that began earlier or later brings back an older one.
SecretStands == \A s \in Servers : vault[s] # Unknown => rows[s].secret = vault[s]

-----------------------------------------------------------------------------
(* The inductive invariant behind them: what the copies of a row that are   *)
(* in flight may hold.                                                      *)

\* Every copy that may be written back holds a pair that was written together.
Paired(row) == row.status = "unreachable" => row.cred # "valid"
HealthInv ==
    /\ \A s \in Servers : Paired(rows[s])
    /\ \A s \in Servers : job[s] # NoJob => Paired(job[s].row)
    /\ \A r \in Requests : req[r] # NoRequest => Paired(req[r].row)

\* Handlers that write a row back without an operator having asked for it.
Refreshing(r) == req[r].at \in {"probe", "answer", "version", "capabilities"}
SecretInv ==
    \A s \in Servers : vault[s] # Unknown =>
        /\ rows[s].secret = vault[s]
        /\ \A r \in Requests : Refreshing(r) /\ req[r].srv = s => req[r].row.secret = vault[s]

PauseInv ==
    \A s \in Servers : settled[s] = "disabled" =>
        /\ rows[s].status = "disabled"
        /\ job[s] = NoJob
        /\ \A r \in Requests : req[r] # NoRequest /\ req[r].srv = s =>
              \/ req[r].at \in {"status", "delete"}
              \/ req[r].at \in {"edit", "capabilities"} /\ req[r].row.status = "disabled"

RemovalInv ==
    \A s \in Servers : settled[s] = "absent" =>
        ~Exists(s) /\ \A r \in Requests : req[r] = NoRequest \/ req[r].srv # s

-----------------------------------------------------------------------------
(* Liveness, and what the documentation promises *)

\* Once the panels and the operators stay as they are, the health columns of
\* every server that is polled come to tell the truth and keep telling it.
Accurate ==
    \A s \in Servers : rows[s].status \in {"active", "unreachable"} =>
        IF Opens(rows[s].secret)
        THEN [status |-> rows[s].status, cred |-> rows[s].cred] = StatusFromCheck(s, rows[s].secret)
        ELSE rows[s].cred = "invalid"
EventuallyAccurate == <>[]Accurate

\* What the comments on remove and PollOnce promise of disable ("to keep a server
\* but stop polling it"): only a write an operator asked for, never a poll or a
\* health check, takes a server out of the disabled status.
DisableHolds ==
    [][\A s \in Servers : rows[s].status = "disabled" =>
         \/ rows'[s].status = "disabled"
         \/ \E r \in Requests : /\ req[r] # NoRequest /\ req'[r] = NoRequest
                                /\ req[r].srv = s
                                /\ req[r].at \in {"edit", "status", "delete", "import update"}]_vars
=============================================================================
