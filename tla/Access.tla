-------------------------------- MODULE Access --------------------------------
(***************************************************************************)
(* The manager's operators, their accounts and their sessions.             *)
(*                                                                         *)
(* An account is a row of the admins table, read and written back whole    *)
(* (gorm's Save, which inserts when the row is gone) by handlers that do   *)
(* not open a transaction; the first account alone is created in one.  A   *)
(* session is a row the JWT names; the JWT itself carries the role the     *)
(* account had at login, which no later request reads again.  A password   *)
(* is a number: each new one is larger than those before it.  An account   *)
(* and its username are the same thing here: usernames are not reused.     *)
(***************************************************************************)
EXTENDS Naturals

CONSTANTS
    Admins,    \* ids accounts may get
    Sessions,  \* ids sessions may get
    Requests,  \* handlers running at the same time, the local reset included
    MaxOps     \* bound: requests started in a behaviour

ASSUME AccessAssumption == MaxOps \in Nat

VARIABLES
    admins,     \* the admins table
    unissued,   \* ids no account has been given yet
    sessions,   \* the sessions table
    req,        \* the handlers under way
    passwords,  \* the newest password chosen so far
    setups,     \* history: first accounts created
    crossed,    \* history: two handlers that write accounts were under way at once
    standing,   \* history: the role the last undisturbed write gave an account
    evicted,    \* history: the password set by the last undisturbed local reset
    ops

accessVars == <<admins, unissued, sessions, req, passwords, setups, crossed, standing, evicted,
                ops>>

-----------------------------------------------------------------------------
\* Only ownership is asked for by the handlers modelled here, so that "member"
\* stands for viewer and operator; "absent" stands for no row.
Roles   == {"member", "owner"}
Account == [role : Roles \cup {"absent"}, pass : Nat]
NoAccount == [role |-> "absent", pass |-> 0]

\* live: neither revoked nor expired nor pruned.  pass: history, the password the
\* session was opened with.
Session == [admin : Admins, role : Roles, pass : Nat, live : BOOLEAN]
NoSession == [live |-> FALSE]

\* A handler: its next step, the account it is about and the row it holds.
Phase == {"login", "setup", "save", "save own", "delete", "reset", "evict"}
Request == [at : Phase, admin : Admins, row : Account]
NoRequest == [at |-> "none"]

Unknown == "unknown"

AccessTypeOK ==
    /\ admins \in [Admins -> Account]
    /\ unissued \subseteq Admins
    /\ sessions \in [Sessions -> Session \cup {NoSession}]
    /\ req \in [Requests -> Request \cup {NoRequest}]
    /\ passwords \in Nat
    /\ setups \in Nat
    /\ crossed \in BOOLEAN
    /\ standing \in [Admins -> Roles \cup {"absent", Unknown}]
    /\ evicted \in [Admins -> Nat]
    /\ ops \in 0..MaxOps

Exists(a) == admins[a].role # "absent"
Owners == {a \in Admins : admins[a].role = "owner"}

\* CountByRole(owner) <= 1.
IsLastOwner == \A a, b \in Owners : a = b

\* gorm's Save, whether or not the row is still there.
Update(a, row) == admins' = [admins EXCEPT ![a] = row]

-----------------------------------------------------------------------------
(* Initially nobody has set the manager up, or some owners exist. *)
AccessInit ==
    /\ \E A \in SUBSET Admins :
         /\ admins = [a \in Admins |-> IF a \in A THEN [role |-> "owner", pass |-> 1] ELSE NoAccount]
         /\ unissued = Admins \ A
         /\ setups = IF A = {} THEN 0 ELSE 1
    /\ sessions = [x \in Sessions |-> NoSession]
    /\ req = [r \in Requests |-> NoRequest]
    /\ passwords = 1
    /\ crossed = FALSE
    /\ standing = [a \in Admins |-> admins[a].role]
    /\ evicted = [a \in Admins |-> 0]
    /\ ops = MaxOps

-----------------------------------------------------------------------------
(* Handlers: the request arrives *)

Count == ops > 0 /\ ops' = ops - 1

\* Handlers that will write an account that exists.
Writing == {r \in Requests : req[r].at \in {"save", "save own", "delete", "reset"}}

Start(r, phase, a, row) ==
    /\ req[r] = NoRequest
    /\ Count
    /\ req' = [req EXCEPT ![r] = [at |-> phase, admin |-> a, row |-> row]]
    /\ crossed' = (crossed \/ (phase \notin {"login", "setup"} /\ Writing # {}))

Finish(r) == req' = [req EXCEPT ![r] = NoRequest]

\* AuthMiddleware: the JWT's session is active.  RequireRole(owner) believes the
\* role in the JWT.
Authenticated(x) == sessions[x].live
AsOwner(x) == Authenticated(x) /\ sessions[x].role = "owner"

\* A password no account ever had.
NewPassword == passwords + 1

\* POST /auth/login with the right password (and code), up to its session.
Login(r, a) ==
    /\ Exists(a)
    /\ Start(r, "login", a, admins[a])
    /\ UNCHANGED <<admins, unissued, sessions, passwords, setups, standing, evicted>>

\* POST /auth/setup, up to its transaction: the handler counted no account.
Setup(r) ==
    /\ \A a \in Admins : ~Exists(a)
    /\ \E a \in unissued :
         /\ Start(r, "setup", a, [role |-> "owner", pass |-> NewPassword])
         /\ unissued' = unissued \ {a}
    /\ passwords' = NewPassword
    /\ UNCHANGED <<admins, sessions, setups, standing, evicted>>

\* POST /admins, a single INSERT.
Create(x) ==
    /\ Count
    /\ AsOwner(x)
    /\ \E a \in unissued, role \in Roles :
         /\ unissued' = unissued \ {a}
         /\ admins' = [admins EXCEPT ![a] = [role |-> role, pass |-> NewPassword]]
         /\ standing' = [standing EXCEPT ![a] = role]
    /\ passwords' = NewPassword
    /\ UNCHANGED <<sessions, req, setups, crossed, evicted>>

\* Two wrong forms: the check asks for the new role only, and the own account is
\* written back with the role of the session.
UpdateAdminUnchecked(r, x, a) ==
    /\ AsOwner(x)
    /\ Exists(a)
    /\ \E role \in Roles : Start(r, "save", a, [role |-> role, pass |-> admins[a].pass])
    /\ UNCHANGED <<admins, unissued, sessions, passwords, setups, standing, evicted>>
EditSelfByToken(r, x) ==
    /\ Authenticated(x)
    /\ LET a == sessions[x].admin IN
       /\ Exists(a)
       /\ Start(r, "save own", a, [role |-> sessions[x].role, pass |-> NewPassword])
    /\ passwords' = NewPassword
    /\ UNCHANGED <<admins, unissued, sessions, setups, standing, evicted>>

\* PATCH /admins/:id, up to its Save: a role, a password or both.
UpdateAdmin(r, x, a) ==
    /\ AsOwner(x)
    /\ Exists(a)
    /\ \E role \in Roles, pass \in {admins[a].pass, NewPassword} :
         /\ admins[a].role = "owner" /\ role # "owner" => ~IsLastOwner
         /\ Start(r, "save", a, [role |-> role, pass |-> pass])
         /\ passwords' = IF pass = NewPassword THEN NewPassword ELSE passwords
    /\ UNCHANGED <<admins, unissued, sessions, setups, standing, evicted>>

\* POST /auth/change-password and the three /auth/2fa handlers, up to their Save:
\* the caller's own row, with a new password or new 2FA columns.
EditSelf(r, x) ==
    /\ Authenticated(x)
    /\ LET a == sessions[x].admin IN
       /\ Exists(a)
       /\ \E pass \in {admins[a].pass, NewPassword} :
            /\ Start(r, "save own", a, [admins[a] EXCEPT !.pass = pass])
            /\ passwords' = IF pass = NewPassword THEN NewPassword ELSE passwords
    /\ UNCHANGED <<admins, unissued, sessions, setups, standing, evicted>>

\* DELETE /admins/:id, up to its DELETE.
RemoveAdmin(r, x, a) ==
    /\ AsOwner(x)
    /\ Exists(a)
    /\ a # sessions[x].admin
    /\ admins[a].role = "owner" => ~IsLastOwner
    /\ Start(r, "delete", a, admins[a])
    /\ UNCHANGED <<admins, unissued, sessions, passwords, setups, standing, evicted>>

\* The local password reset (command line or device), up to its Save.
ResetAdminPassword(r, a) ==
    /\ Exists(a)
    /\ Start(r, "reset", a, [admins[a] EXCEPT !.pass = NewPassword])
    /\ passwords' = NewPassword
    /\ UNCHANGED <<admins, unissued, sessions, setups, standing, evicted>>

-----------------------------------------------------------------------------
(* Handlers: the writes *)

\* No other handler holds a copy of account a.
Alone(r, a) == \A q \in Requests \ {r} : req[q] = NoRequest \/ req[q].admin # a

\* issueSession: the session row, then the JWT with the role that was read.
IssueSession(r) ==
    /\ req[r].at = "login"
    /\ \E x \in Sessions :
         /\ sessions[x] = NoSession
         /\ sessions' = [sessions EXCEPT ![x] =
                           [admin |-> req[r].admin, role |-> req[r].row.role,
                            pass |-> req[r].row.pass, live |-> TRUE]]
    /\ Finish(r)
    /\ UNCHANGED <<admins, unissued, passwords, setups, crossed, standing, evicted, ops>>

\* A wrong form: the transaction does not count again.
CreateFirstBlindly(r) ==
    /\ req[r].at = "setup"
    /\ Update(req[r].admin, req[r].row)
    /\ setups' = setups + 1
    /\ standing' = [standing EXCEPT ![req[r].admin] = "owner"]
    /\ req' = [req EXCEPT ![r].at = "login"]
    /\ UNCHANGED <<unissued, sessions, passwords, crossed, evicted, ops>>

\* CreateFirst: the count and the insert are one transaction, with a locking read.
\* The handler goes on to issue a session, or answers that setup is completed.
CreateFirst(r) ==
    LET a == req[r].admin IN
    /\ req[r].at = "setup"
    /\ IF \A b \in Admins : ~Exists(b)
       THEN /\ Update(a, req[r].row)
            /\ setups' = setups + 1
            /\ standing' = [standing EXCEPT ![a] = "owner"]
            /\ req' = [req EXCEPT ![r].at = "login"]
       ELSE /\ Finish(r)
            /\ UNCHANGED <<admins, setups, standing>>
    /\ UNCHANGED <<unissued, sessions, passwords, crossed, evicted, ops>>

\* The Save of a handler; the role it writes stands if no other handler holds the
\* account and may write it back.
SaveAccount(r) ==
    LET a == req[r].admin IN
    /\ req[r].at \in {"save", "save own"}
    /\ Update(a, req[r].row)
    /\ standing' = [standing EXCEPT ![a] =
                      IF ~Alone(r, a) THEN Unknown
                      ELSE IF req[r].at = "save" THEN req[r].row.role ELSE @]
    /\ Finish(r)
    /\ UNCHANGED <<unissued, sessions, passwords, setups, crossed, evicted, ops>>

Delete(r) ==
    LET a == req[r].admin IN
    /\ req[r].at = "delete"
    /\ admins' = [admins EXCEPT ![a] = NoAccount]
    /\ standing' = [standing EXCEPT ![a] = IF Alone(r, a) THEN "absent" ELSE Unknown]
    /\ Finish(r)
    /\ UNCHANGED <<unissued, sessions, passwords, setups, crossed, evicted, ops>>

\* The reset's Save, then the revocation of the account's sessions, which may fail
\* without failing the reset.
SaveReset(r) ==
    LET a == req[r].admin IN
    /\ req[r].at = "reset"
    /\ Update(a, req[r].row)
    /\ standing' = [standing EXCEPT ![a] = IF Alone(r, a) THEN @ ELSE Unknown]
    /\ req' = [req EXCEPT ![r].at = "evict"]
    /\ UNCHANGED <<unissued, sessions, passwords, setups, crossed, evicted, ops>>

RevokeAllForAdmin(a) ==
    sessions' = [x \in Sessions |->
                   IF sessions[x].live /\ sessions[x].admin = a
                   THEN [sessions[x] EXCEPT !.live = FALSE] ELSE sessions[x]]

\* A wrong form: the sessions are left alone.
EvictNobody(r) ==
    LET a == req[r].admin IN
    /\ req[r].at = "evict"
    /\ evicted' = [evicted EXCEPT ![a] =
                     IF Alone(r, a) /\ admins[a].pass = req[r].row.pass THEN req[r].row.pass ELSE @]
    /\ Finish(r)
    /\ UNCHANGED <<admins, unissued, sessions, passwords, setups, crossed, standing, ops>>

Evict(r) ==
    LET a == req[r].admin IN
    /\ req[r].at = "evict"
    /\ \/ /\ RevokeAllForAdmin(a)
          /\ evicted' = [evicted EXCEPT ![a] =
                           IF Alone(r, a) /\ admins[a].pass = req[r].row.pass
                           THEN req[r].row.pass ELSE @]
       \/ UNCHANGED <<sessions, evicted>>
    /\ Finish(r)
    /\ UNCHANGED <<admins, unissued, passwords, setups, crossed, standing, ops>>

-----------------------------------------------------------------------------
(* Sessions and the process *)

\* DELETE /auth/sessions/:id and POST /auth/logout: one's own sessions only.
Revoke(x, y) ==
    /\ Authenticated(x)
    /\ sessions[y].live /\ sessions[y].admin = sessions[x].admin
    /\ sessions' = [sessions EXCEPT ![y].live = FALSE]
    /\ UNCHANGED <<admins, unissued, req, passwords, setups, crossed, standing, evicted, ops>>

\* expires_at passes, at most 30 days after the login.
Expire(x) ==
    /\ sessions[x].live
    /\ sessions' = [sessions EXCEPT ![x].live = FALSE]
    /\ UNCHANGED <<admins, unissued, req, passwords, setups, crossed, standing, evicted, ops>>

\* The manager stops: the handlers under way are lost.
AccessRestart ==
    /\ \E r \in Requests : req[r] # NoRequest
    /\ req' = [r \in Requests |-> NoRequest]
    /\ UNCHANGED <<admins, unissued, sessions, passwords, setups, crossed, standing, evicted, ops>>

-----------------------------------------------------------------------------
Arrive(r) ==
    \/ Setup(r)
    \/ \E a \in Admins : Login(r, a) \/ ResetAdminPassword(r, a)
    \/ \E x \in Sessions : EditSelf(r, x) \/ \E a \in Admins : UpdateAdmin(r, x, a) \/ RemoveAdmin(r, x, a)

Handle(r) ==
    \/ IssueSession(r) \/ CreateFirst(r) \/ SaveAccount(r) \/ Delete(r) \/ SaveReset(r) \/ Evict(r)

AccessNext ==
    \/ \E r \in Requests : Arrive(r) \/ Handle(r)
    \/ \E x \in Sessions : Create(x) \/ Expire(x) \/ \E y \in Sessions : Revoke(x, y)
    \/ AccessRestart

AccessSpec == AccessInit /\ [][AccessNext]_accessVars

-----------------------------------------------------------------------------
(* Properties *)

\* "Never demote the last owner": once set up, the manager has an owner, as long as
\* no two handlers that write accounts were under way at once.
OwnerRemains == setups > 0 /\ ~crossed => Owners # {}

\* Setup succeeds once, however many setups race, as long as no race of the other
\* handlers has removed every account.
SetupOnce == ~crossed => setups <= 1

\* The role an owner gave an account, or its removal, stands until an owner changes
\* it if no other handler held the account meanwhile: neither a password change,
\* nor a 2FA step, nor a local reset that began later brings an older role back.
RoleStands == \A a \in Admins : standing[a] # Unknown => admins[a].role = standing[a]

\* After a local reset that no other handler of the account overlapped, every
\* session of the account was opened with a password chosen no earlier: no old
\* session outlives the reset and none is opened with the old password.
ResetEvicts ==
    \A x \in Sessions : sessions[x].live => sessions[x].pass >= evicted[sessions[x].admin]

\* The comment on the last-owner check, without the condition on races: whoever is
\* under way, an owner remains.
AlwaysAnOwner == setups > 0 => Owners # {}
=============================================================================
