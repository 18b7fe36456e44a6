----------------------------- MODULE AccessProofs -----------------------------
(* The safety properties of Access, for any accounts, sessions and handlers. *)
EXTENDS Access, TLAPS

-----------------------------------------------------------------------------
(* Types: besides its type, a handler's row is one of an account *)

HandlerBusy(r) == req[r] # NoRequest

RowsHeld == \A r \in Requests : HandlerBusy(r) => req[r].row.role \in Roles

TypeInv == AccessTypeOK /\ RowsHeld

\* What a handler that arrives has read: the account exists, or is the first one of
\* a setup; a write of the own account keeps its role, and a write that takes an
\* owner's role away has seen another owner.
Arrival(r, phase, a, row) ==
    /\ Start(r, phase, a, row)
    /\ UNCHANGED <<admins, sessions, setups, standing, evicted>>
    /\ passwords' \in {passwords, NewPassword}
    /\ row \in Account /\ row.role \in Roles
    /\ \/ /\ phase = "setup"
          /\ a \in unissued /\ unissued' = unissued \ {a}
          /\ row.role = "owner" /\ row.pass = NewPassword /\ passwords' = NewPassword
       \/ /\ phase \in {"login", "save", "save own", "delete", "reset"}
          /\ Exists(a) /\ unissued' = unissued
          /\ row.pass \in {admins[a].pass, passwords'}
          /\ phase \in {"save own", "reset"} => row.role = admins[a].role
          /\ (phase = "delete" \/ row.role # "owner") /\ phase \in {"save", "delete"} /\ admins[a].role = "owner"
               => \E b \in Admins : b # a /\ admins[b].role = "owner"

\* Every handler that arrives does so.
LEMMA Arrives ==
    ASSUME AccessTypeOK, NEW r \in Requests, Arrive(r)
    PROVE  \E phase \in Phase \ {"evict"}, a \in Admins, row \in Account : Arrival(r, phase, a, row)
<1>1. \A a \in Admins : admins[a] \in Account /\ (Exists(a) => admins[a].role \in Roles)
  BY DEF AccessTypeOK, Account, Exists
<1>2. NewPassword \in Nat /\ unissued \subseteq Admins
  BY DEF AccessTypeOK, NewPassword
<1>3. \A a \in Admins, role \in Roles, pass \in Nat : [role |-> role, pass |-> pass] \in Account
  BY DEF Account
<1>4. \A a \in Admins, pass \in Nat : [admins[a] EXCEPT !.pass = pass] \in Account
  BY <1>1 DEF Account
<1>5. CASE Setup(r)
  <2>1. PICK a \in unissued : /\ Start(r, "setup", a, [role |-> "owner", pass |-> NewPassword])
                              /\ unissued' = unissued \ {a}
    BY <1>5 DEF Setup
  <2>2. Arrival(r, "setup", a, [role |-> "owner", pass |-> NewPassword])
    BY <1>2, <1>3, <1>5, <2>1 DEF Setup, Arrival, Roles
  <2>3. QED
    BY <1>2, <1>3, <2>1, <2>2 DEF Phase, Roles
<1>6. CASE \E a \in Admins : Login(r, a)
  <2>1. PICK a \in Admins : Login(r, a)
    BY <1>6
  <2>2. Arrival(r, "login", a, admins[a])
    BY <1>1, <2>1 DEF Login, Arrival
  <2>3. QED
    BY <1>1, <2>2 DEF Phase
<1>7. CASE \E a \in Admins : ResetAdminPassword(r, a)
  <2>1. PICK a \in Admins : ResetAdminPassword(r, a)
    BY <1>7
  <2>2. DEFINE row == [admins[a] EXCEPT !.pass = NewPassword]
  <2>3. row \in Account /\ row.role = admins[a].role /\ row.pass = NewPassword /\ row.role \in Roles
    BY <1>1, <1>2, <1>4, <2>1 DEF Account, ResetAdminPassword
  <2>4. Arrival(r, "reset", a, row)
    BY <2>1, <2>3 DEF ResetAdminPassword, Arrival
  <2>5. QED
    BY <2>3, <2>4 DEF Phase
<1>8. CASE \E x \in Sessions : EditSelf(r, x)
  <2>1. PICK x \in Sessions : EditSelf(r, x)
    BY <1>8
  <2>2. DEFINE a == sessions[x].admin
  <2>3. a \in Admins
    <3>1. sessions[x] \in Session \cup {NoSession} /\ sessions[x].live
      BY <2>1 DEF EditSelf, Authenticated, AccessTypeOK
    <3>2. QED
      BY <3>1 DEF Session, NoSession
  <2>4. PICK pass \in {admins[a].pass, NewPassword} :
           /\ Start(r, "save own", a, [admins[a] EXCEPT !.pass = pass])
           /\ passwords' = IF pass = NewPassword THEN NewPassword ELSE passwords
    BY <2>1 DEF EditSelf
  <2>5. DEFINE row == [admins[a] EXCEPT !.pass = pass]
  <2>6. row \in Account /\ row.role = admins[a].role /\ row.pass = pass /\ row.role \in Roles
    BY <1>1, <1>2, <1>4, <2>1, <2>3, <2>4 DEF Account, EditSelf
  <2>7. Arrival(r, "save own", a, row)
    BY <2>1, <2>3, <2>4, <2>6 DEF EditSelf, Arrival
  <2>8. QED
    BY <2>3, <2>6, <2>7 DEF Phase
<1>9. ASSUME NEW x \in Sessions, NEW a \in Admins, UpdateAdmin(r, x, a)
      PROVE  \E phase \in Phase \ {"evict"}, row \in Account : Arrival(r, phase, a, row)
  <2>1. PICK role \in Roles, pass \in {admins[a].pass, NewPassword} :
           /\ admins[a].role = "owner" /\ role # "owner" => ~IsLastOwner
           /\ Start(r, "save", a, [role |-> role, pass |-> pass])
           /\ passwords' = IF pass = NewPassword THEN NewPassword ELSE passwords
    BY <1>9 DEF UpdateAdmin
  <2>2. pass \in Nat
    BY <1>1, <1>2, <2>1 DEF Account
  <2>3. admins[a].role = "owner" /\ role # "owner"
          => \E b \in Admins : b # a /\ admins[b].role = "owner"
    BY <2>1 DEF IsLastOwner, Owners
  <2>4. Arrival(r, "save", a, [role |-> role, pass |-> pass])
    BY <1>3, <1>9, <2>1, <2>2, <2>3 DEF UpdateAdmin, Arrival
  <2>5. QED
    BY <1>3, <2>2, <2>4 DEF Phase
<1>10. ASSUME NEW x \in Sessions, NEW a \in Admins, RemoveAdmin(r, x, a)
       PROVE  Arrival(r, "delete", a, admins[a])
  <2>1. admins[a].role = "owner" => \E b \in Admins : b # a /\ admins[b].role = "owner"
    BY <1>10 DEF RemoveAdmin, IsLastOwner, Owners
  <2>2. QED
    BY <1>1, <1>10, <2>1 DEF RemoveAdmin, Arrival
<1>11. QED
  BY <1>1, <1>5, <1>6, <1>7, <1>8, <1>9, <1>10 DEF Arrive, Phase

\* No handler's next step.
LEMMA Idle == NoRequest.at = "none"
  BY DEF NoRequest

\* A handler under way is a Request.
LEMMA BusyType == ASSUME AccessTypeOK, NEW r \in Requests, HandlerBusy(r) PROVE req[r] \in Request
  BY DEF AccessTypeOK, HandlerBusy

\* Initially nobody is under way and every variable has its type.
LEMMA TypeInit == AccessInit => TypeInv
<1>1. SUFFICES ASSUME AccessInit PROVE TypeInv
  OBVIOUS
<1>2. PICK A \in SUBSET Admins :
        /\ admins = [a \in Admins |-> IF a \in A THEN [role |-> "owner", pass |-> 1] ELSE NoAccount]
        /\ unissued = Admins \ A
        /\ setups = IF A = {} THEN 0 ELSE 1
  BY <1>1 DEF AccessInit
<1>3. admins \in [Admins -> Account]
  BY <1>2 DEF Account, NoAccount, Roles
<1>4. standing \in [Admins -> Roles \cup {"absent", Unknown}]
  BY <1>1, <1>3 DEF AccessInit, Account
<1>5. MaxOps \in 0..MaxOps
  BY AccessAssumption
<1>6. QED
  BY <1>1, <1>2, <1>3, <1>4, <1>5 DEF AccessInit, TypeInv, AccessTypeOK, RowsHeld, HandlerBusy

\* A handler that arrives, or moves on with its row, keeps the types.
LEMMA TypeStep == TypeInv /\ [AccessNext]_accessVars => TypeInv'
<1>1. SUFFICES ASSUME TypeInv, [AccessNext]_accessVars PROVE TypeInv'
  OBVIOUS
<1>2. AccessTypeOK /\ RowsHeld
  BY <1>1 DEF TypeInv
<1>3. \A r \in Requests : HandlerBusy(r) =>
        /\ req[r] \in Request /\ req[r].admin \in Admins
        /\ req[r].row \in Account /\ req[r].row.role \in Roles /\ req[r].row.pass \in Nat
  BY <1>2, BusyType DEF RowsHeld, Request, Account
<1>4. \A r \in Requests : req[r].at \in Phase => HandlerBusy(r)
  <2>1. NoRequest.at = "none" /\ "none" \notin Phase
    BY DEF NoRequest, Phase
  <2>2. QED
    BY <2>1 DEF HandlerBusy
<1>5. ASSUME NEW r \in Requests, Arrive(r) PROVE TypeInv'
  <2>1. PICK phase \in Phase \ {"evict"}, a \in Admins, row \in Account : Arrival(r, phase, a, row)
    BY <1>2, <1>5, Arrives
  <2>2. [at |-> phase, admin |-> a, row |-> row] \in Request
    BY DEF Request
  <2>3. req' = [req EXCEPT ![r] = [at |-> phase, admin |-> a, row |-> row]]
    BY <2>1 DEF Arrival, Start
  <2>4. req' \in [Requests -> Request \cup {NoRequest}] /\ RowsHeld'
    BY <1>2, <2>1, <2>2, <2>3 DEF AccessTypeOK, RowsHeld, HandlerBusy, Arrival
  <2>5. ops' \in 0..MaxOps
    <3>1. ops > 0 /\ ops' = ops - 1
      BY <2>1 DEF Arrival, Start, Count
    <3>2. ops \in 0..MaxOps
      BY <1>2 DEF AccessTypeOK
    <3>3. QED
      BY <3>1, <3>2, AccessAssumption
  <2>6. passwords' \in Nat
    <3>1. passwords' \in {passwords, NewPassword}
      BY <2>1 DEF Arrival
    <3>2. passwords \in Nat
      BY <1>2 DEF AccessTypeOK
    <3>3. QED
      BY <3>1, <3>2 DEF NewPassword
  <2>7. crossed' \in BOOLEAN /\ unissued' \subseteq Admins
    BY <1>2, <2>1 DEF Arrival, Start, AccessTypeOK
  <2>8. QED
    BY <1>2, <2>1, <2>4, <2>5, <2>6, <2>7 DEF Arrival, TypeInv, AccessTypeOK
<1>6. ASSUME NEW r \in Requests, IssueSession(r) PROVE TypeInv'
  <2>1. PICK x \in Sessions : sessions' = [sessions EXCEPT ![x] =
                           [admin |-> req[r].admin, role |-> req[r].row.role,
                            pass |-> req[r].row.pass, live |-> TRUE]]
    BY <1>6 DEF IssueSession
  <2>2. HandlerBusy(r)
    BY <1>4, <1>6 DEF IssueSession, Phase
  <2>3. [admin |-> req[r].admin, role |-> req[r].row.role, pass |-> req[r].row.pass, live |-> TRUE] \in Session
    BY <1>3, <2>2 DEF Session
  <2>4. QED
    BY <1>2, <1>6, <2>1, <2>3 DEF IssueSession, Finish, TypeInv, AccessTypeOK, RowsHeld, HandlerBusy
<1>7. ASSUME NEW r \in Requests, CreateFirst(r) PROVE TypeInv'
  <2>1. HandlerBusy(r)
    BY <1>4, <1>7 DEF CreateFirst, Phase
  <2>2. [req[r] EXCEPT !.at = "login"] \in Request /\ [req[r] EXCEPT !.at = "login"].row = req[r].row
    BY <1>3, <2>1 DEF Request, Phase
  <2>3. CASE \A b \in Admins : ~Exists(b)
    <3>1. admins' \in [Admins -> Account] /\ standing' \in [Admins -> Roles \cup {"absent", Unknown}]
      BY <1>2, <1>3, <1>7, <2>1, <2>3 DEF CreateFirst, Update, AccessTypeOK, Roles
    <3>2. req' \in [Requests -> Request \cup {NoRequest}] /\ RowsHeld'
      BY <1>2, <1>7, <2>1, <2>2, <2>3 DEF CreateFirst, AccessTypeOK, RowsHeld, HandlerBusy
    <3>3. setups' \in Nat
      BY <1>2, <1>7, <2>3 DEF CreateFirst, AccessTypeOK
    <3>4. QED
      BY <1>2, <1>7, <2>3, <3>1, <3>2, <3>3 DEF CreateFirst, TypeInv, AccessTypeOK
  <2>4. CASE ~\A b \in Admins : ~Exists(b)
    BY <1>2, <1>7, <2>4 DEF CreateFirst, Finish, TypeInv, AccessTypeOK, RowsHeld, HandlerBusy
  <2>5. QED
    BY <2>3, <2>4
<1>8. ASSUME NEW r \in Requests, SaveAccount(r) PROVE TypeInv'
  <2>1. HandlerBusy(r)
    BY <1>4, <1>8 DEF SaveAccount, Phase
  <2>2. admins' \in [Admins -> Account] /\ standing' \in [Admins -> Roles \cup {"absent", Unknown}]
    BY <1>2, <1>3, <1>8, <2>1 DEF SaveAccount, Update, AccessTypeOK
  <2>3. QED
    BY <1>2, <1>8, <2>2 DEF SaveAccount, Finish, TypeInv, AccessTypeOK, RowsHeld, HandlerBusy
<1>9. ASSUME NEW r \in Requests, Delete(r) PROVE TypeInv'
  <2>1. NoAccount \in Account
    BY DEF NoAccount, Account
  <2>2. QED
    BY <1>2, <1>9, <2>1 DEF Delete, Finish, TypeInv, AccessTypeOK, RowsHeld, HandlerBusy
<1>10. ASSUME NEW r \in Requests, SaveReset(r) PROVE TypeInv'
  <2>1. HandlerBusy(r)
    BY <1>4, <1>10 DEF SaveReset, Phase
  <2>2. [req[r] EXCEPT !.at = "evict"] \in Request /\ [req[r] EXCEPT !.at = "evict"].row = req[r].row
    BY <1>3, <2>1 DEF Request, Phase
  <2>3. QED
    BY <1>2, <1>3, <1>10, <2>1, <2>2 DEF SaveReset, Update, TypeInv, AccessTypeOK, RowsHeld, HandlerBusy
<1>11. ASSUME NEW r \in Requests, Evict(r) PROVE TypeInv'
  <2>1. HandlerBusy(r)
    BY <1>4, <1>11 DEF Evict, Phase
  <2>2. \A x \in Sessions : sessions[x] \in Session => [sessions[x] EXCEPT !.live = FALSE] \in Session
    BY DEF Session
  <2>3. sessions' \in [Sessions -> Session \cup {NoSession}]
    BY <1>2, <1>11, <2>2 DEF Evict, RevokeAllForAdmin, AccessTypeOK, NoSession
  <2>4. evicted' \in [Admins -> Nat]
    BY <1>2, <1>3, <1>11, <2>1 DEF Evict, AccessTypeOK
  <2>5. QED
    BY <1>2, <1>11, <2>3, <2>4 DEF Evict, Finish, TypeInv, AccessTypeOK, RowsHeld, HandlerBusy
<1>12. ASSUME NEW x \in Sessions, Create(x) PROVE TypeInv'
  <2>1. PICK a \in unissued, role \in Roles :
          /\ unissued' = unissued \ {a}
          /\ admins' = [admins EXCEPT ![a] = [role |-> role, pass |-> NewPassword]]
          /\ standing' = [standing EXCEPT ![a] = role]
    BY <1>12 DEF Create
  <2>2. NewPassword \in Nat
    BY <1>2 DEF NewPassword, AccessTypeOK
  <2>3. admins' \in [Admins -> Account] /\ standing' \in [Admins -> Roles \cup {"absent", Unknown}]
    BY <1>2, <2>1, <2>2 DEF AccessTypeOK, Account
  <2>4. ops' \in 0..MaxOps
    BY <1>2, <1>12, AccessAssumption DEF Create, Count, AccessTypeOK
  <2>5. QED
    BY <1>2, <1>12, <2>1, <2>2, <2>3, <2>4 DEF Create, TypeInv, AccessTypeOK, RowsHeld, HandlerBusy
<1>13. ASSUME NEW x \in Sessions, sessions[x].live, sessions' = [sessions EXCEPT ![x].live = FALSE],
              UNCHANGED <<admins, unissued, req, passwords, setups, crossed, standing, evicted, ops>>
       PROVE  TypeInv'
  <2>1. sessions[x] \in Session
    BY <1>2, <1>13 DEF AccessTypeOK, NoSession
  <2>2. [sessions[x] EXCEPT !.live = FALSE] \in Session
    BY <2>1 DEF Session
  <2>3. QED
    BY <1>2, <1>13, <2>2 DEF TypeInv, AccessTypeOK, RowsHeld, HandlerBusy
<1>14. CASE AccessRestart
  BY <1>2, <1>14 DEF AccessRestart, TypeInv, AccessTypeOK, RowsHeld, HandlerBusy
<1>15. CASE UNCHANGED accessVars
  BY <1>2, <1>15 DEF accessVars, TypeInv, AccessTypeOK, RowsHeld, HandlerBusy
<1>16. QED
  BY <1>1, <1>5, <1>6, <1>7, <1>8, <1>9, <1>10, <1>11, <1>12, <1>13, <1>14, <1>15
     DEF AccessNext, Handle, Expire, Revoke

\* Accounts, sessions and handlers keep their types: in particular a session never
\* carries the role of an account that does not exist.
THEOREM AccessTypeCorrect == AccessSpec => []AccessTypeOK
<1>1. TypeInv => AccessTypeOK
  BY DEF TypeInv
<1>2. QED
  BY <1>1, TypeInit, TypeStep, PTL DEF AccessSpec

-----------------------------------------------------------------------------
(* Ids: an account not created yet is held by its setup at most *)

Unheld(a) == \A r \in Requests : HandlerBusy(r) => req[r].admin # a

\* An id is unissued only while no row and no handler has it; a setup's id is its own.
IdsInv ==
    /\ \A a \in unissued : ~Exists(a) /\ Unheld(a)
    /\ \A r \in Requests : req[r].at = "setup" =>
         /\ req[r].row.role = "owner"
         /\ ~Exists(req[r].admin)
         /\ \A q \in Requests \ {r} : HandlerBusy(q) => req[q].admin # req[r].admin

\* What a handler that moves on may change: itself, and the account it holds.
OneMoves(r) ==
    /\ HandlerBusy(r)
    /\ \A q \in Requests \ {r} : req'[q] = req[q]
    /\ \/ req'[r] = NoRequest
       \/ /\ req'[r].admin = req[r].admin /\ req'[r].row = req[r].row
          /\ req'[r].at \in {"login", "evict"}
    /\ \A b \in Admins : b # req[r].admin => admins'[b] = admins[b]
    /\ UNCHANGED <<unissued, crossed>>

LEMMA HandleMoves ==
    ASSUME AccessTypeOK, NEW r \in Requests, Handle(r)
    PROVE  OneMoves(r)
<1>1. req[r].at \in Phase
  BY DEF Handle, IssueSession, CreateFirst, SaveAccount, Delete, SaveReset, Evict, Phase
<1>2. HandlerBusy(r)
  <2>1. NoRequest.at = "none" /\ "none" \notin Phase
    BY DEF NoRequest, Phase
  <2>2. QED
    BY <1>1, <2>1 DEF HandlerBusy
<1>3. req[r] \in Request
  BY <1>2, BusyType
<1>4. \A phase \in {"login", "evict"} :
        LET moved == [req[r] EXCEPT !.at = phase] IN
        moved.admin = req[r].admin /\ moved.row = req[r].row /\ moved.at = phase
  BY <1>3 DEF Request
<1>5. req \in [Requests -> Request \cup {NoRequest}] /\ admins \in [Admins -> Account]
  BY DEF AccessTypeOK
<1>6. CASE IssueSession(r)
  BY <1>2, <1>5, <1>6 DEF IssueSession, Finish, OneMoves
<1>7. CASE CreateFirst(r)
  BY <1>2, <1>4, <1>5, <1>7 DEF CreateFirst, Finish, Update, OneMoves
<1>8. CASE SaveAccount(r)
  BY <1>2, <1>5, <1>8 DEF SaveAccount, Finish, Update, OneMoves
<1>9. CASE Delete(r)
  BY <1>2, <1>5, <1>9 DEF Delete, Finish, OneMoves
<1>10. CASE SaveReset(r)
  BY <1>2, <1>4, <1>5, <1>10 DEF SaveReset, Update, OneMoves
<1>11. CASE Evict(r)
  BY <1>2, <1>5, <1>11 DEF Evict, Finish, OneMoves
<1>12. QED
  BY <1>6, <1>7, <1>8, <1>9, <1>10, <1>11 DEF Handle

LEMMA IdsInit == AccessInit => IdsInv
<1>1. SUFFICES ASSUME AccessInit PROVE IdsInv
  OBVIOUS
<1>2. \A r \in Requests : ~HandlerBusy(r) /\ req[r].at = "none"
  BY <1>1, Idle DEF AccessInit, HandlerBusy
<1>3. \A a \in unissued : ~Exists(a)
  <2>1. PICK A \in SUBSET Admins :
          /\ admins = [a \in Admins |-> IF a \in A THEN [role |-> "owner", pass |-> 1] ELSE NoAccount]
          /\ unissued = Admins \ A
    BY <1>1 DEF AccessInit
  <2>2. NoAccount.role = "absent"
    BY DEF NoAccount
  <2>3. QED
    BY <2>1, <2>2 DEF Exists
<1>4. QED
  BY <1>2, <1>3 DEF IdsInv, Unheld

LEMMA IdsStep == TypeInv /\ IdsInv /\ [AccessNext]_accessVars => IdsInv'
<1>1. SUFFICES ASSUME TypeInv, IdsInv, [AccessNext]_accessVars PROVE IdsInv'
  OBVIOUS
<1>2. AccessTypeOK
  BY <1>1 DEF TypeInv
<1>3. unissued \subseteq Admins /\ req \in [Requests -> Request \cup {NoRequest}]
  BY <1>2 DEF AccessTypeOK
<1>4. \A r \in Requests : HandlerBusy(r) => req[r].admin \in Admins
  BY <1>2, BusyType DEF Request
<1>5. ASSUME NEW r \in Requests, Arrive(r) PROVE IdsInv'
  <2>1. PICK phase \in Phase \ {"evict"}, a \in Admins, row \in Account : Arrival(r, phase, a, row)
    BY <1>2, <1>5, Arrives
  <2>2. /\ req[r] = NoRequest /\ admins' = admins
        /\ req' = [req EXCEPT ![r] = [at |-> phase, admin |-> a, row |-> row]]
    BY <2>1 DEF Arrival, Start
  <2>3. /\ \A q \in Requests \ {r} : req'[q] = req[q]
        /\ req'[r].admin = a /\ req'[r].at = phase /\ req'[r].row = row
    BY <1>3, <2>2
  <2>4. CASE phase = "setup"
    <3>1. a \in unissued /\ unissued' = unissued \ {a} /\ row.role = "owner"
      BY <2>1, <2>4 DEF Arrival
    <3>2. \A q \in Requests : HandlerBusy(q) => req[q].admin # a
      BY <1>1, <3>1 DEF IdsInv, Unheld
    <3>3. \A q \in Requests \ {r} : HandlerBusy(q)' => HandlerBusy(q)
      BY <2>3 DEF HandlerBusy
    <3>4. \A b \in unissued' : ~Exists(b)' /\ Unheld(b)'
      BY <1>1, <2>2, <2>3, <3>1, <3>3 DEF IdsInv, Unheld, Exists
    <3>5. ASSUME NEW q \in Requests, req'[q].at = "setup"
          PROVE  /\ req'[q].row.role = "owner"
                 /\ admins'[req'[q].admin].role = "absent"
                 /\ \A p \in Requests \ {q} : HandlerBusy(p)' => req'[p].admin # req'[q].admin
      <4>1. CASE q = r
        BY <1>1, <2>2, <2>3, <3>1, <3>2, <3>3, <4>1 DEF IdsInv, Exists
      <4>2. CASE q # r
        <5>1. req'[q] = req[q] /\ HandlerBusy(q)
          BY <2>3, <3>5, <4>2, Idle DEF HandlerBusy
        <5>2. QED
          BY <1>1, <2>2, <2>3, <3>2, <3>3, <3>5, <5>1 DEF IdsInv, Exists
      <4>3. QED
        BY <4>1, <4>2
    <3>6. QED
      BY <3>4, <3>5 DEF IdsInv, Exists
  <2>5. CASE phase # "setup"
    <3>1. Exists(a) /\ unissued' = unissued
      BY <2>1, <2>5 DEF Arrival
    <3>2. a \notin unissued /\ \A q \in Requests : req[q].at = "setup" => req[q].admin # a
      BY <1>1, <3>1 DEF IdsInv
    <3>3. \A q \in Requests \ {r} : HandlerBusy(q)' => HandlerBusy(q)
      BY <2>3 DEF HandlerBusy
    <3>4. \A b \in unissued' : ~Exists(b)' /\ Unheld(b)'
      BY <1>1, <2>2, <2>3, <3>1, <3>2, <3>3 DEF IdsInv, Unheld, Exists
    <3>5. \A q \in Requests : req'[q].at = "setup" => q # r /\ req'[q] = req[q]
      BY <2>3, <2>5
    <3>6. \A q \in Requests : req'[q].at = "setup" =>
            \A p \in Requests \ {q} : HandlerBusy(p)' => req'[p].admin # req'[q].admin
      BY <1>1, <2>3, <3>2, <3>3, <3>5 DEF IdsInv
    <3>7. QED
      BY <1>1, <2>2, <3>4, <3>5, <3>6 DEF IdsInv, Exists
  <2>6. QED
    BY <2>4, <2>5
<1>6. ASSUME NEW r \in Requests, Handle(r) PROVE IdsInv'
  <2>1. OneMoves(r)
    BY <1>2, <1>6, HandleMoves
  <2>2. req[r].admin \notin unissued
    BY <1>1, <2>1 DEF OneMoves, IdsInv, Unheld
  <2>3. NoRequest.at # "setup"
    BY DEF NoRequest
  <2>4. \A q \in Requests : req'[q].at = "setup" => q # r /\ req'[q] = req[q]
    BY <2>1, <2>3 DEF OneMoves
  <2>5. \A q \in Requests : HandlerBusy(q)' => HandlerBusy(q) /\ req'[q].admin = req[q].admin
    BY <2>1 DEF OneMoves, HandlerBusy
  <2>6. \A q \in Requests : req'[q].at = "setup" => HandlerBusy(q) /\ req[q].admin # req[r].admin
    BY <1>1, <2>1, <2>3, <2>4 DEF OneMoves, IdsInv, HandlerBusy
  <2>7. \A q \in Requests : req'[q].at = "setup" => ~Exists(req[q].admin)'
    BY <1>1, <1>4, <2>1, <2>4, <2>6 DEF OneMoves, IdsInv, Exists
  <2>8. \A a \in unissued' : ~Exists(a)' /\ Unheld(a)'
    BY <1>1, <1>3, <2>1, <2>2, <2>5 DEF OneMoves, IdsInv, Exists, Unheld
  <2>9. \A q \in Requests : req'[q].at = "setup" =>
          \A p \in Requests \ {q} : HandlerBusy(p)' => req'[p].admin # req'[q].admin
    BY <1>1, <2>4, <2>5 DEF IdsInv
  <2>10. \A q \in Requests : req'[q].at = "setup" => req'[q].row.role = "owner"
    BY <1>1, <2>4 DEF IdsInv
  <2>11. QED
    BY <2>4, <2>7, <2>8, <2>9, <2>10 DEF IdsInv
<1>7. ASSUME NEW x \in Sessions, Create(x) PROVE IdsInv'
  <2>1. PICK a \in unissued : /\ unissued' = unissued \ {a} /\ UNCHANGED req
                              /\ \A b \in Admins : b # a => admins'[b] = admins[b]
    BY <1>2, <1>7 DEF Create, AccessTypeOK
  <2>2. \A q \in Requests : req[q].at = "setup" => HandlerBusy(q) /\ req[q].admin # a
    BY <1>1, <2>1 DEF IdsInv, Unheld, HandlerBusy, NoRequest
  <2>3. QED
    BY <1>1, <1>3, <1>4, <2>1, <2>2 DEF IdsInv, Unheld, HandlerBusy, Exists
<1>8. CASE UNCHANGED <<admins, unissued, req>>
  BY <1>1, <1>8 DEF IdsInv, Unheld, HandlerBusy, Exists
<1>9. CASE AccessRestart
  BY <1>1, <1>9 DEF AccessRestart, IdsInv, Unheld, HandlerBusy, Exists, NoRequest
<1>10. QED
  BY <1>1, <1>5, <1>6, <1>7, <1>8, <1>9 DEF AccessNext, Expire, Revoke, accessVars

-----------------------------------------------------------------------------
(* Roles *)

\* A handler that will write a role back holds the one that stands.
RoleInv ==
    /\ RoleStands
    /\ \A r \in Requests :
         req[r].at \in {"save own", "reset"} /\ standing[req[r].admin] # Unknown
           => req[r].row.role = standing[req[r].admin]

LEMMA RoleInit == AccessInit => RoleInv
<1>1. SUFFICES ASSUME AccessInit PROVE RoleInv
  OBVIOUS
<1>2. \A r \in Requests : req[r].at = "none"
  BY <1>1, Idle DEF AccessInit
<1>3. \A a \in Admins : standing[a] = admins[a].role
  BY <1>1 DEF AccessInit
<1>4. QED
  BY <1>2, <1>3 DEF RoleInv, RoleStands

LEMMA RoleStep == TypeInv /\ IdsInv /\ RoleInv /\ [AccessNext]_accessVars => RoleInv'
<1>1. SUFFICES ASSUME TypeInv, IdsInv, RoleInv, [AccessNext]_accessVars PROVE RoleInv'
  OBVIOUS
<1>2. AccessTypeOK
  BY <1>1 DEF TypeInv
<1>3. /\ req \in [Requests -> Request \cup {NoRequest}] /\ admins \in [Admins -> Account]
      /\ standing \in [Admins -> Roles \cup {"absent", Unknown}] /\ unissued \subseteq Admins
  BY <1>2 DEF AccessTypeOK
<1>4. \A r \in Requests : HandlerBusy(r) => req[r].admin \in Admins
  BY <1>2, BusyType DEF Request
<1>5. \A r \in Requests : req[r].at \in {"save own", "reset"} => HandlerBusy(r)
  BY Idle DEF HandlerBusy
<1>6. ASSUME NEW r \in Requests, Arrive(r) PROVE RoleInv'
  <2>1. PICK phase \in Phase \ {"evict"}, a \in Admins, row \in Account : Arrival(r, phase, a, row)
    BY <1>2, <1>6, Arrives
  <2>2. /\ admins' = admins /\ standing' = standing
        /\ req' = [req EXCEPT ![r] = [at |-> phase, admin |-> a, row |-> row]]
        /\ phase \in {"save own", "reset"} => row.role = admins[a].role
    BY <2>1 DEF Arrival, Start
  <2>3. /\ \A q \in Requests \ {r} : req'[q] = req[q]
        /\ req'[r].admin = a /\ req'[r].at = phase /\ req'[r].row = row
    BY <1>3, <2>2
  <2>4. RoleStands'
    BY <1>1, <2>2 DEF RoleInv, RoleStands
  <2>5. ASSUME NEW q \in Requests, req'[q].at \in {"save own", "reset"}, standing'[req'[q].admin] # Unknown
        PROVE  req'[q].row.role = standing'[req'[q].admin]
    <3>1. CASE q = r
      <4>1. standing[a] # Unknown
        BY <2>2, <2>3, <2>5, <3>1
      <4>2. admins[a].role = standing[a]
        BY <1>1, <4>1 DEF RoleInv, RoleStands
      <4>3. req'[q].row.role = admins[a].role
        BY <2>2, <2>3, <2>5, <3>1
      <4>4. QED
        BY <2>2, <2>3, <3>1, <4>2, <4>3
    <3>2. CASE q # r
      <4>1. req'[q] = req[q] /\ standing' = standing
        BY <2>2, <2>3, <3>2
      <4>2. req[q].at \in {"save own", "reset"} /\ standing[req[q].admin] # Unknown
        BY <2>5, <4>1
      <4>3. QED
        BY <1>1, <4>1, <4>2 DEF RoleInv
    <3>3. QED
      BY <3>1, <3>2
  <2>6. QED
    BY <2>4, <2>5 DEF RoleInv
\* The other writes of an account: nobody else holds it, or its role is unknown.
<1>7. ASSUME NEW a \in Admins,
             \A b \in Admins : b # a => admins'[b] = admins[b] /\ standing'[b] = standing[b],
             standing'[a] # Unknown => admins'[a].role = standing'[a],
             \A q \in Requests : req'[q].at \in {"save own", "reset"} =>
                 /\ req'[q] = req[q]
                 /\ req[q].admin = a => standing'[a] = Unknown
      PROVE  RoleInv'
  <2>1. RoleStands'
    <3>1. ASSUME NEW b \in Admins, standing'[b] # Unknown PROVE admins'[b].role = standing'[b]
      <4>1. CASE b = a
        BY <1>7, <3>1, <4>1
      <4>2. CASE b # a
        BY <1>1, <1>7, <3>1, <4>2 DEF RoleInv, RoleStands
      <4>3. QED
        BY <4>1, <4>2
    <3>2. QED
      BY <3>1 DEF RoleStands
  <2>2. ASSUME NEW q \in Requests, req'[q].at \in {"save own", "reset"}, standing'[req'[q].admin] # Unknown
        PROVE  req'[q].row.role = standing'[req'[q].admin]
    <3>1. req'[q] = req[q] /\ req[q].admin # a
      BY <1>7, <2>2
    <3>2. req[q].admin \in Admins
      BY <1>4, <1>5, <2>2, <3>1
    <3>3. QED
      BY <1>1, <1>7, <2>2, <3>1, <3>2 DEF RoleInv
  <2>3. QED
    BY <2>1, <2>2 DEF RoleInv
<1>8. ASSUME NEW r \in Requests, SaveAccount(r) \/ Delete(r) \/ SaveReset(r) PROVE RoleInv'
  <2>1. OneMoves(r)
    BY <1>2, <1>8, HandleMoves DEF Handle
  <2>2. DEFINE a == req[r].admin
  <2>3. a \in Admins
    BY <1>4, <2>1 DEF OneMoves
  <2>4. \A b \in Admins : b # a => admins'[b] = admins[b] /\ standing'[b] = standing[b]
    BY <1>3, <1>8, <2>1, <2>3 DEF OneMoves, SaveAccount, Delete, SaveReset
  <2>5. standing'[a] # Unknown => admins'[a].role = standing'[a]
    <3>1. CASE SaveAccount(r)
      BY <1>1, <1>3, <2>3, <3>1 DEF SaveAccount, Update, RoleInv
    <3>2. CASE Delete(r)
      BY <1>3, <2>3, <3>2 DEF Delete, NoAccount
    <3>3. CASE SaveReset(r)
      BY <1>1, <1>3, <2>3, <3>3 DEF SaveReset, Update, RoleInv
    <3>4. QED
      BY <1>8, <3>1, <3>2, <3>3
  <2>6. ~Alone(r, a) => standing'[a] = Unknown
    BY <1>3, <1>8, <2>3 DEF SaveAccount, Delete, SaveReset
  <2>7. \A q \in Requests : req'[q].at \in {"save own", "reset"} => q # r /\ req'[q] = req[q]
    BY <2>1, Idle DEF OneMoves
  <2>8. \A q \in Requests : req'[q].at \in {"save own", "reset"} /\ req[q].admin = a => ~Alone(r, a)
    BY <1>5, <2>7 DEF Alone, HandlerBusy
  <2>9. QED
    BY <1>7, <2>3, <2>4, <2>5, <2>6, <2>7, <2>8
<1>9. ASSUME NEW r \in Requests, IssueSession(r) \/ Evict(r) PROVE RoleInv'
  <2>1. OneMoves(r)
    BY <1>2, <1>9, HandleMoves DEF Handle
  <2>2. UNCHANGED <<admins, standing>>
    BY <1>9 DEF IssueSession, Evict
  <2>3. QED
    <3>1. \A q \in Requests : req'[q].at \in {"save own", "reset"} => req'[q] = req[q]
      BY <2>1, Idle DEF OneMoves
    <3>2. QED
      BY <1>1, <2>2, <3>1 DEF RoleInv, RoleStands
<1>10. ASSUME NEW r \in Requests, CreateFirst(r) PROVE RoleInv'
  <2>1. OneMoves(r)
    BY <1>2, <1>10, HandleMoves DEF Handle
  <2>2. DEFINE a == req[r].admin
  <2>3. a \in Admins /\ req[r].at = "setup"
    BY <1>4, <1>10, <2>1 DEF OneMoves, CreateFirst
  <2>4. CASE UNCHANGED <<admins, standing>>
    <3>1. \A q \in Requests : req'[q].at \in {"save own", "reset"} => req'[q] = req[q]
      BY <2>1, Idle DEF OneMoves
    <3>2. QED
      BY <1>1, <2>4, <3>1 DEF RoleInv, RoleStands
  <2>5. CASE admins' = [admins EXCEPT ![a] = req[r].row] /\ standing' = [standing EXCEPT ![a] = "owner"]
    <3>1. /\ req[r].row.role = "owner"
          /\ \A q \in Requests \ {r} : HandlerBusy(q) => req[q].admin # a
      BY <1>1, <2>3 DEF IdsInv
    <3>2. \A b \in Admins : b # a => admins'[b] = admins[b] /\ standing'[b] = standing[b]
      BY <1>3, <2>5
    <3>3. standing'[a] # Unknown => admins'[a].role = standing'[a]
      BY <1>3, <2>3, <2>5, <3>1
    <3>4. \A q \in Requests : req'[q].at \in {"save own", "reset"} =>
             /\ req'[q] = req[q]
             /\ req[q].admin = a => standing'[a] = Unknown
      BY <1>5, <2>1, <3>1, Idle DEF OneMoves
    <3>5. QED
      BY <1>7, <2>3, <3>2, <3>3, <3>4
  <2>6. QED
    BY <1>10, <2>4, <2>5 DEF CreateFirst, Update
<1>11. ASSUME NEW x \in Sessions, Create(x) PROVE RoleInv'
  <2>1. PICK a \in unissued, role \in Roles :
          /\ admins' = [admins EXCEPT ![a] = [role |-> role, pass |-> NewPassword]]
          /\ standing' = [standing EXCEPT ![a] = role]
          /\ UNCHANGED req
    BY <1>11 DEF Create
  <2>2. \A q \in Requests : req[q].at \in {"save own", "reset"} => req[q].admin # a
    BY <1>1, <1>5, <2>1 DEF IdsInv, Unheld
  <2>3. admins'[a].role = role /\ standing'[a] = role
    BY <1>3, <2>1
  <2>4. \A b \in Admins : b # a => admins'[b] = admins[b] /\ standing'[b] = standing[b]
    BY <1>3, <2>1
  <2>5. QED
    BY <1>3, <1>7, <2>1, <2>2, <2>3, <2>4
<1>12. CASE UNCHANGED <<admins, standing, req>>
  BY <1>1, <1>12 DEF RoleInv, RoleStands
<1>13. CASE AccessRestart
  BY <1>1, <1>13, Idle DEF AccessRestart, RoleInv, RoleStands
<1>14. QED
  BY <1>1, <1>6, <1>8, <1>9, <1>10, <1>11, <1>12, <1>13 DEF AccessNext, Handle, Expire, Revoke, accessVars

\* The role an owner gave, or a removal, stands until an owner changes it, as long as
\* no other handler held the account: a password change, a 2FA step or a reset that
\* began later never brings an older role or a removed account back.
THEOREM RoleStandsHolds == AccessSpec => []RoleStands
<1>1. RoleInv => RoleStands
  BY DEF RoleInv
<1>2. QED
  BY <1>1, TypeInit, TypeStep, IdsInit, IdsStep, RoleInit, RoleStep, PTL DEF AccessSpec

-----------------------------------------------------------------------------
(* Owners *)

AnOwner == \E b \in Admins : admins[b].role = "owner"
AnotherOwner(a) == \E b \in Admins : b # a /\ admins[b].role = "owner"

\* As long as no two writers were under way at once: the one there is keeps a role it
\* read, or takes away one it may take away, and the first account remains the last.
OwnerInv ==
    ~crossed =>
      /\ \A r, q \in Writing : r = q
      /\ \A r \in Requests : req[r].at \in {"save own", "reset"} => req[r].row.role = admins[req[r].admin].role
      /\ \A r \in Requests :
           req[r].at = "delete" \/ (req[r].at = "save" /\ req[r].row.role # "owner") =>
             (admins[req[r].admin].role = "owner" => AnotherOwner(req[r].admin))
      /\ setups > 0 => AnOwner
      /\ setups <= 1

LEMMA OwnerInit == AccessInit => OwnerInv
<1>1. SUFFICES ASSUME AccessInit PROVE OwnerInv
  OBVIOUS
<1>2. \A r \in Requests : req[r].at = "none"
  BY <1>1, Idle DEF AccessInit
<1>3. PICK A \in SUBSET Admins :
        /\ admins = [a \in Admins |-> IF a \in A THEN [role |-> "owner", pass |-> 1] ELSE NoAccount]
        /\ setups = IF A = {} THEN 0 ELSE 1
  BY <1>1 DEF AccessInit
<1>4. setups > 0 => AnOwner
  BY <1>3 DEF AnOwner
<1>5. setups <= 1
  BY <1>3
<1>6. Writing = {}
  BY <1>2 DEF Writing
<1>7. QED
  BY <1>2, <1>4, <1>5, <1>6 DEF OwnerInv

LEMMA OwnerStep == TypeInv /\ IdsInv /\ OwnerInv /\ [AccessNext]_accessVars => OwnerInv'
<1>1. SUFFICES ASSUME TypeInv, IdsInv, OwnerInv, [AccessNext]_accessVars, ~crossed' PROVE OwnerInv'
  BY DEF OwnerInv
<1>2. AccessTypeOK
  BY <1>1 DEF TypeInv
<1>3. /\ req \in [Requests -> Request \cup {NoRequest}] /\ admins \in [Admins -> Account]
      /\ unissued \subseteq Admins /\ setups \in Nat
  BY <1>2 DEF AccessTypeOK
<1>4. \A r \in Requests : HandlerBusy(r) => req[r].admin \in Admins
  BY <1>2, BusyType DEF Request
<1>5. \A r \in Requests : req[r].at # "none" => HandlerBusy(r)
  BY Idle DEF HandlerBusy
<1>6. ASSUME NEW r \in Requests, Arrive(r) PROVE OwnerInv'
  <2>1. PICK phase \in Phase \ {"evict"}, a \in Admins, row \in Account : Arrival(r, phase, a, row)
    BY <1>2, <1>6, Arrives
  <2>2. /\ admins' = admins /\ setups' = setups
        /\ req' = [req EXCEPT ![r] = [at |-> phase, admin |-> a, row |-> row]]
        /\ crossed' = (crossed \/ (phase \notin {"login", "setup"} /\ Writing # {}))
    BY <2>1 DEF Arrival, Start
  <2>3. /\ \A q \in Requests \ {r} : req'[q] = req[q]
        /\ req'[r].admin = a /\ req'[r].at = phase /\ req'[r].row = row
    BY <1>3, <2>2
  <2>4. ~crossed /\ (phase \in {"login", "setup"} \/ Writing = {})
    BY <1>1, <2>2
  <2>5. \A p, q \in Writing' : p = q
    BY <1>1, <2>3, <2>4 DEF OwnerInv, Writing
  <2>6. phase \in {"save own", "reset"} => row.role = admins[a].role
    BY <2>1 DEF Arrival
  <2>7. phase = "delete" \/ (phase = "save" /\ row.role # "owner") =>
          (admins[a].role = "owner" => AnotherOwner(a))
    BY <2>1 DEF Arrival, AnotherOwner
  <2>8. \A q \in Requests : req'[q].at \in {"save own", "reset"} => req'[q].row.role = admins[req'[q].admin].role
    BY <1>1, <2>3, <2>4, <2>6 DEF OwnerInv
  <2>9. \A q \in Requests :
          req'[q].at = "delete" \/ (req'[q].at = "save" /\ req'[q].row.role # "owner") =>
            (admins[req'[q].admin].role = "owner" => AnotherOwner(req'[q].admin))
    BY <1>1, <2>3, <2>4, <2>7 DEF OwnerInv
  <2>10. /\ (setups > 0 => AnOwner)' /\ (setups <= 1)'
         /\ \A a2 \in Admins : AnotherOwner(a2)' <=> AnotherOwner(a2)
    BY <1>1, <2>2, <2>4 DEF OwnerInv, AnOwner, AnotherOwner
  <2>11. QED
    BY <2>2, <2>5, <2>8, <2>9, <2>10 DEF OwnerInv, AnotherOwner
\* The Save or DELETE of the only writer: none is left, and an owner is.
<1>7. ASSUME NEW r \in Requests, SaveAccount(r) \/ Delete(r) \/ SaveReset(r) PROVE OwnerInv'
  <2>1. OneMoves(r) /\ ~crossed /\ setups' = setups
    <3>1. OneMoves(r)
      BY <1>2, <1>7, HandleMoves DEF Handle
    <3>2. setups' = setups
      BY <1>7 DEF SaveAccount, Delete, SaveReset
    <3>3. QED
      BY <1>1, <3>1, <3>2 DEF OneMoves
  <2>2. r \in Writing
    BY <1>7 DEF Writing, SaveAccount, Delete, SaveReset
  <2>3. \A q \in Requests \ {r} : q \notin Writing
    BY <1>1, <2>1, <2>2 DEF OwnerInv
  <2>4. \A q \in Requests : req'[q].at \notin {"save", "save own", "delete", "reset"}
    BY <2>1, <2>3, Idle DEF OneMoves, Writing
  <2>5. DEFINE a == req[r].admin
  <2>6. a \in Admins /\ \A b \in Admins : b # a => admins'[b] = admins[b]
    BY <1>4, <2>1 DEF OneMoves
  <2>7. AnotherOwner(a) => AnOwner'
    BY <2>6 DEF AnotherOwner, AnOwner
  <2>8. AnOwner /\ admins[a].role # "owner" => AnotherOwner(a)
    BY DEF AnotherOwner, AnOwner
  <2>9. admins'[a].role = "owner" => AnOwner'
    BY <2>6 DEF AnOwner
  <2>10. AnOwner => AnOwner'
    <3>0. SUFFICES ASSUME AnOwner PROVE AnOwner'
      OBVIOUS
    <3>1. CASE SaveAccount(r) /\ req[r].at = "save"
      <4>1. admins'[a] = req[r].row
        BY <1>3, <2>6, <3>1 DEF SaveAccount, Update
      <4>2. req[r].row.role # "owner" => (admins[a].role = "owner" => AnotherOwner(a))
        BY <1>1, <2>1, <3>1 DEF OwnerInv
      <4>3. QED
        BY <2>7, <2>8, <2>9, <3>0, <4>1, <4>2
    <3>2. CASE (SaveAccount(r) /\ req[r].at = "save own") \/ SaveReset(r)
      <4>1. admins'[a].role = admins[a].role
        BY <1>1, <1>3, <2>1, <2>6, <3>2 DEF SaveAccount, SaveReset, Update, OwnerInv
      <4>2. QED
        BY <2>7, <2>8, <2>9, <3>0, <4>1
    <3>3. CASE Delete(r)
      <4>1. admins[a].role = "owner" => AnotherOwner(a)
        BY <1>1, <2>1, <3>3 DEF Delete, OwnerInv
      <4>2. QED
        BY <2>7, <2>8, <3>0, <4>1
    <3>4. QED
      BY <1>7, <3>1, <3>2, <3>3 DEF SaveAccount
  <2>11. setups > 0 => AnOwner'
    BY <1>1, <2>1, <2>10 DEF OwnerInv
  <2>12. QED
    BY <1>1, <2>1, <2>4, <2>11 DEF OwnerInv, Writing
\* A step that touches no account and moves no writer.
<1>8. ASSUME UNCHANGED <<admins, setups>>, ~crossed,
             \A q \in Requests : req'[q].at \in {"save", "save own", "delete", "reset"} => req'[q] = req[q]
      PROVE  OwnerInv'
  <2>1. \A q \in Writing' : q \in Writing /\ req'[q] = req[q]
    BY <1>8 DEF Writing
  <2>2. \A p, q \in Writing' : p = q
    BY <1>1, <1>8, <2>1 DEF OwnerInv
  <2>3. \A q \in Requests : req'[q].at \in {"save own", "reset"} => req'[q].row.role = admins[req'[q].admin].role
    BY <1>1, <1>8 DEF OwnerInv
  <2>4. \A q \in Requests :
          req'[q].at = "delete" \/ (req'[q].at = "save" /\ req'[q].row.role # "owner") =>
            (admins[req'[q].admin].role = "owner" => AnotherOwner(req'[q].admin))
    BY <1>1, <1>8 DEF OwnerInv
  <2>5. QED
    BY <1>1, <1>8, <2>2, <2>3, <2>4 DEF OwnerInv, AnOwner, AnotherOwner
<1>9. ASSUME NEW r \in Requests, IssueSession(r) \/ Evict(r) PROVE OwnerInv'
  <2>1. OneMoves(r) /\ UNCHANGED <<admins, setups, crossed>>
    BY <1>2, <1>9, HandleMoves DEF Handle, IssueSession, Evict
  <2>2. QED
    <3>1. \A q \in Requests : req'[q].at \in {"save", "save own", "delete", "reset"} => req'[q] = req[q]
      BY <2>1, Idle DEF OneMoves
    <3>2. QED
      BY <1>1, <1>8, <2>1, <3>1
\* A new account, held by no writer, that had no row.
<1>10. ASSUME NEW a \in Admins, ~Exists(a), \A b \in Admins : b # a => admins'[b] = admins[b], ~crossed,
              \A q \in Requests : req'[q].at \in {"save", "save own", "delete", "reset"}
                 => req'[q] = req[q] /\ req[q].admin # a,
              setups' > 0 => AnOwner', setups' <= 1
       PROVE  OwnerInv'
  <2>1. \A q \in Writing' : q \in Writing /\ req'[q] = req[q]
    BY <1>10 DEF Writing
  <2>2. \A p, q \in Writing' : p = q
    BY <1>1, <1>10, <2>1 DEF OwnerInv
  <2>3. \A q \in Requests : req'[q].at \in {"save", "save own", "delete", "reset"}
           => req'[q].admin \in Admins /\ admins'[req'[q].admin] = admins[req'[q].admin]
    BY <1>4, <1>5, <1>10
  <2>4. \A c \in Admins : AnotherOwner(c) => AnotherOwner(c)'
    BY <1>10 DEF AnotherOwner, Exists
  <2>5. \A q \in Requests : req'[q].at \in {"save own", "reset"} => req'[q].row.role = admins'[req'[q].admin].role
    <3>1. \A q \in Requests : req[q].at \in {"save own", "reset"} => req[q].row.role = admins[req[q].admin].role
      BY <1>1, <1>10 DEF OwnerInv
    <3>2. ASSUME NEW q \in Requests, req'[q].at \in {"save own", "reset"}
          PROVE  req'[q].row.role = admins'[req'[q].admin].role
      <4>1. req'[q] = req[q] /\ admins'[req'[q].admin] = admins[req'[q].admin]
        BY <1>10, <2>3, <3>2
      <4>2. QED
        BY <3>1, <3>2, <4>1
    <3>3. QED
      BY <3>2
  <2>6. ASSUME NEW q \in Requests,
               req'[q].at = "delete" \/ (req'[q].at = "save" /\ req'[q].row.role # "owner"),
               admins'[req'[q].admin].role = "owner"
        PROVE  \E b \in Admins : b # req'[q].admin /\ admins'[b].role = "owner"
    <3>1. req'[q] = req[q] /\ req[q].admin \in Admins /\ admins[req[q].admin].role = "owner"
      BY <1>10, <2>3, <2>6
    <3>2. AnotherOwner(req[q].admin)
      BY <1>1, <1>10, <2>6, <3>1 DEF OwnerInv
    <3>3. QED
      BY <1>10, <3>1, <3>2 DEF AnotherOwner, Exists
  <2>7. QED
    BY <1>10, <2>2, <2>5, <2>6 DEF OwnerInv, AnotherOwner
<1>11. ASSUME NEW r \in Requests, CreateFirst(r) PROVE OwnerInv'
  <2>1. OneMoves(r) /\ ~crossed /\ req[r].at = "setup"
    BY <1>1, <1>2, <1>11, HandleMoves DEF Handle, OneMoves, CreateFirst
  <2>2. \A q \in Requests : req'[q].at \in {"save", "save own", "delete", "reset"} => q # r /\ req'[q] = req[q]
    BY <2>1, Idle DEF OneMoves
  <2>3. CASE UNCHANGED <<admins, setups>>
    BY <1>8, <2>1, <2>2, <2>3
  <2>4. CASE \A b \in Admins : ~Exists(b)
    <3>1. DEFINE a == req[r].admin
    <3>2. a \in Admins /\ ~Exists(a) /\ req[r].row.role = "owner"
      BY <1>1, <1>4, <2>1 DEF OneMoves, IdsInv
    <3>3. \A q \in Requests : req'[q].at \in {"save", "save own", "delete", "reset"} => req[q].admin # a
      BY <1>1, <1>5, <2>1, <2>2 DEF IdsInv
    <3>4. admins' = [admins EXCEPT ![a] = req[r].row] /\ setups' = setups + 1
      BY <1>11, <2>4 DEF CreateFirst, Update
    <3>5. setups = 0
      <4>1. ~AnOwner
        BY <2>4 DEF AnOwner, Exists
      <4>2. setups > 0 => AnOwner
        BY <1>1, <2>1 DEF OwnerInv
      <4>3. QED
        BY <1>3, <4>1, <4>2
    <3>6. AnOwner'
      BY <1>3, <3>2, <3>4 DEF AnOwner
    <3>7. \A b \in Admins : b # a => admins'[b] = admins[b]
      BY <1>3, <3>4
    <3>8. setups' <= 1
      BY <3>4, <3>5
    <3>9. QED
      BY <1>10, <2>1, <2>2, <3>2, <3>3, <3>6, <3>7, <3>8
  <2>5. QED
    BY <1>11, <2>3, <2>4 DEF CreateFirst
<1>12. ASSUME NEW x \in Sessions, Create(x) PROVE OwnerInv'
  <2>1. PICK a \in unissued, role \in Roles :
          /\ admins' = [admins EXCEPT ![a] = [role |-> role, pass |-> NewPassword]]
          /\ UNCHANGED <<req, setups, crossed>>
    BY <1>12 DEF Create
  <2>2. ~Exists(a) /\ \A q \in Requests : HandlerBusy(q) => req[q].admin # a
    BY <1>1, <2>1 DEF IdsInv, Unheld
  <2>3. \A q \in Requests : req'[q].at \in {"save", "save own", "delete", "reset"}
           => req'[q] = req[q] /\ req[q].admin # a
    BY <1>5, <2>1, <2>2
  <2>4. \A b \in Admins : b # a => admins'[b] = admins[b]
    BY <1>3, <2>1
  <2>5. AnOwner => AnOwner'
    BY <2>2, <2>4 DEF AnOwner, Exists
  <2>6. setups > 0 => AnOwner
    BY <1>1, <2>1 DEF OwnerInv
  <2>7. setups <= 1
    BY <1>1, <2>1 DEF OwnerInv
  <2>8. QED
    BY <1>1, <1>3, <1>10, <2>1, <2>2, <2>3, <2>4, <2>5, <2>6, <2>7
<1>13. CASE UNCHANGED <<admins, setups, crossed, req>>
  BY <1>1, <1>8, <1>13
<1>14. CASE AccessRestart
  BY <1>1, <1>8, <1>14, Idle DEF AccessRestart
<1>15. QED
  BY <1>1, <1>6, <1>7, <1>9, <1>11, <1>12, <1>13, <1>14 DEF AccessNext, Handle, Expire, Revoke, accessVars

\* Once set up, the manager has an owner, as long as no two handlers that write
\* accounts were under way at once: the count of owners suffices one at a time.
THEOREM OwnerRemainsHolds == AccessSpec => []OwnerRemains
<1>1. OwnerInv => OwnerRemains
  BY DEF OwnerInv, OwnerRemains, AnOwner, Owners
<1>2. QED
  BY <1>1, TypeInit, TypeStep, IdsInit, IdsStep, OwnerInit, OwnerStep, PTL DEF AccessSpec

\* Setup succeeds once, however many setups race with each other.
THEOREM SetupOnceHolds == AccessSpec => []SetupOnce
<1>1. OwnerInv => SetupOnce
  BY DEF OwnerInv, SetupOnce
<1>2. QED
  BY <1>1, TypeInit, TypeStep, IdsInit, IdsStep, OwnerInit, OwnerStep, PTL DEF AccessSpec

-----------------------------------------------------------------------------
(* Resets *)

\* No account, no handler and no session is older than the reset that evicted it.
ResetInv ==
    /\ \A a \in Admins : evicted[a] <= passwords /\ admins[a].pass <= passwords
    /\ \A a \in Admins : admins[a].role # "absent" => evicted[a] <= admins[a].pass
    /\ \A r \in Requests : HandlerBusy(r) => req[r].row.pass <= passwords
    /\ \A r \in Requests : HandlerBusy(r) => evicted[req[r].admin] <= req[r].row.pass
    /\ ResetEvicts

LEMMA ResetInit == AccessInit => ResetInv
<1>1. SUFFICES ASSUME AccessInit PROVE ResetInv
  OBVIOUS
<1>2. PICK A \in SUBSET Admins :
        admins = [a \in Admins |-> IF a \in A THEN [role |-> "owner", pass |-> 1] ELSE NoAccount]
  BY <1>1 DEF AccessInit
<1>3. \A a \in Admins : admins[a].pass \in {0, 1} /\ evicted[a] = 0
  BY <1>1, <1>2 DEF AccessInit, NoAccount
<1>4. \A x \in Sessions : ~sessions[x].live
  BY <1>1 DEF AccessInit, NoSession
<1>5. \A r \in Requests : ~HandlerBusy(r)
  BY <1>1 DEF AccessInit, HandlerBusy
<1>6. passwords = 1
  BY <1>1 DEF AccessInit
<1>7. QED
  BY <1>3, <1>4, <1>5, <1>6 DEF ResetInv, ResetEvicts

LEMMA ResetStep == TypeInv /\ ResetInv /\ [AccessNext]_accessVars => ResetInv'
<1>1. SUFFICES ASSUME TypeInv, ResetInv, [AccessNext]_accessVars PROVE ResetInv'
  OBVIOUS
<1>2. AccessTypeOK
  BY <1>1 DEF TypeInv
<1>3. /\ req \in [Requests -> Request \cup {NoRequest}] /\ admins \in [Admins -> Account]
      /\ unissued \subseteq Admins /\ passwords \in Nat /\ evicted \in [Admins -> Nat]
      /\ sessions \in [Sessions -> Session \cup {NoSession}]
  BY <1>2 DEF AccessTypeOK
<1>4. \A r \in Requests : HandlerBusy(r) => req[r].admin \in Admins /\ req[r].row.pass \in Nat
  BY <1>2, BusyType DEF Request, Account
<1>5. \A a \in Admins : admins[a].pass \in Nat /\ evicted[a] \in Nat
  BY <1>3 DEF Account
<1>6. \A x \in Sessions : sessions[x].live => sessions[x] \in Session /\ sessions[x].admin \in Admins
  <2>1. ~NoSession.live
    BY DEF NoSession
  <2>2. QED
    BY <1>3, <2>1 DEF Session
<1>7. /\ \A a \in Admins : evicted[a] <= passwords
      /\ \A a \in Admins : admins[a].pass <= passwords
      /\ \A a \in Admins : admins[a].role # "absent" => evicted[a] <= admins[a].pass
      /\ \A r \in Requests : HandlerBusy(r) => req[r].row.pass <= passwords
      /\ \A r \in Requests : HandlerBusy(r) => evicted[req[r].admin] <= req[r].row.pass
      /\ \A x \in Sessions : sessions[x].live => sessions[x].pass >= evicted[sessions[x].admin]
  BY <1>1 DEF ResetInv, ResetEvicts
<1>8. ASSUME NEW r \in Requests, Arrive(r) PROVE ResetInv'
  <2>1. PICK phase \in Phase \ {"evict"}, a \in Admins, row \in Account : Arrival(r, phase, a, row)
    BY <1>2, <1>8, Arrives
  <2>2. /\ UNCHANGED <<admins, sessions, evicted>> /\ passwords' \in {passwords, passwords + 1}
        /\ req' = [req EXCEPT ![r] = [at |-> phase, admin |-> a, row |-> row]]
    BY <2>1 DEF Arrival, Start, NewPassword
  <2>3. /\ \A q \in Requests \ {r} : req'[q] = req[q]
        /\ req'[r].admin = a /\ req'[r].row = row
    BY <1>3, <2>2
  <2>4. passwords' \in Nat /\ passwords <= passwords'
    BY <1>3, <2>2
  <2>5. row.pass \in Nat
    BY DEF Account
  <2>6. row.pass <= passwords' /\ evicted[a] <= row.pass
    <3>1. CASE phase = "setup"
      <4>1. row.pass = passwords + 1 /\ passwords' = passwords + 1
        BY <2>1, <3>1 DEF Arrival, NewPassword
      <4>2. evicted[a] <= passwords /\ evicted[a] \in Nat
        BY <1>5, <1>7
      <4>3. QED
        BY <1>3, <4>1, <4>2
    <3>2. CASE phase # "setup"
      <4>1. Exists(a) /\ row.pass \in {admins[a].pass, passwords'}
        BY <2>1, <3>2 DEF Arrival
      <4>2. /\ evicted[a] <= passwords /\ evicted[a] \in Nat /\ evicted[a] <= admins[a].pass
            /\ admins[a].pass <= passwords /\ admins[a].pass \in Nat
        BY <1>5, <1>7, <4>1 DEF Exists
      <4>3. QED
        BY <1>3, <2>4, <4>1, <4>2
    <3>3. QED
      BY <3>1, <3>2
  <2>7. \A b \in Admins : evicted[b] <= passwords' /\ admins[b].pass <= passwords'
    <3>1. ASSUME NEW b \in Admins PROVE evicted[b] <= passwords' /\ admins[b].pass <= passwords'
      <4>1. /\ evicted[b] <= passwords /\ evicted[b] \in Nat
            /\ admins[b].pass <= passwords /\ admins[b].pass \in Nat
        BY <1>5, <1>7
      <4>2. QED
        BY <1>3, <2>4, <4>1
    <3>2. QED
      BY <3>1
  <2>8. \A q \in Requests : HandlerBusy(q)' =>
          req'[q].row.pass <= passwords' /\ evicted[req'[q].admin] <= req'[q].row.pass
    <3>1. ASSUME NEW q \in Requests \ {r}, HandlerBusy(q)'
          PROVE  req'[q].row.pass <= passwords' /\ evicted[req'[q].admin] <= req'[q].row.pass
      <4>1. HandlerBusy(q) /\ req'[q] = req[q]
        BY <2>3, <3>1 DEF HandlerBusy
      <4>2. QED
        BY <1>3, <1>4, <1>7, <2>4, <4>1
    <3>2. QED
      BY <2>3, <2>6, <3>1
  <2>9. ResetEvicts'
    BY <1>7, <2>2 DEF ResetEvicts
  <2>10. QED
    BY <1>7, <2>2, <2>7, <2>8, <2>9 DEF ResetInv
\* The steps after which every account is unchanged, gone or the row of a handler,
\* and no new reset has evicted anybody.
<1>9. ASSUME UNCHANGED <<evicted, passwords>>,
             \A q \in Requests : HandlerBusy(q)' => HandlerBusy(q) /\ req'[q].admin = req[q].admin /\ req'[q].row = req[q].row,
             \A b \in Admins : \/ admins'[b] = admins[b] \/ admins'[b] = NoAccount
                              \/ \E r \in Requests : HandlerBusy(r) /\ req[r].admin = b /\ admins'[b] = req[r].row,
             \A x \in Sessions : sessions'[x].live =>
                 sessions'[x].pass >= evicted[sessions'[x].admin]
      PROVE  ResetInv'
  <2>1. NoAccount.pass = 0 /\ NoAccount.role = "absent"
    BY DEF NoAccount
  <2>2. \A b \in Admins : /\ evicted[b] <= passwords /\ admins'[b].pass <= passwords
                          /\ admins'[b].role # "absent" => evicted[b] <= admins'[b].pass
    BY <1>3, <1>7, <1>9, <2>1 DEF Exists
  <2>3. \A q \in Requests : HandlerBusy(q)' =>
          req'[q].row.pass <= passwords /\ evicted[req'[q].admin] <= req'[q].row.pass
    BY <1>7, <1>9
  <2>4. ResetEvicts'
    BY <1>9 DEF ResetEvicts
  <2>5. QED
    BY <1>9, <2>2, <2>3, <2>4 DEF ResetInv
<1>10. ASSUME NEW r \in Requests, Handle(r)
       PROVE  \A q \in Requests : HandlerBusy(q)' => HandlerBusy(q) /\ req'[q].admin = req[q].admin /\ req'[q].row = req[q].row
  <2>1. OneMoves(r)
    BY <1>2, <1>10, HandleMoves
  <2>2. QED
    BY <2>1 DEF OneMoves, HandlerBusy
<1>11. ASSUME NEW r \in Requests, CreateFirst(r) \/ SaveAccount(r) \/ Delete(r) \/ SaveReset(r)
       PROVE  ResetInv'
  <2>1. OneMoves(r)
    BY <1>2, <1>11, HandleMoves DEF Handle
  <2>2. HandlerBusy(r) /\ req[r].admin \in Admins /\ \A b \in Admins : b # req[r].admin => admins'[b] = admins[b]
    BY <1>4, <2>1 DEF OneMoves
  <2>3. admins'[req[r].admin] \in {admins[req[r].admin], NoAccount, req[r].row}
    BY <1>3, <1>11, <2>2 DEF CreateFirst, SaveAccount, Delete, SaveReset, Update
  <2>4. UNCHANGED <<evicted, passwords, sessions>>
    BY <1>11 DEF CreateFirst, SaveAccount, Delete, SaveReset
  <2>5. QED
    BY <1>7, <1>9, <1>10, <1>11, <2>2, <2>3, <2>4 DEF Handle
<1>12. ASSUME NEW r \in Requests, IssueSession(r) PROVE ResetInv'
  <2>1. PICK x \in Sessions : sessions' = [sessions EXCEPT ![x] =
                           [admin |-> req[r].admin, role |-> req[r].row.role,
                            pass |-> req[r].row.pass, live |-> TRUE]]
    BY <1>12 DEF IssueSession
  <2>2. HandlerBusy(r)
    BY <1>2, <1>12, HandleMoves DEF Handle, OneMoves
  <2>3. req[r].row.pass >= evicted[req[r].admin]
    BY <1>4, <1>5, <1>7, <2>2
  <2>4. \A y \in Sessions : sessions'[y].live => sessions'[y].pass >= evicted[sessions'[y].admin]
    BY <1>3, <1>7, <2>1, <2>3
  <2>5. UNCHANGED <<evicted, passwords, admins>>
    BY <1>12 DEF IssueSession
  <2>6. QED
    BY <1>9, <1>10, <1>12, <2>4, <2>5 DEF Handle
\* The reset revokes the account's sessions; what it evicts nobody holds any more.
<1>13. ASSUME NEW r \in Requests, Evict(r) PROVE ResetInv'
  <2>1. OneMoves(r)
    BY <1>2, <1>13, HandleMoves DEF Handle
  <2>2. DEFINE a == req[r].admin
  <2>3. HandlerBusy(r) /\ a \in Admins /\ req[r].row.pass \in Nat
    BY <1>4, <2>1 DEF OneMoves
  <2>4. UNCHANGED <<admins, passwords>>
    BY <1>13 DEF Evict
  <2>5. CASE UNCHANGED <<sessions, evicted>>
    BY <1>7, <1>9, <1>10, <1>13, <2>4, <2>5 DEF Handle
  <2>6. CASE RevokeAllForAdmin(a) /\ evicted' = [evicted EXCEPT ![a] =
                  IF Alone(r, a) /\ admins[a].pass = req[r].row.pass THEN req[r].row.pass ELSE @]
    <3>1. \A x \in Sessions : sessions'[x].live =>
             sessions'[x] = sessions[x] /\ sessions[x].admin # a /\ sessions[x].admin \in Admins
      <4>1. ASSUME NEW x \in Sessions, sessions[x].live, sessions[x].admin = a
            PROVE  ~sessions'[x].live
        <5>1. sessions'[x] = [sessions[x] EXCEPT !.live = FALSE] /\ sessions[x] \in Session
          BY <1>6, <2>6, <4>1 DEF RevokeAllForAdmin
        <5>2. QED
          BY <5>1 DEF Session
      <4>2. ASSUME NEW x \in Sessions, ~(sessions[x].live /\ sessions[x].admin = a)
            PROVE  sessions'[x] = sessions[x]
        BY <2>6, <4>2 DEF RevokeAllForAdmin
      <4>3. QED
        BY <1>6, <4>1, <4>2
    <3>2. \A x \in Sessions : sessions'[x].live => sessions'[x].pass >= evicted'[sessions'[x].admin]
      BY <1>3, <1>7, <2>6, <3>1
    <3>3. CASE Alone(r, a) /\ admins[a].pass = req[r].row.pass
      <4>1. evicted'[a] = req[r].row.pass /\ \A b \in Admins : b # a => evicted'[b] = evicted[b]
        BY <1>3, <2>3, <2>6, <3>3
      <4>2. \A q \in Requests : HandlerBusy(q)' => HandlerBusy(q) /\ req'[q] = req[q] /\ req[q].admin # a
        <5>1. req'[r] = NoRequest
          BY <1>3, <1>13 DEF Evict, Finish
        <5>2. QED
          BY <2>1, <3>3, <5>1 DEF OneMoves, Alone, HandlerBusy
      <4>3. \A b \in Admins : /\ evicted'[b] <= passwords /\ admins[b].pass <= passwords
                              /\ admins[b].role # "absent" => evicted'[b] <= admins[b].pass
        BY <1>5, <1>7, <2>3, <3>3, <4>1
      <4>4. \A q \in Requests : HandlerBusy(q)' =>
              req'[q].row.pass <= passwords /\ evicted'[req'[q].admin] <= req'[q].row.pass
        BY <1>4, <1>7, <4>1, <4>2
      <4>5. ResetEvicts'
        BY <3>2 DEF ResetEvicts
      <4>6. QED
        BY <2>4, <4>3, <4>4, <4>5 DEF ResetInv
    <3>4. CASE ~(Alone(r, a) /\ admins[a].pass = req[r].row.pass)
      <4>1. evicted' = evicted
        BY <1>3, <2>6, <3>4
      <4>2. QED
        BY <1>9, <1>10, <1>13, <2>4, <3>2, <4>1 DEF Handle
    <3>5. QED
      BY <3>3, <3>4
  <2>7. QED
    BY <1>13, <2>5, <2>6 DEF Evict
<1>14. ASSUME NEW x \in Sessions, Create(x) PROVE ResetInv'
  <2>1. PICK a \in unissued, role \in Roles :
          admins' = [admins EXCEPT ![a] = [role |-> role, pass |-> NewPassword]]
    BY <1>14 DEF Create
  <2>2. UNCHANGED <<sessions, req, evicted>> /\ passwords' = passwords + 1
    BY <1>14 DEF Create, NewPassword
  <2>3. admins'[a].pass = passwords + 1 /\ \A b \in Admins : b # a => admins'[b] = admins[b]
    BY <1>3, <2>1 DEF NewPassword
  <2>4. \A b \in Admins : /\ evicted[b] <= passwords + 1 /\ admins'[b].pass <= passwords + 1
                          /\ admins'[b].role # "absent" => evicted[b] <= admins'[b].pass
    <3>1. ASSUME NEW b \in Admins
          PROVE  /\ evicted[b] <= passwords + 1 /\ admins'[b].pass <= passwords + 1
                 /\ admins'[b].role # "absent" => evicted[b] <= admins'[b].pass
      <4>1. /\ evicted[b] <= passwords /\ evicted[b] \in Nat
            /\ admins[b].pass <= passwords /\ admins[b].pass \in Nat
            /\ admins[b].role # "absent" => evicted[b] <= admins[b].pass
        BY <1>5, <1>7 DEF Exists
      <4>2. admins'[b].pass = passwords + 1 \/ admins'[b] = admins[b]
        BY <2>3
      <4>3. QED
        BY <1>3, <4>1, <4>2
    <3>2. QED
      BY <3>1
  <2>5. \A q \in Requests : HandlerBusy(q) => req[q].row.pass <= passwords + 1
    BY <1>3, <1>4, <1>7
  <2>6. ResetEvicts'
    BY <1>7, <2>2 DEF ResetEvicts
  <2>7. \A q \in Requests : HandlerBusy(q)' => HandlerBusy(q) /\ req'[q] = req[q]
    BY <2>2 DEF HandlerBusy
  <2>8. QED
    BY <1>7, <2>2, <2>4, <2>5, <2>6, <2>7 DEF ResetInv
<1>15. ASSUME NEW x \in Sessions, sessions[x].live, sessions' = [sessions EXCEPT ![x].live = FALSE],
              UNCHANGED <<admins, req, passwords, evicted>>
       PROVE  ResetInv'
  <2>1. sessions[x] \in Session
    BY <1>6, <1>15
  <2>2. \A y \in Sessions : sessions'[y].live => sessions'[y] = sessions[y]
    BY <1>3, <1>15, <2>1 DEF Session
  <2>3. QED
    BY <1>7, <1>9, <1>15, <2>2 DEF HandlerBusy
<1>16. CASE AccessRestart
  <2>1. \A q \in Requests : ~HandlerBusy(q)'
    BY <1>16 DEF AccessRestart, HandlerBusy
  <2>2. QED
    BY <1>7, <1>9, <1>16, <2>1 DEF AccessRestart
<1>17. CASE UNCHANGED accessVars
  BY <1>7, <1>9, <1>17 DEF accessVars, HandlerBusy
<1>18. QED
  BY <1>1, <1>8, <1>11, <1>12, <1>13, <1>14, <1>15, <1>16, <1>17 DEF AccessNext, Handle, Expire, Revoke

\* After a local reset that no other handler of the account overlapped, every session
\* of the account was opened with a password chosen no earlier.
THEOREM ResetEvictsHolds == AccessSpec => []ResetEvicts
<1>1. ResetInv => ResetEvicts
  BY DEF ResetInv
<1>2. QED
  BY <1>1, TypeInit, TypeStep, ResetInit, ResetStep, PTL DEF AccessSpec
=============================================================================
