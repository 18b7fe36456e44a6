---------------------------- MODULE SignInProofs ----------------------------
(* Signing in: the safety properties of Passkeys, Login and Tokens, for any      *)
(* requests, challenges, accounts, tokens and bounds.                           *)
EXTENDS Login, Passkeys, Tokens, SequenceTheorems, FiniteSetTheorems, TLAPS

-----------------------------------------------------------------------------
(* Passkeys: records *)

\* An entry of the store is neither of the marks of an id that has none.
LEMMA EntryIsStored ==
    ASSUME NEW e \in Challenge
    PROVE  e # Unissued /\ e # Gone
<1>1. DOMAIN e = {"for", "expires"}
  BY DEF Challenge
<1>2. DOMAIN Unissued = {"for"} /\ DOMAIN Gone = {"for"}
  BY DEF Unissued, Gone
<1>3. QED
  BY <1>1, <1>2

LEMMA MarksDiffer == Unissued # Gone
<1>1. Unissued.for = "unissued" /\ Gone.for = "gone"
  BY DEF Unissued, Gone
<1>2. QED
  BY <1>1

\* A handler under way is not Free, and the other way round.
LEMMA FreeIsNoHandler == Free \notin Handler /\ Free.at = "idle"
<1>1. Free.at = "idle"
  BY DEF Free
<1>2. \A h \in Handler : h.at # "idle"
  BY DEF Handler
<1>3. QED
  BY <1>1, <1>2

-----------------------------------------------------------------------------
(* Passkeys: types *)

LEMMA PutTypes ==
    ASSUME PasskeysTypeOK, NEW c \in Challenges, NEW for \in Admins \cup {"login"}, Put(c, for)
    PROVE  challenges' \in [Challenges -> Challenge \cup {Unissued, Gone}]
<1>1. [for |-> for, expires |-> now + ChallengeTTL] \in Challenge
  BY PasskeysAssumption, ClockAssumption DEF PasskeysTypeOK, Challenge
<1>2. QED
  BY <1>1 DEF PasskeysTypeOK, Put

LEMMA TakeTypes ==
    ASSUME PasskeysTypeOK, NEW c \in Challenges, Take(c)
    PROVE  /\ challenges' \in [Challenges -> Challenge \cup {Unissued, Gone}]
           /\ redeemed' \in [Challenges -> Nat]
BY DEF PasskeysTypeOK, Take

LEMMA PasskeysInitTypes == PasskeysInit => PasskeysTypeOK
BY PasskeysAssumption, ClockAssumption DEF PasskeysInit, PasskeysTypeOK

LEMMA PasskeysStepTypes ==
    ASSUME PasskeysTypeOK, PasskeysNext
    PROVE  PasskeysTypeOK'
<1>1. ASSUME NEW c \in Challenges, NEW for \in Admins \cup {"login"}, Begin(c, for)
      PROVE  PasskeysTypeOK'
  BY <1>1, PutTypes, PasskeysAssumption DEF PasskeysTypeOK, Begin, Serve
<1>2. ASSUME NEW r \in Finishers, NEW c \in Challenges, LoginTake(r, c)
      PROVE  PasskeysTypeOK'
  <2>1. [at |-> "login", admin |-> "unknown", key |-> NoKey] \in Handler
    BY DEF Handler
  <2>2. finish' \in [Finishers -> Handler \cup {Free}]
    BY <1>2, <2>1 DEF PasskeysTypeOK, LoginTake
  <2>3. QED
    BY <1>2, <2>2, TakeTypes, PasskeysAssumption DEF PasskeysTypeOK, LoginTake, Serve
<1>3. ASSUME NEW r \in Finishers, NEW a \in Admins, NEW c \in Challenges, RegisterTake(r, a, c)
      PROVE  PasskeysTypeOK'
  <2>1. [at |-> "register", admin |-> a, key |-> NoKey] \in Handler
    BY DEF Handler
  <2>2. finish' \in [Finishers -> Handler \cup {Free}]
    BY <1>3, <2>1 DEF PasskeysTypeOK, RegisterTake
  <2>3. QED
    BY <1>3, <2>2, TakeTypes, PasskeysAssumption DEF PasskeysTypeOK, RegisterTake, Serve
<1>4. ASSUME NEW r \in Finishers, Register(r) PROVE PasskeysTypeOK'
  <2>1. PICK h : h = finish[r]
    OBVIOUS
  <2>2. h \in Handler /\ h.at = "register"
    BY <1>4, <2>1, FreeIsNoHandler DEF PasskeysTypeOK, Register
  <2>3. keys' \in [Keys -> Admins \cup {NoKey}]
    BY <1>4, <2>1, <2>2 DEF PasskeysTypeOK, Register, Handler
  <2>4. QED
    BY <1>4, <2>3 DEF PasskeysTypeOK, Register
<1>5. ASSUME NEW r \in Finishers, Verify(r) PROVE PasskeysTypeOK'
  <2>1. \A k \in Keys : keys[k] # NoKey => [at |-> "stamp", admin |-> keys[k], key |-> k] \in Handler
    BY DEF PasskeysTypeOK, Handler
  <2>2. finish' \in [Finishers -> Handler \cup {Free}]
    BY <1>5, <2>1 DEF PasskeysTypeOK, Verify
  <2>3. QED
    BY <1>5, <2>2 DEF PasskeysTypeOK, Verify
<1>6. ASSUME NEW r \in Finishers, Stamp(r) PROVE PasskeysTypeOK'
  <2>1. PICK h : h = finish[r]
    OBVIOUS
  <2>2. h \in Handler /\ h.at = "stamp"
    BY <1>6, <2>1, FreeIsNoHandler DEF PasskeysTypeOK, Stamp
  <2>3. h.key \in Keys
    BY <2>2 DEF Handler
  <2>4. stamped' \subseteq Keys
    BY <1>6, <2>1, <2>3 DEF PasskeysTypeOK, Stamp
  <2>5. QED
    BY <1>6, <2>4 DEF PasskeysTypeOK, Stamp
<1>7. ASSUME NEW k \in Keys, DeletePasskey(k) PROVE PasskeysTypeOK'
  BY <1>7 DEF PasskeysTypeOK, DeletePasskey
<1>8. ASSUME PasskeysRestart PROVE PasskeysTypeOK'
  BY <1>8, PasskeysAssumption DEF PasskeysTypeOK, PasskeysRestart, Serve
<1>9. ASSUME PasskeysTick PROVE PasskeysTypeOK'
  BY <1>9, ClockAssumption DEF PasskeysTypeOK, PasskeysTick, Tick
<1>10. QED
  BY <1>1, <1>2, <1>3, <1>4, <1>5, <1>6, <1>7, <1>8, <1>9 DEF PasskeysNext

\* The variables of Passkeys keep their types.
THEOREM PasskeysTypeCorrect == PasskeysSpec => []PasskeysTypeOK
<1>1. PasskeysTypeOK /\ UNCHANGED passkeyVars => PasskeysTypeOK'
  BY DEF PasskeysTypeOK, passkeyVars
<1>2. QED
  BY <1>1, PasskeysInitTypes, PasskeysStepTypes, PTL DEF PasskeysSpec

-----------------------------------------------------------------------------
(* Passkeys: what was deleted.  The property is inductive with the types: of the    *)
(* actions that write a row, Register draws a key that was never buried and Stamp   *)
(* looks at the row it writes.                                                     *)

LEMMA DeletedStep ==
    ASSUME PasskeysTypeOK, DeletedStaysDeleted, PasskeysNext
    PROVE  DeletedStaysDeleted'
<1>1. ASSUME NEW r \in Finishers, Register(r) PROVE DeletedStaysDeleted'
  <2>1. \A k \in buried : keys'[k] = keys[k]
    BY <1>1 DEF PasskeysTypeOK, Register
  <2>2. QED
    BY <1>1, <2>1 DEF DeletedStaysDeleted, Register
<1>2. ASSUME NEW r \in Finishers, Stamp(r) PROVE DeletedStaysDeleted'
  BY <1>2 DEF DeletedStaysDeleted, Stamp
<1>3. ASSUME NEW k \in Keys, DeletePasskey(k) PROVE DeletedStaysDeleted'
  BY <1>3 DEF PasskeysTypeOK, DeletedStaysDeleted, DeletePasskey
<1>4. ASSUME UNCHANGED <<keys, stamped, buried>> PROVE DeletedStaysDeleted'
  BY <1>4 DEF DeletedStaysDeleted
<1>5. QED
  BY <1>1, <1>2, <1>3, <1>4
     DEF PasskeysNext, Begin, LoginTake, RegisterTake, Verify, PasskeysRestart, PasskeysTick

\* A passkey its owner deleted never comes back, not even stamped by a login that had
\* read it before.
THEOREM DeletedStaysDeletedHolds == PasskeysSpec => []DeletedStaysDeleted
<1>1. PasskeysInit => DeletedStaysDeleted
  BY DEF PasskeysInit, DeletedStaysDeleted
<1>2. DeletedStaysDeleted /\ UNCHANGED passkeyVars => DeletedStaysDeleted'
  BY DEF DeletedStaysDeleted, passkeyVars
<1>3. QED
  BY <1>1, <1>2, DeletedStep, PasskeysTypeCorrect, PTL DEF PasskeysSpec

-----------------------------------------------------------------------------
(* Passkeys: a challenge is a one-time ticket *)

States == [c \in Challenges |-> ChallengeState(c)]

LEMMA StateFacts ==
    ASSUME PasskeysTypeOK, NEW c \in Challenges
    PROVE  /\ ChallengeState(c) = "unissued" <=> challenges[c] = Unissued
           /\ ChallengeState(c) = "live" <=> Live(c)
           /\ ChallengeState(c) \in {"unissued", "live", "over"}
<1>1. Live(c) => challenges[c] # Unissued
  BY DEF Live, Stored
<1>2. QED
  BY <1>1 DEF ChallengeState

\* A step that lets go of some live challenges and touches no other is a lapse.
LEMMA LapseStep ==
    ASSUME PasskeysTypeOK, redeemed' = redeemed,
           \A c \in Challenges : \/ ChallengeState(c)' = ChallengeState(c)
                                 \/ Live(c) /\ ChallengeState(c)' = "over"
    PROVE  ChallengeTicket!Next
<1>1. PICK T : T = {c \in Challenges : Live(c) /\ ChallengeState(c)' = "over"}
  OBVIOUS
<1>2. T \in SUBSET Challenges /\ \A c \in T : States[c] = "live"
  BY <1>1, StateFacts DEF States
<1>3. States' = [c \in Challenges |-> IF c \in T THEN "over" ELSE States[c]]
  BY <1>1 DEF States
<1>4. ChallengeTicket!Lapse(T)
  BY <1>2, <1>3 DEF ChallengeTicket!Lapse, States
<1>5. QED
  BY <1>2, <1>4 DEF ChallengeTicket!Next

LEMMA IssueStep ==
    ASSUME PasskeysTypeOK, NEW c \in Challenges, NEW for \in Admins \cup {"login"}, Begin(c, for)
    PROVE  ChallengeTicket!Next
<1>1. ChallengeState(c) = "unissued"
  BY StateFacts DEF Begin, Put
<1>2. PICK e : e = [for |-> for, expires |-> now + ChallengeTTL]
  OBVIOUS
<1>3. /\ e \in Challenge /\ e.expires = now + ChallengeTTL
      /\ now \in Int /\ now <= now + ChallengeTTL
  BY <1>2, PasskeysAssumption, ClockAssumption DEF PasskeysTypeOK, Challenge
<1>4. challenges'[c] = e /\ now' = now
  BY <1>2 DEF Begin, Put
<1>5. ChallengeState(c)' = "live"
  BY <1>3, <1>4, EntryIsStored DEF ChallengeState, Live, Stored
<1>6. ASSUME NEW d \in Challenges, d # c PROVE ChallengeState(d)' = ChallengeState(d)
  <2>1. CASE Stored(d) /\ ~Live(d)
    <3>1. challenges'[d] = Gone /\ challenges[d] # Unissued
      BY <1>6, <2>1 DEF Begin, Put, Stored
    <3>2. QED
      BY <2>1, <3>1, MarksDiffer DEF ChallengeState, Live, Stored
  <2>2. CASE ~(Stored(d) /\ ~Live(d))
    <3>1. challenges'[d] = challenges[d] /\ now' = now
      BY <1>6, <2>2 DEF Begin, Put
    <3>2. QED
      BY <3>1 DEF ChallengeState, Live, Stored
  <2>3. QED
    BY <2>1, <2>2
<1>7. States' = [States EXCEPT ![c] = "live"]
  BY <1>5, <1>6 DEF States
<1>8. ChallengeTicket!Issue(c)
  BY <1>1, <1>7 DEF ChallengeTicket!Issue, States, Begin
<1>9. QED
  BY <1>8 DEF ChallengeTicket!Next

LEMMA TakeStep ==
    ASSUME PasskeysTypeOK, NEW c \in Challenges, Take(c), now' = now
    PROVE  ChallengeTicket!Next \/ (States' = States /\ redeemed' = redeemed)
<1>1. ASSUME NEW d \in Challenges, d # c PROVE ChallengeState(d)' = ChallengeState(d)
  <2>1. challenges'[d] = challenges[d]
    BY <1>1 DEF Take, PasskeysTypeOK
  <2>2. QED
    BY <2>1 DEF ChallengeState, Live, Stored
<1>2. CASE Stored(c)
  <2>1. challenges'[c] = Gone /\ challenges[c] # Unissued
    BY <1>2 DEF Take, PasskeysTypeOK, Stored
  <2>2. ChallengeState(c)' = "over"
    BY <2>1, MarksDiffer DEF ChallengeState, Live, Stored
  <2>3. CASE Live(c)
    <3>1. States' = [States EXCEPT ![c] = "over"]
      BY <1>1, <2>2 DEF States
    <3>2. redeemed' = [redeemed EXCEPT ![c] = @ + 1]
      BY <2>3 DEF Take
    <3>3. States[c] = "live"
      BY <2>3, StateFacts DEF States
    <3>4. ChallengeTicket!Redeem(c)
      BY <3>1, <3>2, <3>3 DEF ChallengeTicket!Redeem, States
    <3>5. QED
      BY <3>4 DEF ChallengeTicket!Next
  <2>4. CASE ~Live(c)
    <3>1. ChallengeState(c) = "over"
      BY <2>1, <2>4 DEF ChallengeState
    <3>2. States' = States
      BY <1>1, <2>2, <3>1 DEF States
    <3>3. redeemed' = redeemed
      BY <2>4 DEF Take, PasskeysTypeOK
    <3>4. QED
      BY <3>2, <3>3
  <2>5. QED
    BY <2>3, <2>4
<1>3. CASE ~Stored(c)
  <2>1. challenges' = challenges /\ redeemed' = redeemed
    BY <1>3 DEF Take, PasskeysTypeOK, Live
  <2>2. QED
    BY <2>1 DEF States, ChallengeState, Live, Stored
<1>4. QED
  BY <1>2, <1>3

LEMMA TicketStep ==
    ASSUME PasskeysTypeOK, PasskeysNext
    PROVE  ChallengeTicket!Next \/ (States' = States /\ redeemed' = redeemed)
<1>1. ASSUME NEW c \in Challenges, NEW for \in Admins \cup {"login"}, Begin(c, for)
      PROVE  ChallengeTicket!Next
  BY <1>1, IssueStep
<1>2. ASSUME NEW r \in Finishers, NEW c \in Challenges,
             LoginTake(r, c) \/ \E a \in Admins : RegisterTake(r, a, c)
      PROVE  ChallengeTicket!Next \/ (States' = States /\ redeemed' = redeemed)
  BY <1>2, TakeStep DEF LoginTake, RegisterTake
<1>3. ASSUME UNCHANGED <<now, challenges, redeemed>>
      PROVE  States' = States /\ redeemed' = redeemed
  BY <1>3 DEF States, ChallengeState, Live, Stored
<1>4. ASSUME PasskeysRestart PROVE ChallengeTicket!Next
  <2>1. ASSUME NEW c \in Challenges
        PROVE  \/ ChallengeState(c)' = ChallengeState(c)
               \/ Live(c) /\ ChallengeState(c)' = "over"
    <3>1. CASE Stored(c)
      <4>1. challenges'[c] = Gone /\ challenges[c] # Unissued
        BY <1>4, <3>1 DEF PasskeysRestart, Stored
      <4>2. ChallengeState(c)' = "over"
        BY <4>1, MarksDiffer DEF ChallengeState, Live, Stored
      <4>3. QED
        BY <4>1, <4>2 DEF ChallengeState
    <3>2. CASE ~Stored(c)
      <4>1. challenges'[c] = challenges[c]
        BY <1>4, <3>2 DEF PasskeysRestart
      <4>2. QED
        BY <3>2, <4>1 DEF ChallengeState, Live, Stored
    <3>3. QED
      BY <3>1, <3>2
  <2>2. QED
    BY <1>4, <2>1, LapseStep DEF PasskeysRestart
<1>5. ASSUME PasskeysTick PROVE ChallengeTicket!Next
  <2>1. ASSUME NEW c \in Challenges
        PROVE  \/ ChallengeState(c)' = ChallengeState(c)
               \/ Live(c) /\ ChallengeState(c)' = "over"
    <3>1. now \in Int /\ now' = now + 1 /\ challenges' = challenges
      BY <1>5, ClockAssumption DEF PasskeysTick, Tick, PasskeysTypeOK
    <3>2. CASE Stored(c)
      <4>1. challenges[c] \in Challenge
        BY <3>2 DEF Stored, PasskeysTypeOK
      <4>2. challenges[c].expires \in Int
        BY <4>1 DEF Challenge
      <4>3. Live(c)' => Live(c)
        BY <3>1, <4>2 DEF Live, Stored
      <4>4. challenges[c] # Unissued
        BY <3>2 DEF Stored
      <4>5. QED
        BY <3>1, <4>3, <4>4 DEF ChallengeState
    <3>3. CASE ~Stored(c)
      BY <3>1, <3>3 DEF ChallengeState, Live, Stored
    <3>4. QED
      BY <3>2, <3>3
  <2>2. QED
    BY <1>5, <2>1, LapseStep DEF PasskeysTick
<1>6. QED
  BY <1>1, <1>2, <1>3, <1>4, <1>5 DEF PasskeysNext, Register, Verify, Stamp, DeletePasskey

\* A challenge of a passkey ceremony keeps the promise of a one-time ticket: every step
\* of Passkeys is a step of Ticket or none.
THEOREM ChallengesAreTicketsHolds == PasskeysSpec => ChallengesAreTickets
<1>1. PasskeysInit => ChallengeTicket!Init
  BY DEF PasskeysInit, ChallengeTicket!Init, ChallengeState
<1>2. PasskeysTypeOK /\ [PasskeysNext]_passkeyVars
        => [ChallengeTicket!Next]_<<States, redeemed>>
  <2>1. UNCHANGED passkeyVars => States' = States /\ redeemed' = redeemed
    BY DEF passkeyVars, States, ChallengeState, Live, Stored
  <2>2. QED
    BY <2>1, TicketStep
<1>3. PasskeysTypeOK /\ [PasskeysNext]_passkeyVars
        => [ChallengeTicket!Next]_<<[c \in Challenges |-> ChallengeState(c)], redeemed>>
  BY <1>2 DEF States
<1>4. QED
  BY <1>1, <1>3, PasskeysTypeCorrect, PTL DEF PasskeysSpec, ChallengesAreTickets, ChallengeTicket!Spec

-----------------------------------------------------------------------------
(* Login: types *)

LEMMA AbsentIsNothing ==
    /\ Absent \notin Attempt /\ Absent \notin Account /\ Absent \notin Request
<1>1. DOMAIN Absent = {"absent"}
  BY DEF Absent
<1>2. \A e \in Attempt : DOMAIN e # {"absent"}
  BY DEF Attempt
<1>3. \A e \in Account : DOMAIN e # {"absent"}
  BY DEF Account
<1>4. \A e \in Request : DOMAIN e # {"absent"}
  BY DEF Request
<1>5. QED
  BY <1>1, <1>2, <1>3, <1>4

LEMMA HandlerOf ==
    ASSUME LoginTypeOK, NEW r \in Requests, ~Idle(r)
    PROVE  req[r] \in Request
BY DEF LoginTypeOK, Idle

LEMMA FailedTypes ==
    ASSUME LoginTypeOK, NEW i \in Addresses, NEW t \in Instants
    PROVE  Failed(i, t) \in Attempt
<1>. DEFINE known == attempts[i] # Absent
            fresh == ~known \/ t - attempts[i].windowStart > Window
            failures == IF fresh THEN 1 ELSE attempts[i].failures + 1
            until == IF known THEN attempts[i].lockedUntil ELSE Never
            start == IF fresh THEN t ELSE attempts[i].windowStart
<1>1. known => attempts[i] \in Attempt
  BY DEF LoginTypeOK
<1>2. failures \in Nat \ {0}
  BY <1>1 DEF Attempt
<1>3. start \in Instants /\ until \in Never..(MaxTime + Lockout)
  BY <1>1, LoginAssumption, ClockAssumption DEF Attempt, Never
<1>4. t + Lockout \in Never..(MaxTime + Lockout)
  BY LoginAssumption, ClockAssumption DEF Instants, Never
<1>5. [failures |-> 0, windowStart |-> t, lockedUntil |-> t + Lockout, lastSeen |-> t] \in Attempt
  BY <1>4, LoginAssumption DEF Attempt
<1>6. failures < MaxFailures
        => [failures |-> failures, windowStart |-> start, lockedUntil |-> until, lastSeen |-> t]
             \in Attempt
  <2>. HIDE DEF known, fresh, failures, until, start
  <2>1. QED
    BY <1>2, <1>3, LoginAssumption DEF Attempt
<1>7. Failed(i, t) =
        IF failures >= MaxFailures
        THEN [failures |-> 0, windowStart |-> t, lockedUntil |-> t + Lockout, lastSeen |-> t]
        ELSE [failures |-> failures, windowStart |-> start, lockedUntil |-> until, lastSeen |-> t]
  BY DEF Failed
<1>8. QED
  <2>. HIDE DEF known, fresh, failures, until, start
  <2>1. QED
    BY <1>2, <1>5, <1>6, <1>7, LoginAssumption

LEMMA CountTypes ==
    ASSUME LoginTypeOK, NEW a \in Accounts
    PROVE  [Count(a) EXCEPT !.alerted = @ \/ Alerts(a)] \in Account
<1>1. Count(a) \in Account
  <2>1. [failures |-> 1, windowStart |-> now, alerted |-> FALSE] \in Account
    BY DEF LoginTypeOK, Account
  <2>2. ASSUME accounts[a] # Absent
        PROVE  [accounts[a] EXCEPT !.failures = @ + 1] \in Account
    <3>1. accounts[a] \in Account
      BY <2>2 DEF LoginTypeOK
    <3>2. QED
      BY <3>1 DEF Account
  <2>3. QED
    BY <2>1, <2>2 DEF Count
<1>2. Alerts(a) \in BOOLEAN
  BY DEF Alerts
<1>3. PICK n : n = Count(a)
  OBVIOUS
<1>4. PICK b \in BOOLEAN : b = Alerts(a)
  BY <1>2
<1>5. [n EXCEPT !.alerted = @ \/ b] \in Account
  BY <1>1, <1>3 DEF Account
<1>6. QED
  BY <1>3, <1>4, <1>5

LEMMA AnsweredTypes ==
    ASSUME LoginTypeOK, NEW r \in Requests, ~Idle(r), NEW status \in Status
    PROVE  Answered(r, status) \in [Requests -> Request \cup {Absent}]
<1>1. PICK h : h = req[r]
  OBVIOUS
<1>2. h \in Request
  BY <1>1, HandlerOf
<1>3. [[h EXCEPT !.at = "answer"] EXCEPT !.status = status] \in Request
  BY <1>2 DEF Request, Phase
<1>4. QED
  BY <1>1, <1>3 DEF Answered, LoginTypeOK

LEMMA LoginInitTypes == LoginInit => LoginTypeOK
BY LoginAssumption, ClockAssumption DEF LoginInit, LoginTypeOK, Instants

LEMMA LoginStepTypes ==
    ASSUME LoginTypeOK, LoginNext
    PROVE  LoginTypeOK'
<1>1. ASSUME NEW r \in Requests, NEW i \in Addresses, Admit(r, i) PROVE LoginTypeOK'
  <2>1. attempts' \in [Addresses -> Attempt \cup {Absent}]
    BY <1>1 DEF LoginTypeOK, Admit, Pruned
  <2>2. [at |-> "handle", address |-> i, admitted |-> now, account |-> "nobody",
         status |-> "other"] \in Request
    BY DEF LoginTypeOK, Request, Phase, Status
  <2>3. req' \in [Requests -> Request \cup {Absent}]
    BY <1>1, <2>2 DEF LoginTypeOK, Admit
  <2>4. QED
    BY <1>1, <2>1, <2>3, LoginAssumption DEF LoginTypeOK, Admit, Spend
<1>2. ASSUME NEW r \in Requests, NEW a \in Accounts, Authenticate(r, a) PROVE LoginTypeOK'
  <2>1. ~Idle(r)
    BY <1>2 DEF Authenticate
  <2>2. \A status \in Status : Answered(r, status) \in [Requests -> Request \cup {Absent}]
    BY <2>1, AnsweredTypes
  <2>3. {"refused", "accepted", "other"} \subseteq Status
    BY DEF Status
  <2>4. CASE RecordFailure(r, a)
    <3>1. accounts' \in [Accounts -> Account \cup {Absent}]
      BY <2>4, CountTypes DEF RecordFailure, LoginTypeOK
    <3>2. PICK h : h = req[r]
      OBVIOUS
    <3>3. [[h EXCEPT !.at = "exists"] EXCEPT !.account = a] \in Request
      BY <2>1, <3>2, HandlerOf DEF Request, Phase
    <3>4. req' \in [Requests -> Request \cup {Absent}]
      BY <2>2, <2>3, <2>4, <3>2, <3>3 DEF RecordFailure, LoginTypeOK
    <3>5. twice' \subseteq Accounts
      BY <2>4 DEF RecordFailure, LoginTypeOK
    <3>6. QED
      BY <1>2, <3>1, <3>4, <3>5 DEF LoginTypeOK, Authenticate
  <2>5. CASE ~RecordFailure(r, a)
    <3>1. accounts' \in [Accounts -> Account \cup {Absent}] /\ twice' = twice
      BY <1>2, <2>5 DEF Authenticate, LoginTypeOK
    <3>2. req' \in [Requests -> Request \cup {Absent}]
      BY <1>2, <2>2, <2>3, <2>5 DEF Authenticate
    <3>3. QED
      BY <1>2, <3>1, <3>2 DEF LoginTypeOK, Authenticate
  <2>6. QED
    BY <2>4, <2>5
<1>3. ASSUME NEW r \in Requests, FailLogin(r) PROVE LoginTypeOK'
  <2>1. PICK h : h = req[r]
    OBVIOUS
  <2>2. [h EXCEPT !.at = "create"] \in Request
    BY <1>3, <2>1, HandlerOf DEF FailLogin, Request, Phase
  <2>3. Answered(r, "refused") \in [Requests -> Request \cup {Absent}]
    BY <1>3, AnsweredTypes DEF FailLogin, Status
  <2>4. req' \in [Requests -> Request \cup {Absent}]
    BY <1>3, <2>1, <2>2, <2>3 DEF FailLogin, LoginTypeOK
  <2>5. QED
    BY <1>3, <2>4 DEF LoginTypeOK, FailLogin
<1>4. ASSUME NEW r \in Requests, CreateNotice(r) PROVE LoginTypeOK'
  <2>1. req' \in [Requests -> Request \cup {Absent}]
    BY <1>4, AnsweredTypes DEF CreateNotice, Status
  <2>2. notices' \in [Accounts -> Nat]
    <3>1. PICK b : b = req[r].account
      OBVIOUS
    <3>2. notices' = [notices EXCEPT ![b] = @ + 1]
      BY <1>4, <3>1 DEF CreateNotice
    <3>3. CASE b \in Accounts
      BY <3>2, <3>3 DEF LoginTypeOK
    <3>4. CASE b \notin Accounts
      BY <3>2, <3>4 DEF LoginTypeOK
    <3>5. QED
      BY <3>3, <3>4
  <2>3. QED
    BY <1>4, <2>1, <2>2 DEF LoginTypeOK, CreateNotice
<1>5. ASSUME NEW r \in Requests, Record(r) PROVE LoginTypeOK'
  <2>1. PICK i, t : i = req[r].address /\ t = req[r].admitted
    OBVIOUS
  <2>2. i \in Addresses /\ t \in Instants
    BY <1>5, <2>1, HandlerOf DEF Record, Request
  <2>3. req' \in [Requests -> Request \cup {Absent}]
    BY <1>5 DEF Record, LoginTypeOK
  <2>4. late' \subseteq Addresses
    BY <1>5, <2>1, <2>2 DEF Record, Late, LoginTypeOK
  <2>5. attempts[i] # Absent => [attempts[i] EXCEPT !.lastSeen = t] \in Attempt
    BY <2>2 DEF LoginTypeOK, Attempt
  <2>6. attempts' \in [Addresses -> Attempt \cup {Absent}]
    <3>1. attempts \in [Addresses -> Attempt \cup {Absent}]
      BY DEF LoginTypeOK
    <3>2. Failed(i, t) \in Attempt
      BY <2>2, FailedTypes
    <3>3. QED
      BY <1>5, <2>1, <2>2, <2>5, <3>1, <3>2 DEF Record
  <2>7. <<>> \in Seq(Instants) /\ Append(misses[i], t) \in Seq(Instants)
    BY <2>2 DEF LoginTypeOK
  <2>8. misses' \in [Addresses -> Seq(Instants)]
    BY <1>5, <2>1, <2>2, <2>7 DEF Record, LoginTypeOK
  <2>9. QED
    BY <1>5, <2>3, <2>4, <2>6, <2>8 DEF LoginTypeOK, Record
<1>6. ASSUME LoginRestart PROVE LoginTypeOK'
  BY <1>6, LoginAssumption DEF LoginRestart, LoginTypeOK, Spend
<1>7. ASSUME LoginTick PROVE LoginTypeOK'
  BY <1>7, ClockAssumption DEF LoginTick, LoginTypeOK, Tick, Instants
<1>8. QED
  BY <1>1, <1>2, <1>3, <1>4, <1>5, <1>6, <1>7 DEF LoginNext

\* The variables of Login keep their types: no entry of the limiter holds as many
\* failures as lock an address.
THEOREM LoginTypeCorrect == LoginSpec => []LoginTypeOK
<1>1. LoginTypeOK /\ UNCHANGED loginVars => LoginTypeOK'
  BY DEF LoginTypeOK, loginVars
<1>2. QED
  BY <1>1, LoginInitTypes, LoginStepTypes, PTL DEF LoginSpec

-----------------------------------------------------------------------------
(* Login: one notification.  While no two alerts of an account were under way at     *)
(* once, at most one handler is between RecordFailure and the end of failLogin, and   *)
(* one that has found no notification is right about it.                             *)

AlertsAlone ==
    \A a \in Accounts \ twice :
      /\ notices[a] <= 1
      /\ \A r \in Alerting(a), q \in Alerting(a) : r = q
      /\ \A r \in Alerting(a) : req[r].at = "create" => notices[a] = 0

LEMMA AloneStep ==
    ASSUME LoginTypeOK, AlertsAlone, LoginNext
    PROVE  AlertsAlone'
<1>1. ASSUME NEW r \in Requests, NEW status, ~Idle(r), req' = Answered(r, status),
             NEW a \in Accounts
      PROVE  \A q \in Alerting(a)' : q \in Alerting(a) /\ q # r /\ req'[q] = req[q]
  <2>1. req'[r].at = "answer"
    <3>1. req[r] \in Request
      BY <1>1, HandlerOf
    <3>2. PICK h \in Request : h = req[r]
      BY <3>1
    <3>3. [[h EXCEPT !.at = "answer"] EXCEPT !.status = status].at = "answer"
      BY <3>2 DEF Request
    <3>4. QED
      BY <1>1, <3>2, <3>3 DEF Answered, LoginTypeOK
  <2>2. \A q \in Requests : q # r => req'[q] = req[q]
    BY <1>1 DEF Answered, LoginTypeOK
  <2>3. QED
    BY <2>1, <2>2 DEF Alerting, Idle
<1>2. ASSUME NEW r \in Requests, NEW i \in Addresses, Admit(r, i) PROVE AlertsAlone'
  <2>1. ASSUME NEW a \in Accounts
        PROVE  \A q \in Alerting(a)' : q \in Alerting(a) /\ req'[q] = req[q]
    <3>1. req \in [Requests -> Request \cup {Absent}]
      BY DEF LoginTypeOK
    <3>2. QED
      BY <1>2, <3>1 DEF Admit, Alerting, Idle
  <2>2. twice' = twice /\ notices' = notices
    BY <1>2 DEF Admit
  <2>3. QED
    BY <2>1, <2>2 DEF AlertsAlone
<1>3. ASSUME NEW r \in Requests, NEW b \in Accounts, Authenticate(r, b) PROVE AlertsAlone'
  <2>1. ~Idle(r) /\ req[r].at = "handle" /\ notices' = notices
    BY <1>3 DEF Authenticate
  <2>2. CASE \E status \in Status : req' = Answered(r, status) /\ twice' = twice
    BY <1>1, <2>1, <2>2 DEF AlertsAlone
  <2>3. CASE RecordFailure(r, b) /\ ~Alerts(b)
    BY <1>1, <2>1, <2>3 DEF AlertsAlone, RecordFailure
  <2>4. CASE RecordFailure(r, b) /\ Alerts(b)
    <3>1. req' = [req EXCEPT ![r].at = "exists", ![r].account = b]
      BY <2>4 DEF RecordFailure
    <3>2. \A q \in Requests : q # r => req'[q] = req[q]
      BY <3>1 DEF LoginTypeOK
    <3>3. req'[r].at = "exists" /\ req'[r].account = b
      <4>1. PICK h \in Request : h = req[r]
        BY <2>1, HandlerOf
      <4>2. PICK g : g = [[h EXCEPT !.at = "exists"] EXCEPT !.account = b]
        OBVIOUS
      <4>3. g.at = "exists" /\ g.account = b
        BY <4>1, <4>2 DEF Request
      <4>4. req'[r] = g
        BY <3>1, <4>1, <4>2 DEF LoginTypeOK
      <4>5. QED
        BY <4>3, <4>4
    <3>4. ASSUME NEW a \in Accounts, a # b
          PROVE  \A q \in Alerting(a)' : q \in Alerting(a) /\ req'[q] = req[q]
      BY <3>2, <3>3, <3>4 DEF Alerting, Idle
    <3>5. \A q \in Alerting(b)' : q = r \/ (q \in Alerting(b) /\ req'[q] = req[q])
      BY <3>2 DEF Alerting, Idle
    <3>6. b \notin twice' => Alerting(b) = {} /\ b \notin twice
      BY <2>4 DEF RecordFailure
    <3>7. twice \subseteq twice'
      BY <2>4 DEF RecordFailure
    <3>8. ASSUME NEW a \in Accounts \ twice'
          PROVE  /\ notices'[a] <= 1
                 /\ \A q \in Alerting(a)', p \in Alerting(a)' : q = p
                 /\ \A q \in Alerting(a)' : req'[q].at = "create" => notices'[a] = 0
      BY <2>1, <3>3, <3>4, <3>5, <3>6, <3>7, <3>8 DEF AlertsAlone
    <3>9. QED
      BY <3>8 DEF AlertsAlone
  <2>5. QED
    BY <1>3, <2>2, <2>3, <2>4 DEF Authenticate, Status
<1>4. ASSUME NEW r \in Requests, FailLogin(r) PROVE AlertsAlone'
  <2>1. ~Idle(r) /\ req[r].at = "exists" /\ notices' = notices /\ twice' = twice
    BY <1>4 DEF FailLogin
  <2>2. CASE req' = Answered(r, "refused")
    BY <1>1, <2>1, <2>2 DEF AlertsAlone
  <2>3. CASE req' # Answered(r, "refused")
    <3>1. /\ req' = [req EXCEPT ![r].at = "create"]
          /\ ~(notices[req[r].account] > 0)
      BY <1>4, <2>3 DEF FailLogin
    <3>2. \A q \in Requests : q # r => req'[q] = req[q]
      BY <3>1 DEF LoginTypeOK
    <3>3. PICK h \in Request : h = req[r]
      BY <2>1, HandlerOf
    <3>4. [h EXCEPT !.at = "create"].account = h.account
      BY DEF Request
    <3>5. req'[r].account = req[r].account
      BY <3>1, <3>3, <3>4 DEF LoginTypeOK
    <3>6. ASSUME NEW a \in Accounts, NEW q \in Alerting(a)'
          PROVE  q \in Alerting(a) /\ (q # r => req'[q] = req[q])
      BY <2>1, <3>2, <3>5, <3>6 DEF Alerting, Idle
    <3>7. ASSUME NEW a \in Accounts \ twice, r \in Alerting(a)
          PROVE  notices[a] = 0
      BY <3>1, <3>7 DEF Alerting, LoginTypeOK
    <3>8. QED
      BY <2>1, <3>6, <3>7 DEF AlertsAlone
  <2>4. QED
    BY <2>2, <2>3
<1>5. ASSUME NEW r \in Requests, CreateNotice(r) PROVE AlertsAlone'
  <2>1. /\ ~Idle(r) /\ req[r].at = "create" /\ twice' = twice
        /\ req' = Answered(r, "refused")
        /\ notices' = [notices EXCEPT ![req[r].account] = @ + 1]
    BY <1>5 DEF CreateNotice
  <2>2. ASSUME NEW a \in Accounts \ twice
        PROVE  /\ notices'[a] <= 1
               /\ \A q \in Alerting(a)', p \in Alerting(a)' : q = p
               /\ \A q \in Alerting(a)' : req'[q].at = "create" => notices'[a] = 0
    <3>1. \A q \in Alerting(a)' : q \in Alerting(a) /\ q # r /\ req'[q] = req[q]
      BY <1>1, <2>1
    <3>2. CASE a = req[r].account
      <4>1. r \in Alerting(a)
        BY <2>1, <3>2 DEF Alerting
      <4>2. Alerting(a)' = {} /\ notices[a] = 0
        BY <2>1, <3>1, <4>1 DEF AlertsAlone
      <4>3. notices'[a] = 1
        BY <2>1, <3>2, <4>2 DEF LoginTypeOK
      <4>4. QED
        BY <4>2, <4>3
    <3>3. CASE a # req[r].account
      <4>1. notices'[a] = notices[a]
        BY <2>1, <3>3 DEF LoginTypeOK
      <4>2. QED
        BY <3>1, <4>1 DEF AlertsAlone
    <3>4. QED
      BY <3>2, <3>3
  <2>3. QED
    BY <2>1, <2>2 DEF AlertsAlone
<1>6. ASSUME NEW r \in Requests, Record(r) PROVE AlertsAlone'
  <2>1. ASSUME NEW a \in Accounts
        PROVE  \A q \in Alerting(a)' : q \in Alerting(a) /\ req'[q] = req[q]
    BY <1>6 DEF Record, Alerting, Idle, LoginTypeOK
  <2>2. twice' = twice /\ notices' = notices
    BY <1>6 DEF Record
  <2>3. QED
    BY <2>1, <2>2 DEF AlertsAlone
<1>7. ASSUME LoginRestart PROVE AlertsAlone'
  BY <1>7 DEF LoginRestart, AlertsAlone, Alerting, Idle
<1>8. ASSUME LoginTick PROVE AlertsAlone'
  BY <1>8 DEF LoginTick, AlertsAlone, Alerting, Idle
<1>9. QED
  BY <1>2, <1>3, <1>4, <1>5, <1>6, <1>7, <1>8 DEF LoginNext

\* An account has one notification of failed logins, unless two alerts of it were under
\* way at once.
THEOREM OneNoticeHolds == LoginSpec => []OneNotice
<1>1. LoginInit => AlertsAlone
  BY DEF LoginInit, AlertsAlone, Alerting, Idle
<1>2. AlertsAlone /\ UNCHANGED loginVars => AlertsAlone'
  BY DEF AlertsAlone, loginVars, Alerting, Idle
<1>3. LoginTypeOK /\ AlertsAlone => OneNotice
  BY DEF AlertsAlone, OneNotice, LoginTypeOK
<1>4. QED
  BY <1>1, <1>2, <1>3, AloneStep, LoginTypeCorrect, PTL DEF LoginSpec
-----------------------------------------------------------------------------
(* Tokens: records *)

LEMMA RowIsNoMark == NoRow \notin Row
<1>1. DOMAIN NoRow = {"absent"}
  BY DEF NoRow
<1>2. \A row \in Row : "secret" \in DOMAIN row
  BY DEF Row
<1>3. QED
  BY <1>1, <1>2

LEMMA ClientIsUnderWay == Done \notin Client /\ Done.at = "done"
<1>1. Done.at = "done"
  BY DEF Done
<1>2. \A client \in Client : client.at \in {"stamp", "limit"}
  BY DEF Client
<1>3. QED
  BY <1>1, <1>2

LEMMA CallsBound == MaxTokenCalls \in Nat
<1>1. MaxTokenCalls \in Limits \cup Lifetimes \cup {ExpiryNotice, PruneWindowsAt, MaxTokenCalls}
  OBVIOUS
<1>2. QED
  BY <1>1, TokensAssumption

-----------------------------------------------------------------------------
(* Besides the types: a rotation or a request that goes on is about a token that has  *)
(* a row; secrets are drawn once; one that was retired is another one than the row's,  *)
(* or the row is revoked; and a token that was revoked stays so.                      *)

Referred ==
    /\ \A o \in Rotators : rotating[o] # NoToken => tokens[rotating[o]] # NoRow
    /\ \A q \in Clients : clients[q] # Done => tokens[clients[q].token] # NoRow

Drawn == \A t \in Tokens : tokens[t] # NoRow => tokens[t].secret < minted

Retired ==
    /\ \A ts \in dead : /\ ts[2] < minted
                        /\ tokens[ts[1]] # NoRow
                        /\ tokens[ts[1]].secret = ts[2] => tokens[ts[1]].revoked
    /\ \A t \in ended : tokens[t] # NoRow /\ tokens[t].revoked

TokensInv == TokensTypeOK /\ Referred /\ Drawn /\ Retired

\* What happens to the rows in a step: none goes away, and none is revoked no longer.
RowsKept ==
    \A t \in Tokens : tokens[t] # NoRow =>
      /\ tokens'[t] # NoRow
      /\ tokens[t].revoked => tokens'[t].revoked

\* A step that keeps the rows and their secrets, and draws none, keeps what was said.
LEMMA SecretsKept ==
    ASSUME TokensInv, RowsKept, minted' = minted, dead' = dead, ended' = ended,
           \A t \in Tokens : tokens'[t] # NoRow =>
             tokens[t] # NoRow /\ tokens'[t].secret = tokens[t].secret
    PROVE  Drawn' /\ Retired'
<1>1. \A ts \in dead : ts[1] \in Tokens
  BY DEF TokensInv, TokensTypeOK
<1>2. Drawn'
  BY DEF TokensInv, Drawn
<1>3. ASSUME NEW ts \in dead
      PROVE  /\ ts[2] < minted /\ tokens'[ts[1]] # NoRow
             /\ tokens'[ts[1]].secret = ts[2] => tokens'[ts[1]].revoked
  BY <1>1, <1>3 DEF TokensInv, Retired, RowsKept
<1>4. \A t \in ended : tokens'[t] # NoRow /\ tokens'[t].revoked
  BY DEF TokensInv, TokensTypeOK, Retired, RowsKept
<1>5. QED
  BY <1>2, <1>3, <1>4 DEF Retired

-----------------------------------------------------------------------------
(* Tokens: one lemma for each action *)

LEMMA TokensInitInv == TokensInit => TokensInv
BY CallsBound, ClockAssumption
   DEF TokensInit, TokensInv, TokensTypeOK, Referred, Drawn, Retired, NoHits

LEMMA MintStep ==
    ASSUME TokensInv, NEW t \in Tokens, NEW days \in Lifetimes, NEW scopes, NEW limit \in Limits,
           t \in Unused, NEW allowed \in SUBSET Sources, Mint(t, days, scopes, allowed, limit)
    PROVE  TokensInv'
<1>1. PICK row : row = [secret |-> minted, revoked |-> FALSE, used |-> FALSE,
                        expires |-> IF days > 0 THEN now + days ELSE Never,
                        scopes |-> scopes, allowed |-> allowed, limit |-> limit]
  OBVIOUS
<1>2. row \in Row /\ row.secret = minted
  <2>1. (IF days > 0 THEN now + days ELSE Never) \in Nat \cup {Never}
    BY TokensAssumption, ClockAssumption DEF TokensInv, TokensTypeOK
  <2>2. scopes \subseteq Scopes \cup {Wildcard}
    BY DEF Mint, NormalizedScopes
  <2>3. QED
    BY <1>1, <2>1, <2>2 DEF Row, TokensInv, TokensTypeOK
<1>3. tokens[t] = NoRow /\ tokens' = [tokens EXCEPT ![t] = row] /\ minted' = minted + 1
  BY <1>1 DEF Mint, Unused
<1>4. TokensTypeOK'
  <2>1. tokens' \in [Tokens -> Row \cup {NoRow}]
    BY <1>2, <1>3 DEF TokensInv, TokensTypeOK
  <2>2. QED
    BY <1>3, <2>1, CallsBound DEF Mint, Call, TokensInv, TokensTypeOK, reminding
<1>5. \A u \in Tokens : u # t => tokens'[u] = tokens[u]
  BY <1>3 DEF TokensInv, TokensTypeOK
<1>6. tokens'[t] = row /\ row # NoRow
  BY <1>2, <1>3, RowIsNoMark DEF TokensInv, TokensTypeOK
<1>7. Referred'
  <2>1. \A o \in Rotators : rotating[o] # NoToken => rotating[o] \in Tokens
    BY DEF TokensInv, TokensTypeOK
  <2>2. \A q \in Clients : clients[q] # Done => clients[q].token \in Tokens
    BY DEF TokensInv, TokensTypeOK, Client
  <2>3. rotating' = rotating /\ clients' = clients
    BY DEF Mint
  <2>4. QED
    BY <1>5, <1>6, <2>1, <2>2, <2>3 DEF TokensInv, Referred
<1>8. Drawn'
  BY <1>2, <1>3, <1>5, <1>6 DEF TokensInv, TokensTypeOK, Drawn, Row
<1>9. Retired'
  <2>1. dead' = dead /\ ended' = ended
    BY DEF Mint
  <2>2. \A ts \in dead : ts[1] \in Tokens /\ ts[2] \in Nat
    BY DEF TokensInv, TokensTypeOK
  <2>3. \A ts \in dead : ts[1] # t /\ ts[2] < minted'
    BY <1>3, <2>2 DEF TokensInv, TokensTypeOK, Retired
  <2>4. \A u \in ended : u # t /\ u \in Tokens
    BY <1>3 DEF TokensInv, TokensTypeOK, Retired
  <2>5. QED
    BY <1>5, <2>1, <2>2, <2>3, <2>4 DEF TokensInv, Retired
<1>10. QED
  BY <1>4, <1>7, <1>8, <1>9 DEF TokensInv

\* A step that keeps the rows keeps what handlers refer to.
LEMMA ReferredKept ==
    ASSUME TokensInv, RowsKept,
           \A o \in Rotators : rotating'[o] = rotating[o] \/ rotating'[o] = NoToken,
           \A q \in Clients : \/ clients'[q] = Done
                              \/ clients[q] # Done /\ clients'[q].token = clients[q].token
    PROVE  Referred'
<1>1. \A o \in Rotators : rotating[o] # NoToken => rotating[o] \in Tokens
  BY DEF TokensInv, TokensTypeOK
<1>2. \A q \in Clients : clients[q] # Done => clients[q].token \in Tokens
  BY DEF TokensInv, TokensTypeOK, Client
<1>3. QED
  BY <1>1, <1>2 DEF TokensInv, Referred, RowsKept

LEMMA RevokeStep ==
    ASSUME TokensInv, NEW t \in Tokens, Revoke(t)
    PROVE  TokensInv'
<1>1. PICK row : row = tokens[t]
  OBVIOUS
<1>2. row \in Row
  BY <1>1 DEF Revoke, TokensInv, TokensTypeOK
<1>3. PICK new : new = [row EXCEPT !.revoked = TRUE]
  OBVIOUS
<1>4. new \in Row /\ new.revoked /\ new.secret = row.secret /\ new # NoRow
  BY <1>2, <1>3, RowIsNoMark DEF Row
<1>5. tokens' = [tokens EXCEPT ![t] = new]
  BY <1>1, <1>3 DEF Revoke
<1>6. tokens'[t] = new /\ \A u \in Tokens : u # t => tokens'[u] = tokens[u]
  BY <1>5 DEF TokensInv, TokensTypeOK
<1>7. /\ dead' = dead \cup {<<t, row.secret>>} /\ ended' = ended \cup {t} /\ minted' = minted
      /\ rotating' = rotating /\ clients' = clients
  BY <1>1 DEF Revoke
<1>8. row.secret < minted /\ row.secret \in Nat
  BY <1>1, <1>2 DEF Revoke, TokensInv, Drawn, Row
<1>9. TokensTypeOK'
  <2>1. tokens' \in [Tokens -> Row \cup {NoRow}]
    BY <1>4, <1>5 DEF TokensInv, TokensTypeOK
  <2>2. dead' \subseteq Tokens \X Nat /\ ended' \subseteq Tokens
    BY <1>7, <1>8 DEF TokensInv, TokensTypeOK
  <2>3. QED
    BY <1>7, <2>1, <2>2, CallsBound DEF Revoke, Call, TokensInv, TokensTypeOK, reminding
<1>10. RowsKept
  BY <1>4, <1>6 DEF RowsKept
<1>11. Referred'
  BY <1>7, <1>10, ReferredKept
<1>12. Drawn'
  BY <1>1, <1>4, <1>6, <1>7, <1>8 DEF TokensInv, Drawn
<1>13. Retired'
  <2>1. \A ts \in dead : ts[1] \in Tokens
    BY DEF TokensInv, TokensTypeOK
  <2>2. \A u \in ended : u \in Tokens
    BY DEF TokensInv, TokensTypeOK
  <2>3. ASSUME NEW ts \in dead
        PROVE  /\ ts[2] < minted /\ tokens'[ts[1]] # NoRow
               /\ tokens'[ts[1]].secret = ts[2] => tokens'[ts[1]].revoked
    BY <1>4, <1>6, <2>1, <2>3 DEF TokensInv, Retired
  <2>4. ASSUME NEW u \in ended PROVE tokens'[u] # NoRow /\ tokens'[u].revoked
    BY <1>4, <1>6, <2>2, <2>4 DEF TokensInv, Retired
  <2>5. tokens'[t] # NoRow /\ tokens'[t].revoked
    BY <1>4, <1>6
  <2>6. QED
    BY <1>7, <1>8, <2>3, <2>4, <2>5 DEF Retired
<1>14. QED
  BY <1>9, <1>11, <1>12, <1>13 DEF TokensInv

LEMMA LookupStep ==
    ASSUME TokensInv, NEW o \in Rotators, NEW t \in Tokens, RotateLookup(o, t)
    PROVE  TokensInv'
<1>1. TokensTypeOK'
  BY CallsBound DEF RotateLookup, Call, TokensInv, TokensTypeOK, reminding
<1>2. Referred'
  BY DEF RotateLookup, TokensInv, TokensTypeOK, Referred
<1>3. Drawn' /\ Retired'
  BY DEF RotateLookup, TokensInv, Drawn, Retired
<1>4. QED
  BY <1>1, <1>2, <1>3 DEF TokensInv

LEMMA RotateStep ==
    ASSUME TokensInv, NEW o \in Rotators, Rotate(o)
    PROVE  TokensInv'
<1>1. PICK t : t = rotating[o]
  OBVIOUS
<1>2. PICK row : row = tokens[t]
  OBVIOUS
<1>3. t \in Tokens /\ row \in Row
  BY <1>1, <1>2 DEF Rotate, Replace, TokensInv, TokensTypeOK, Referred
<1>4. PICK new : new = [row EXCEPT !.secret = minted, !.used = FALSE]
  OBVIOUS
<1>5. /\ new \in Row /\ new.secret = minted /\ new # NoRow
      /\ row.revoked => new.revoked
  BY <1>3, <1>4, RowIsNoMark DEF Row, TokensInv, TokensTypeOK
<1>6. tokens' = [tokens EXCEPT ![t] = new]
  BY <1>1, <1>2, <1>4 DEF Rotate, Replace
<1>7. tokens'[t] = new /\ \A u \in Tokens : u # t => tokens'[u] = tokens[u]
  BY <1>3, <1>6 DEF TokensInv, TokensTypeOK
<1>8. /\ dead' = dead \cup {<<t, row.secret>>} /\ ended' = ended /\ minted' = minted + 1
      /\ rotating' = [rotating EXCEPT ![o] = NoToken] /\ clients' = clients
  BY <1>1, <1>2 DEF Rotate, Replace
<1>9. row.secret < minted /\ row.secret \in Nat /\ minted \in Nat
  BY <1>2, <1>3, RowIsNoMark DEF TokensInv, TokensTypeOK, Drawn, Row
<1>10. TokensTypeOK'
  <2>1. tokens' \in [Tokens -> Row \cup {NoRow}]
    BY <1>5, <1>6 DEF TokensInv, TokensTypeOK
  <2>2. dead' \subseteq Tokens \X Nat
    BY <1>3, <1>8, <1>9 DEF TokensInv, TokensTypeOK
  <2>3. QED
    BY <1>8, <1>9, <2>1, <2>2 DEF Rotate, Replace, TokensInv, TokensTypeOK, reminding
<1>11. RowsKept
  BY <1>2, <1>5, <1>7 DEF RowsKept
<1>12. Referred'
  <2>1. \A p \in Rotators : rotating'[p] = rotating[p] \/ rotating'[p] = NoToken
    BY <1>8 DEF TokensInv, TokensTypeOK
  <2>2. QED
    BY <1>8, <1>11, <2>1, ReferredKept
<1>13. Drawn'
  BY <1>5, <1>7, <1>8, <1>9 DEF TokensInv, TokensTypeOK, Drawn, Row
<1>14. Retired'
  <2>1. \A ts \in dead : ts[1] \in Tokens /\ ts[2] \in Nat
    BY DEF TokensInv, TokensTypeOK
  <2>2. \A u \in ended : u \in Tokens
    BY DEF TokensInv, TokensTypeOK
  <2>3. ASSUME NEW ts \in dead
        PROVE  /\ ts[2] < minted' /\ tokens'[ts[1]] # NoRow
               /\ tokens'[ts[1]].secret = ts[2] => tokens'[ts[1]].revoked
    <3>1. ts[2] < minted /\ tokens[ts[1]] # NoRow
      BY <2>3 DEF TokensInv, Retired
    <3>2. ts[2] < minted' /\ ts[2] # minted
      BY <1>8, <1>9, <2>1, <3>1
    <3>3. CASE ts[1] = t
      BY <1>5, <1>7, <3>2, <3>3
    <3>4. CASE ts[1] # t
      BY <1>7, <2>1, <2>3, <3>1, <3>2, <3>4 DEF TokensInv, Retired
    <3>5. QED
      BY <3>3, <3>4
  <2>4. ASSUME NEW u \in ended PROVE tokens'[u] # NoRow /\ tokens'[u].revoked
    BY <2>2, <2>4, <1>11 DEF TokensInv, Retired, RowsKept
  <2>5. /\ row.secret < minted' /\ tokens'[t] # NoRow
        /\ tokens'[t].secret # row.secret
    BY <1>5, <1>7, <1>8, <1>9
  <2>6. QED
    BY <1>8, <2>3, <2>4, <2>5 DEF Retired
<1>15. QED
  BY <1>10, <1>12, <1>13, <1>14 DEF TokensInv

LEMMA ValidateStep ==
    ASSUME TokensInv, NEW q \in Clients, NEW t \in Tokens, NEW secret, NEW source, NEW path,
           Validate(q, t, secret, source, path)
    PROVE  TokensInv'
<1>1. PICK granted \in BOOLEAN :
        granted = (SourceAllowed(tokens[t], source) /\ ScopeGrants(tokens[t], path))
  OBVIOUS
<1>2. tokens[t] # NoRow /\ tokens[t] \in Row
  BY DEF Validate, Valid, TokensInv, TokensTypeOK
<1>3. PICK client : client = [at |-> "stamp", token |-> t, limit |-> tokens[t].limit,
                              granted |-> granted]
  OBVIOUS
<1>4. client \in Client /\ client.token = t
  BY <1>2, <1>3 DEF Client, Row
<1>5. clients' = [clients EXCEPT ![q] = client]
  BY <1>1, <1>3 DEF Validate
<1>6. TokensTypeOK'
  BY <1>4, <1>5, CallsBound DEF Validate, Call, TokensInv, TokensTypeOK, reminding
<1>7. Referred'
  BY <1>2, <1>4, <1>5 DEF Validate, TokensInv, TokensTypeOK, Referred
<1>8. Drawn' /\ Retired'
  BY DEF Validate, TokensInv, Drawn, Retired
<1>9. QED
  BY <1>6, <1>7, <1>8 DEF TokensInv

LEMMA StampStep ==
    ASSUME TokensInv, NEW q \in Clients, StampUse(q)
    PROVE  TokensInv'
<1>1. PICK client : client = clients[q]
  OBVIOUS
<1>2. client \in Client /\ client.at = "stamp" /\ client # Done
  BY <1>1, ClientIsUnderWay DEF StampUse, TokensInv, TokensTypeOK
<1>3. PICK t \in Tokens : t = client.token
  BY <1>2 DEF Client
<1>4. PICK row \in Row : row = tokens[t]
  BY <1>1, <1>2, <1>3 DEF TokensInv, TokensTypeOK, Referred
<1>5. PICK new : new = [row EXCEPT !.used = TRUE]
  OBVIOUS
<1>6. new \in Row /\ new.secret = row.secret /\ (row.revoked <=> new.revoked) /\ new # NoRow
  BY <1>5, RowIsNoMark DEF Row
<1>7. tokens' = [tokens EXCEPT ![t] = new]
  BY <1>1, <1>3, <1>4, <1>5 DEF StampUse
<1>8. tokens'[t] = new /\ \A u \in Tokens : u # t => tokens'[u] = tokens[u]
  BY <1>7 DEF TokensInv, TokensTypeOK
<1>9. PICK next : next = [client EXCEPT !.at = "limit"]
  OBVIOUS
<1>10. next \in Client /\ next.token = client.token
  BY <1>2, <1>9 DEF Client
<1>11. clients' = [clients EXCEPT ![q] = IF client.granted THEN next ELSE Done]
  BY <1>1, <1>9 DEF StampUse
<1>12. TokensTypeOK'
  <2>1. tokens' \in [Tokens -> Row \cup {NoRow}]
    BY <1>6, <1>7 DEF TokensInv, TokensTypeOK
  <2>2. clients' \in [Clients -> Client \cup {Done}]
    BY <1>10, <1>11 DEF TokensInv, TokensTypeOK
  <2>3. QED
    BY <2>1, <2>2 DEF StampUse, TokensInv, TokensTypeOK, reminding
<1>13. RowsKept
  BY <1>4, <1>6, <1>8 DEF RowsKept
<1>14. Referred'
  <2>1. \A p \in Clients : \/ clients'[p] = Done
                           \/ clients[p] # Done /\ clients'[p].token = clients[p].token
    BY <1>1, <1>2, <1>10, <1>11, ClientIsUnderWay DEF TokensInv, TokensTypeOK
  <2>2. rotating' = rotating
    BY DEF StampUse
  <2>3. QED
    BY <1>13, <2>1, <2>2, ReferredKept
<1>15. Drawn' /\ Retired'
  BY <1>4, <1>6, <1>8, <1>13, RowIsNoMark, SecretsKept DEF StampUse
<1>16. QED
  BY <1>12, <1>14, <1>15 DEF TokensInv

LEMMA AllowStep ==
    ASSUME TokensInv, NEW q \in Clients, Allow(q)
    PROVE  TokensInv'
<1>1. PICK client : client = clients[q]
  OBVIOUS
<1>2. client \in Client /\ client.at = "limit"
  BY <1>1, ClientIsUnderWay DEF Allow, TokensInv, TokensTypeOK
<1>3. PICK t \in Tokens : t = client.token
  BY <1>2 DEF Client
<1>4. now \in Nat /\ now \in 0..MaxTime
  BY ClockAssumption DEF TokensInv, TokensTypeOK
<1>5. Hit(t) \in [count : Nat, start : Nat]
  <2>1. ASSUME windows[t] # NoWindow
        PROVE  [windows[t] EXCEPT !.count = @ + 1] \in [count : Nat, start : Nat]
    <3>1. windows[t] \in [count : Nat, start : Nat]
      BY <2>1 DEF TokensInv, TokensTypeOK
    <3>2. QED
      BY <3>1
  <2>2. QED
    BY <1>4, <2>1 DEF Hit, Over
<1>6. windows' \in [Tokens -> [count : Nat, start : Nat] \cup {NoWindow}]
  <2>1. PrunedWindows \in [Tokens -> [count : Nat, start : Nat] \cup {NoWindow}]
    BY DEF PrunedWindows, TokensInv, TokensTypeOK
  <2>2. windows' = windows \/ windows' = [PrunedWindows EXCEPT ![t] = Hit(t)]
    BY <1>1, <1>3 DEF Allow
  <2>3. windows \in [Tokens -> [count : Nat, start : Nat] \cup {NoWindow}]
    BY DEF TokensInv, TokensTypeOK
  <2>4. QED
    BY <1>5, <2>1, <2>2, <2>3
<1>7. hits' \in [Tokens -> Seq(0..MaxTime)]
  <2>1. Append(hits[t], now) \in Seq(0..MaxTime)
    BY <1>4 DEF TokensInv, TokensTypeOK
  <2>2. QED
    BY <1>1, <1>3, <2>1 DEF Allow, TokensInv, TokensTypeOK
<1>8. TokensTypeOK'
  BY <1>6, <1>7 DEF Allow, TokensInv, TokensTypeOK, reminding
<1>9. Referred'
  BY DEF Allow, TokensInv, TokensTypeOK, Referred
<1>10. Drawn' /\ Retired'
  BY DEF Allow, TokensInv, Drawn, Retired
<1>11. QED
  BY <1>8, <1>9, <1>10 DEF TokensInv

\* The expiry check, a restart and the clock leave the rows alone.
LEMMA OtherStep ==
    ASSUME TokensInv,
           \/ ListExpiring
           \/ \E t \in Tokens : CheckTokenExpiry(t)
           \/ TokensRestart
           \/ TokensTick
    PROVE  TokensInv'
<1>1. Drawn' /\ Retired'
  BY DEF ListExpiring, CheckTokenExpiry, TokensRestart, TokensTick, TokensInv, Drawn, Retired
<1>2. Referred'
  BY DEF ListExpiring, CheckTokenExpiry, TokensRestart, TokensTick, TokensInv, Referred
<1>3. CASE ListExpiring
  BY <1>1, <1>2, <1>3 DEF ListExpiring, TokensInv, TokensTypeOK
<1>4. CASE \E t \in Tokens : CheckTokenExpiry(t)
  BY <1>1, <1>2, <1>4 DEF CheckTokenExpiry, TokensInv, TokensTypeOK
<1>5. CASE TokensRestart
  BY <1>1, <1>2, <1>5, CallsBound DEF TokensRestart, Call, TokensInv, TokensTypeOK, NoHits
<1>6. CASE TokensTick
  BY <1>1, <1>2, <1>6, ClockAssumption DEF TokensTick, Tick, TokensInv, TokensTypeOK, reminding
<1>7. QED
  BY <1>1, <1>2, <1>3, <1>4, <1>5, <1>6 DEF TokensInv

LEMMA TokensStep ==
    ASSUME TokensInv, TokensNext
    PROVE  TokensInv'
<1>1. ASSUME NEW t \in Tokens, Revoke(t) PROVE TokensInv'
  BY <1>1, RevokeStep
<1>2. ASSUME NEW t \in Unused, NEW days \in Lifetimes,
             NEW scopes \in SUBSET (Scopes \cup {Wildcard, "unknown"}),
             NEW allowed \in SUBSET Sources, NEW limit \in Limits,
             Mint(t, days, scopes, allowed, limit)
      PROVE  TokensInv'
  BY <1>2, MintStep DEF Unused
<1>3. ASSUME NEW t \in Tokens, NEW o \in Rotators, RotateLookup(o, t) PROVE TokensInv'
  BY <1>3, LookupStep
<1>4. ASSUME NEW t \in Tokens, NEW q \in Clients, NEW secret \in 0..(minted - 1),
             NEW source \in Sources \cup {"elsewhere"},
             NEW path \in Scopes \cup {"version", "other"}, Validate(q, t, secret, source, path)
      PROVE  TokensInv'
  BY <1>4, ValidateStep
<1>5. ASSUME NEW o \in Rotators, Rotate(o) PROVE TokensInv'
  BY <1>5, RotateStep
<1>6. ASSUME NEW q \in Clients, StampUse(q) \/ Allow(q) PROVE TokensInv'
  BY <1>6, StampStep, AllowStep
<1>7. CASE ListExpiring \/ (\E t \in Tokens : CheckTokenExpiry(t)) \/ TokensRestart \/ TokensTick
  BY <1>7, OtherStep
<1>8. QED
  BY <1>1, <1>2, <1>3, <1>4, <1>5, <1>6, <1>7 DEF TokensNext

-----------------------------------------------------------------------------
(* Tokens: the theorems *)

\* What was said of rows, secrets and handlers is invariant.
THEOREM TokensInvariant == TokensSpec => []TokensInv
<1>1. TokensInv /\ UNCHANGED tokenVars => TokensInv'
  BY DEF TokensInv, TokensTypeOK, Referred, Drawn, Retired, tokenVars, reminding
<1>2. QED
  BY <1>1, TokensInitInv, TokensStep, PTL DEF TokensSpec

\* The variables of Tokens keep their types.
THEOREM TokensTypeCorrect == TokensSpec => []TokensTypeOK
BY TokensInvariant, PTL DEF TokensInv

\* A secret that was revoked or replaced is never accepted again, nor any secret of a
\* token that was revoked, however rotations, revocations and requests interleave.
THEOREM RetiredStaysOutHolds == TokensSpec => []RetiredStaysOut
<1>1. TokensInv => RetiredStaysOut
  BY DEF TokensInv, TokensTypeOK, Retired, RetiredStaysOut, Valid
<1>2. QED
  BY <1>1, TokensInvariant, PTL
-----------------------------------------------------------------------------
(* Logs of instants.  The bounds of Login and of Tokens are about how close together  *)
(* the instants of a log are; both arguments come down to which of them are past.     *)

\* A log in the order of the clock, up to a time.
Ordered(log, time) ==
    /\ \A n \in 1..Len(log) : log[n] <= time
    /\ \A m, n \in 1..Len(log) : m <= n => log[m] <= log[n]

\* Of any most + 1 entries in a row, the last is a gap or more after the first.
Spaced(log, most, gap) ==
    \A n \in 1..(Len(log) - most) : log[n + most] >= log[n] + gap

\* The first k entries are of that time or before it.
Past(log, k, time) == \A n \in 1..Len(log) : n <= k => log[n] <= time

LEMMA EmptyLog ==
    ASSUME NEW time \in Int, NEW most \in Nat, NEW gap \in Int
    PROVE  Ordered(<<>>, time) /\ Spaced(<<>>, most, gap) /\ \A k \in Int : Past(<<>>, k, time)
BY DEF Ordered, Spaced, Past

LEMMA OrderedLater ==
    ASSUME NEW log \in Seq(Nat), NEW time \in Int, NEW later \in Int, time <= later,
           Ordered(log, time)
    PROVE  Ordered(log, later)
<1>1. \A n \in 1..Len(log) : log[n] \in Nat
  OBVIOUS
<1>2. QED
  BY <1>1 DEF Ordered

LEMMA PastLess ==
    ASSUME NEW log \in Seq(Nat), NEW time \in Int, NEW later \in Int, time <= later,
           NEW k \in Int, NEW fewer \in Int, fewer <= k, Past(log, k, time)
    PROVE  Past(log, fewer, later)
<1>1. \A n \in 1..Len(log) : log[n] \in Nat
  OBVIOUS
<1>2. QED
  BY <1>1 DEF Past

\* What comes before an entry that is past is past.
LEMMA PastBefore ==
    ASSUME NEW log \in Seq(Nat), NEW time \in Int, Ordered(log, time),
           NEW k \in 1..Len(log), NEW then \in Int, log[k] <= then
    PROVE  Past(log, k, then)
<1>1. \A n \in 1..Len(log) : log[n] \in Nat
  OBVIOUS
<1>2. QED
  BY <1>1 DEF Ordered, Past

LEMMA AllPast ==
    ASSUME NEW log \in Seq(Nat), NEW time \in Int, Ordered(log, time), NEW k \in Int
    PROVE  Past(log, k, time)
BY DEF Ordered, Past

LEMMA AppendFacts ==
    ASSUME NEW log \in Seq(Nat), NEW time \in Nat
    PROVE  /\ Append(log, time) \in Seq(Nat)
           /\ Len(Append(log, time)) = Len(log) + 1 /\ Len(log) \in Nat
           /\ \A n \in 1..Len(log) : Append(log, time)[n] = log[n] /\ log[n] \in Nat
           /\ Append(log, time)[Len(log) + 1] = time
OBVIOUS

LEMMA AppendOrdered ==
    ASSUME NEW log \in Seq(Nat), NEW time \in Nat, Ordered(log, time)
    PROVE  Ordered(Append(log, time), time)
<1>1. PICK longer : longer = Append(log, time)
  OBVIOUS
<1>2. /\ Len(longer) = Len(log) + 1 /\ Len(log) \in Nat
      /\ \A n \in 1..Len(log) : longer[n] = log[n] /\ log[n] \in Nat
      /\ longer[Len(log) + 1] = time
  BY <1>1, AppendFacts
<1>3. \A n \in 1..Len(log) : log[n] <= time
  BY DEF Ordered
<1>4. \A n \in 1..Len(longer) : longer[n] <= time
  <2>1. \A n \in 1..Len(longer) : n \in 1..Len(log) \/ n = Len(log) + 1
    BY <1>2
  <2>2. QED
    BY <1>2, <1>3, <2>1
<1>5. ASSUME NEW m \in 1..Len(longer), NEW n \in 1..Len(longer), m <= n
      PROVE  longer[m] <= longer[n]
  <2>1. CASE n = Len(log) + 1
    BY <1>2, <1>4, <2>1
  <2>2. CASE n # Len(log) + 1
    <3>1. m \in 1..Len(log) /\ n \in 1..Len(log)
      BY <1>2, <1>5, <2>2
    <3>2. log[m] <= log[n]
      BY <1>5, <3>1 DEF Ordered
    <3>3. QED
      BY <1>2, <3>1, <3>2
  <2>3. QED
    BY <2>1, <2>2
<1>6. Ordered(longer, time)
  BY <1>4, <1>5 DEF Ordered
<1>7. QED
  BY <1>1, <1>6

\* One more entry keeps the gaps when what it would be too close to is past.
LEMMA AppendSpaced ==
    ASSUME NEW log \in Seq(Nat), NEW time \in Nat, NEW most \in Nat \ {0}, NEW gap \in Nat,
           Spaced(log, most, gap), Past(log, Len(log) + 1 - most, time - gap)
    PROVE  Spaced(Append(log, time), most, gap)
<1>1. PICK longer : longer = Append(log, time)
  OBVIOUS
<1>2. /\ Len(longer) = Len(log) + 1 /\ Len(log) \in Nat
      /\ \A n \in 1..Len(log) : longer[n] = log[n] /\ log[n] \in Nat
      /\ longer[Len(log) + 1] = time
  BY <1>1, AppendFacts
<1>3. ASSUME NEW n \in 1..(Len(longer) - most)
      PROVE  longer[n + most] >= longer[n] + gap
  <2>1. n \in Nat /\ n >= 1 /\ most \in Nat /\ most >= 1 /\ n + most <= Len(log) + 1
        /\ Len(log) \in Nat
    BY <1>2
  <2>2. n \in 1..Len(log) /\ longer[n] = log[n] /\ log[n] \in Nat
    <3>1. n \in 1..Len(log)
      BY <2>1
    <3>2. QED
      BY <1>2, <3>1
  <2>3. CASE n + most = Len(log) + 1
    <3>1. n <= Len(log) + 1 - most
      BY <1>2, <2>1, <2>3
    <3>2. log[n] <= time - gap
      BY <2>2, <3>1 DEF Past
    <3>3. longer[n + most] = time
      BY <1>2, <2>3
    <3>4. QED
      BY <2>2, <3>2, <3>3
  <2>4. CASE n + most <= Len(log)
    <3>1. n \in 1..(Len(log) - most) /\ n + most \in 1..Len(log)
      BY <1>2, <2>1, <2>4
    <3>2. log[n + most] >= log[n] + gap
      BY <3>1 DEF Spaced
    <3>3. longer[n + most] = log[n + most]
      BY <1>2, <3>1
    <3>4. QED
      BY <2>2, <3>2, <3>3
  <2>5. n + most = Len(log) + 1 \/ n + most <= Len(log)
    BY <2>1
  <2>6. QED
    BY <2>3, <2>4, <2>5
<1>4. Spaced(longer, most, gap)
  BY <1>3 DEF Spaced
<1>5. QED
  BY <1>1, <1>4

LEMMA AppendPast ==
    ASSUME NEW log \in Seq(Nat), NEW time \in Nat, NEW then \in Int, NEW k \in Int,
           Past(log, k, then), k <= Len(log) \/ time <= then
    PROVE  Past(Append(log, time), k, then)
<1>1. PICK longer : longer = Append(log, time)
  OBVIOUS
<1>2. /\ Len(longer) = Len(log) + 1 /\ Len(log) \in Nat
      /\ \A n \in 1..Len(log) : longer[n] = log[n] /\ log[n] \in Nat
      /\ longer[Len(log) + 1] = time
  BY <1>1, AppendFacts
<1>3. ASSUME NEW n \in 1..Len(longer), n <= k PROVE longer[n] <= then
  <2>1. CASE n \in 1..Len(log)
    <3>1. longer[n] = log[n] /\ log[n] <= then
      BY <1>2, <1>3, <2>1 DEF Past
    <3>2. QED
      BY <3>1
  <2>2. CASE n \notin 1..Len(log)
    <3>1. n = Len(log) + 1
      BY <1>2, <1>3, <2>2
    <3>2. longer[n] = time /\ time <= then
      BY <1>2, <1>3, <3>1
    <3>3. QED
      BY <3>2
  <2>3. QED
    BY <2>1, <2>2
<1>4. QED
  BY <1>1, <1>3 DEF Past

-----------------------------------------------------------------------------
(* Tokens: the rate.  The requests let through in the window of a token are the last  *)
(* of its log, and the first of them began the window; a limit before them lies what  *)
(* is a minute older than the window.                                                *)

InWindow(w, limit) == IF w.count < limit THEN w.count ELSE limit

RateOf(log, limit, w, time) ==
    /\ Ordered(log, time)
    /\ Spaced(log, 2 * limit - 1, Minute)
    /\ IF w = NoWindow THEN Past(log, Len(log) - limit + 1, time - Minute)
       ELSE /\ w.count >= 1 /\ w.start <= time
            /\ InWindow(w, limit) <= Len(log)
            /\ log[Len(log) - InWindow(w, limit) + 1] = w.start
            /\ Past(log, Len(log) - InWindow(w, limit) - limit + 1, w.start - Minute)

Counter == [count : Nat, start : Nat]

LEMMA CounterIsNoMark ==
    ASSUME NEW w \in Counter
    PROVE  w # NoWindow /\ w.count \in Nat /\ w.start \in Nat
<1>1. NoWindow.start = -1
  BY DEF NoWindow, Never
<1>2. QED
  BY <1>1 DEF Counter

\* A window that is over is as good as none.
LEMMA RateDropped ==
    ASSUME NEW log \in Seq(Nat), NEW limit \in Nat \ {0}, NEW w \in Counter, NEW time \in Nat,
           RateOf(log, limit, w, time), time - w.start >= Minute
    PROVE  RateOf(log, limit, NoWindow, time)
<1>1. PICK c \in Nat \ {0} : c = InWindow(w, limit) /\ c <= limit /\ c <= Len(log)
  BY CounterIsNoMark DEF InWindow, RateOf
<1>2. Len(log) - c + 1 \in 1..Len(log)
  BY <1>1
<1>3. log[Len(log) - c + 1] <= time - Minute
  <2>1. PICK start \in Nat : start = w.start
    BY CounterIsNoMark
  <2>2. log[Len(log) - c + 1] = start
    BY <1>1, <2>1, CounterIsNoMark DEF RateOf
  <2>3. start <= time - Minute
    BY <2>1, TokensAssumption
  <2>4. QED
    BY <2>2, <2>3
<1>4. Past(log, Len(log) - c + 1, time - Minute)
  <2>1. time - Minute \in Int
    BY TokensAssumption
  <2>2. Ordered(log, time)
    BY DEF RateOf
  <2>3. QED
    BY <1>2, <1>3, <2>1, <2>2, PastBefore
<1>5. Past(log, Len(log) - limit + 1, time - Minute)
  BY <1>1, <1>4, PastLess, TokensAssumption
<1>6. QED
  BY <1>5 DEF RateOf

\* The first request of a window.
LEMMA RateBegun ==
    ASSUME NEW log \in Seq(Nat), NEW limit \in Nat \ {0}, NEW time \in Nat,
           RateOf(log, limit, NoWindow, time)
    PROVE  RateOf(Append(log, time), limit, [count |-> 1, start |-> time], time)
<1>1. PICK w : w = [count |-> 1, start |-> time]
  OBVIOUS
<1>2. w \in Counter /\ w.count = 1 /\ w.start = time /\ w # NoWindow
  BY <1>1, CounterIsNoMark DEF Counter
<1>3. PICK longer : longer = Append(log, time)
  OBVIOUS
<1>4. /\ longer \in Seq(Nat) /\ Len(longer) = Len(log) + 1 /\ Len(log) \in Nat
      /\ longer[Len(log) + 1] = time
  BY <1>3, AppendFacts
<1>5. Ordered(log, time) /\ Spaced(log, 2 * limit - 1, Minute)
  BY DEF RateOf
<1>6. Past(log, Len(log) - limit + 1, time - Minute)
  BY DEF RateOf
<1>7. Ordered(longer, time)
  BY <1>3, <1>5, AppendOrdered
<1>8. Spaced(longer, 2 * limit - 1, Minute)
  <2>1. Past(log, Len(log) + 1 - (2 * limit - 1), time - Minute)
    BY <1>4, <1>6, PastLess, TokensAssumption
  <2>2. QED
    BY <1>3, <1>5, <2>1, AppendSpaced, TokensAssumption
<1>9. InWindow(w, limit) = 1
  BY <1>2 DEF InWindow
<1>10. Past(longer, Len(log) - limit + 1, time - Minute)
  BY <1>3, <1>4, <1>6, AppendPast, TokensAssumption
<1>11. RateOf(longer, limit, w, time)
  BY <1>2, <1>4, <1>7, <1>8, <1>9, <1>10 DEF RateOf
<1>12. QED
  BY <1>1, <1>3, <1>11

\* One more request of a window, let through or not.
LEMMA RateCounted ==
    ASSUME NEW log \in Seq(Nat), NEW limit \in Nat \ {0}, NEW w \in Counter, NEW time \in Nat,
           RateOf(log, limit, w, time),
           NEW next \in Counter, next.count = w.count + 1, next.start = w.start
    PROVE  IF next.count <= limit THEN RateOf(Append(log, time), limit, next, time)
           ELSE RateOf(log, limit, next, time)
<1>1. w # NoWindow /\ next # NoWindow /\ w.count \in Nat /\ w.start \in Nat
  BY CounterIsNoMark
<1>2. Ordered(log, time) /\ Spaced(log, 2 * limit - 1, Minute)
  BY DEF RateOf
<1>3. CASE next.count <= limit
  <2>1. PICK c \in Nat : c = w.count /\ c + 1 <= limit /\ c >= 1 /\ c <= Len(log)
    BY <1>1, <1>3 DEF RateOf, InWindow
  <2>2. InWindow(w, limit) = c /\ InWindow(next, limit) = c + 1
    BY <1>1, <1>3, <2>1 DEF InWindow
  <2>3. Past(log, Len(log) - c - limit + 1, w.start - Minute) /\ w.start <= time
    BY <1>1, <2>2 DEF RateOf
  <2>4. log[Len(log) - c + 1] = w.start
    BY <1>1, <2>2 DEF RateOf
  <2>5. PICK longer : longer = Append(log, time)
    OBVIOUS
  <2>6. /\ longer \in Seq(Nat) /\ Len(longer) = Len(log) + 1 /\ Len(log) \in Nat
        /\ \A n \in 1..Len(log) : longer[n] = log[n]
    BY <2>5, AppendFacts
  <2>7. PICK last \in Nat : last = Len(log) /\ last + 1 = Len(longer) /\ c <= last
    BY <2>1, <2>6
  <2>8. /\ last + 1 - (2 * limit - 1) <= last - c - limit + 1
        /\ last - c - limit + 1 <= last /\ last - c + 1 \in 1..last
        /\ last + 1 - (c + 1) - limit + 1 = last - c - limit + 1
        /\ last + 1 - (c + 1) + 1 = last - c + 1
        /\ last + 1 - (2 * limit - 1) \in Int /\ last - c - limit + 1 \in Int
    <3>1. c \in Nat /\ limit \in Nat /\ c >= 1 /\ c + 1 <= limit /\ c <= last
      BY <2>1, <2>7
    <3>2. QED
      BY <3>1
  <2>9. w.start - Minute \in Int /\ time - Minute \in Int /\ w.start - Minute <= time - Minute
    BY <1>1, <2>3, TokensAssumption
  <2>10. Past(log, last - c - limit + 1, w.start - Minute)
    BY <2>3, <2>7
  <2>11. Ordered(longer, time)
    BY <1>2, <2>5, AppendOrdered
  <2>12. Spaced(longer, 2 * limit - 1, Minute)
    <3>1. Past(log, last + 1 - (2 * limit - 1), time - Minute)
      BY <2>8, <2>9, <2>10, PastLess
    <3>2. 2 * limit - 1 \in Nat \ {0}
      OBVIOUS
    <3>3. Minute \in Nat
      BY TokensAssumption
    <3>4. Past(log, Len(log) + 1 - (2 * limit - 1), time - Minute)
      BY <2>7, <3>1
    <3>5. QED
      BY <1>2, <2>5, <3>2, <3>3, <3>4, AppendSpaced
  <2>13. Past(longer, last - c - limit + 1, w.start - Minute)
    BY <2>5, <2>7, <2>8, <2>9, <2>10, AppendPast
  <2>14. longer[last - c + 1] = w.start
    BY <2>4, <2>6, <2>7, <2>8
  <2>15. /\ InWindow(next, limit) <= Len(longer)
         /\ longer[Len(longer) - InWindow(next, limit) + 1] = w.start
         /\ Past(longer, Len(longer) - InWindow(next, limit) - limit + 1, w.start - Minute)
    <3>1. Len(longer) = last + 1 /\ InWindow(next, limit) = c + 1
      BY <2>2, <2>7
    <3>2. c + 1 <= last + 1
      BY <2>7
    <3>3. longer[last + 1 - (c + 1) + 1] = w.start
      BY <2>8, <2>14
    <3>4. Past(longer, last + 1 - (c + 1) - limit + 1, w.start - Minute)
      BY <2>8, <2>13
    <3>5. QED
      BY <3>1, <3>2, <3>3, <3>4
  <2>16. next.count >= 1 /\ next.start <= time /\ next.start = w.start
    BY <1>1, <2>3
  <2>17. RateOf(longer, limit, next, time)
    BY <1>1, <2>11, <2>12, <2>15, <2>16 DEF RateOf
  <2>18. QED
    BY <1>3, <2>5, <2>17
<1>4. CASE next.count > limit
  <2>1. InWindow(w, limit) = limit /\ InWindow(next, limit) = limit
    BY <1>1, <1>4 DEF InWindow
  <2>2. next.count >= 1
    BY <1>1
  <2>3. QED
    BY <1>1, <1>4, <2>1, <2>2 DEF RateOf
<1>5. QED
  BY <1>1, <1>3, <1>4 DEF Counter

LEMMA RateLater ==
    ASSUME NEW log \in Seq(Nat), NEW limit \in Nat \ {0}, NEW w \in Counter \cup {NoWindow},
           NEW time \in Nat, NEW later \in Nat, time <= later, RateOf(log, limit, w, time)
    PROVE  RateOf(log, limit, w, later)
<1>1. Ordered(log, later)
  BY OrderedLater DEF RateOf
<1>2. CASE w = NoWindow
  <2>1. Past(log, Len(log) - limit + 1, time - Minute)
    BY <1>2 DEF RateOf
  <2>2. Past(log, Len(log) - limit + 1, later - Minute)
    BY <2>1, PastLess, TokensAssumption
  <2>3. QED
    BY <1>1, <1>2, <2>2 DEF RateOf
<1>3. CASE w # NoWindow
  <2>1. w.start \in Nat
    BY <1>3, CounterIsNoMark
  <2>2. QED
    BY <1>1, <1>3, <2>1 DEF RateOf
<1>4. QED
  BY <1>2, <1>3

\* The limit a request goes by is that of its token, and the log of every token is as
\* its limit and its window say.
RateAt(t) ==
    /\ tokens[t] = NoRow => hits[t] = <<>> /\ windows[t] = NoWindow
    /\ tokens[t] # NoRow /\ tokens[t].limit = 0 => hits[t] = <<>>
    /\ tokens[t] # NoRow /\ tokens[t].limit > 0 => RateOf(hits[t], tokens[t].limit, windows[t], now)

LimitsKept == \A q \in Clients : clients[q] # Done => clients[q].limit = tokens[clients[q].token].limit

RateInv == LimitsKept /\ \A t \in Tokens : RateAt(t)

\* A step that changes no limit.
LimitsStay ==
    \A t \in Tokens :
      /\ tokens'[t] = NoRow <=> tokens[t] = NoRow
      /\ tokens[t] # NoRow => tokens'[t].limit = tokens[t].limit

LEMMA LimitOfRow ==
    ASSUME TokensInv, NEW t \in Tokens, tokens[t] # NoRow
    PROVE  tokens[t].limit \in Nat
<1>1. tokens[t] \in Row
  BY DEF TokensInv, TokensTypeOK
<1>2. QED
  BY <1>1, TokensAssumption DEF Row

LEMMA LogOfToken ==
    ASSUME TokensInv, NEW t \in Tokens
    PROVE  hits[t] \in Seq(Nat) /\ windows[t] \in Counter \cup {NoWindow} /\ now \in Nat
<1>1. hits[t] \in Seq(0..MaxTime) /\ windows[t] \in Counter \cup {NoWindow}
  BY DEF TokensInv, TokensTypeOK, Counter
<1>2. 0..MaxTime \subseteq Nat
  OBVIOUS
<1>3. now \in Nat
  BY <1>2 DEF TokensInv, TokensTypeOK
<1>4. hits[t] \in Seq(Nat)
  BY <1>1, <1>2, SeqMonotonic
<1>5. QED
  BY <1>1, <1>3, <1>4

LEMMA RowWritten ==
    ASSUME TokensInv, NEW t \in Tokens, tokens[t] # NoRow, NEW row \in Row,
           row.limit = tokens[t].limit, tokens' = [tokens EXCEPT ![t] = row]
    PROVE  LimitsStay
<1>1. tokens'[t] = row /\ row # NoRow
  BY RowIsNoMark DEF TokensInv, TokensTypeOK
<1>2. \A u \in Tokens : u # t => tokens'[u] = tokens[u]
  BY DEF TokensInv, TokensTypeOK
<1>3. QED
  BY <1>1, <1>2 DEF LimitsStay

LEMMA ClientsGoOn ==
    ASSUME TokensInv, LimitsKept, LimitsStay,
           \A q \in Clients : \/ clients'[q] = Done
                              \/ /\ clients[q] # Done /\ clients'[q].token = clients[q].token
                                 /\ clients'[q].limit = clients[q].limit
    PROVE  LimitsKept'
<1>1. \A q \in Clients : clients[q] # Done =>
        clients[q].token \in Tokens /\ tokens[clients[q].token] # NoRow
  BY DEF TokensInv, TokensTypeOK, Client, Referred
<1>2. QED
  BY <1>1 DEF LimitsKept, LimitsStay

LEMMA RateStays ==
    ASSUME TokensInv, RateInv, LimitsStay, UNCHANGED <<now, windows, hits>>
    PROVE  \A t \in Tokens : RateAt(t)'
BY DEF RateInv, RateAt, LimitsStay

LEMMA RateOfNothing ==
    ASSUME NEW limit \in Nat \ {0}, NEW time \in Nat
    PROVE  RateOf(<<>>, limit, NoWindow, time)
<1>1. time - Minute \in Int /\ 2 * limit - 1 \in Nat /\ Len(<<>>) - limit + 1 \in Int
  BY TokensAssumption
<1>2. QED
  BY <1>1, EmptyLog, TokensAssumption DEF RateOf

LEMMA MintRate ==
    ASSUME TokensInv, RateInv, NEW t \in Tokens, NEW days \in Lifetimes, NEW scopes, t \in Unused,
           NEW limit \in Limits, NEW allowed \in SUBSET Sources, Mint(t, days, scopes, allowed, limit)
    PROVE  RateInv'
<1>1. PICK row : row = [secret |-> minted, revoked |-> FALSE, used |-> FALSE,
                        expires |-> IF days > 0 THEN now + days ELSE Never,
                        scopes |-> scopes, allowed |-> allowed, limit |-> limit]
  OBVIOUS
<1>2. row.limit = limit /\ row # NoRow
  <2>1. DOMAIN NoRow = {"absent"} /\ "secret" \in DOMAIN row
    BY <1>1 DEF NoRow
  <2>2. QED
    BY <1>1, <2>1
<1>3. tokens[t] = NoRow /\ tokens' = [tokens EXCEPT ![t] = row] /\ UNCHANGED <<now, windows, hits, clients>>
  BY <1>1 DEF Mint, Unused
<1>4. tokens'[t] = row /\ \A u \in Tokens : u # t => tokens'[u] = tokens[u]
  BY <1>3 DEF TokensInv, TokensTypeOK
<1>5. limit \in Nat
  BY TokensAssumption
<1>6. LimitsKept'
  <2>1. \A q \in Clients : clients[q] # Done => clients[q].token \in Tokens /\ clients[q].token # t
    BY <1>3 DEF TokensInv, TokensTypeOK, Client, Referred
  <2>2. QED
    BY <1>3, <1>4, <2>1 DEF RateInv, LimitsKept
<1>7. ASSUME NEW u \in Tokens, u # t PROVE RateAt(u)'
  <2>1. RateAt(u)
    BY DEF RateInv
  <2>2. QED
    BY <1>3, <1>4, <1>7, <2>1 DEF RateAt
<1>8. RateAt(t)'
  <2>1. hits[t] = <<>> /\ windows[t] = NoWindow
    BY <1>3 DEF RateInv, RateAt
  <2>2. limit > 0 => RateOf(<<>>, limit, NoWindow, now)
    BY <1>5, LogOfToken, RateOfNothing
  <2>3. QED
    BY <1>2, <1>3, <1>4, <2>1, <2>2 DEF RateAt
<1>9. QED
  BY <1>6, <1>7, <1>8 DEF RateInv

LEMMA RowStepsRate ==
    ASSUME TokensInv, RateInv,
           \/ \E t \in Tokens : Revoke(t)
           \/ \E o \in Rotators : Rotate(o)
    PROVE  RateInv'
<1>1. LimitsStay /\ UNCHANGED <<now, windows, hits, clients>>
  <2>1. ASSUME NEW t \in Tokens, Revoke(t)
        PROVE  LimitsStay /\ UNCHANGED <<now, windows, hits, clients>>
    <3>1. tokens[t] # NoRow /\ tokens[t] \in Row
      BY <2>1 DEF Revoke, TokensInv, TokensTypeOK
    <3>2. PICK row \in Row : row = tokens[t]
      BY <3>1
    <3>3. PICK new : new = [row EXCEPT !.revoked = TRUE]
      OBVIOUS
    <3>4. new \in Row /\ new.limit = row.limit
      BY <3>3 DEF Row
    <3>5. tokens' = [tokens EXCEPT ![t] = new]
      BY <2>1, <3>2, <3>3 DEF Revoke
    <3>6. QED
      BY <2>1, <3>1, <3>2, <3>4, <3>5, RowWritten DEF Revoke
  <2>2. ASSUME NEW o \in Rotators, Rotate(o)
        PROVE  LimitsStay /\ UNCHANGED <<now, windows, hits, clients>>
    <3>1. PICK t : t = rotating[o]
      OBVIOUS
    <3>2. t \in Tokens /\ tokens[t] # NoRow /\ tokens[t] \in Row
      BY <2>2, <3>1 DEF Rotate, Replace, TokensInv, TokensTypeOK, Referred
    <3>3. PICK row \in Row : row = tokens[t]
      BY <3>2
    <3>4. PICK new : new = [row EXCEPT !.secret = minted, !.used = FALSE]
      OBVIOUS
    <3>5. new \in Row /\ new.limit = row.limit
      BY <3>4 DEF Row, TokensInv, TokensTypeOK
    <3>6. tokens' = [tokens EXCEPT ![t] = new]
      BY <2>2, <3>1, <3>3, <3>4 DEF Rotate, Replace
    <3>7. QED
      BY <2>2, <3>2, <3>3, <3>5, <3>6, RowWritten DEF Rotate, Replace
  <2>3. QED
    BY <2>1, <2>2
<1>2. LimitsKept'
  <2>1. \A q \in Clients : \/ clients'[q] = Done
                           \/ /\ clients[q] # Done /\ clients'[q].token = clients[q].token
                              /\ clients'[q].limit = clients[q].limit
    BY <1>1
  <2>2. QED
    BY <1>1, <2>1, ClientsGoOn DEF RateInv
<1>3. QED
  BY <1>1, <1>2, RateStays DEF RateInv

LEMMA ValidateRate ==
    ASSUME TokensInv, RateInv, NEW q \in Clients, NEW t \in Tokens, NEW secret, NEW source, NEW path,
           Validate(q, t, secret, source, path)
    PROVE  RateInv'
<1>1. PICK client : client = [at |-> "stamp", token |-> t, limit |-> tokens[t].limit,
        granted |-> SourceAllowed(tokens[t], source) /\ ScopeGrants(tokens[t], path)]
  OBVIOUS
<1>2. client.token = t /\ client.limit = tokens[t].limit
  BY <1>1
<1>3. clients' = [clients EXCEPT ![q] = client] /\ UNCHANGED <<now, tokens, windows, hits>>
  BY <1>1 DEF Validate
<1>4. LimitsKept'
  BY <1>2, <1>3 DEF RateInv, LimitsKept, TokensInv, TokensTypeOK
<1>5. LimitsStay
  BY <1>3 DEF LimitsStay
<1>6. QED
  BY <1>3, <1>4, <1>5, RateStays DEF RateInv

LEMMA StampRate ==
    ASSUME TokensInv, RateInv, NEW q \in Clients, StampUse(q)
    PROVE  RateInv'
<1>1. PICK client : client = clients[q]
  OBVIOUS
<1>2. client \in Client /\ client.at = "stamp" /\ client # Done
  BY <1>1, ClientIsUnderWay DEF StampUse, TokensInv, TokensTypeOK
<1>3. PICK t \in Tokens : t = client.token
  BY <1>2 DEF Client
<1>4. PICK row \in Row : row = tokens[t] /\ tokens[t] # NoRow
  BY <1>1, <1>2, <1>3 DEF TokensInv, TokensTypeOK, Referred
<1>5. PICK new : new = [row EXCEPT !.used = TRUE]
  OBVIOUS
<1>6. new \in Row /\ new.limit = row.limit
  BY <1>5 DEF Row
<1>7. tokens' = [tokens EXCEPT ![t] = new]
  BY <1>1, <1>3, <1>4, <1>5 DEF StampUse
<1>8. LimitsStay
  BY <1>4, <1>6, <1>7, RowWritten
<1>9. PICK next : next = [client EXCEPT !.at = "limit"]
  OBVIOUS
<1>10. next.token = client.token /\ next.limit = client.limit
  BY <1>2, <1>9 DEF Client
<1>11. clients' = [clients EXCEPT ![q] = IF client.granted THEN next ELSE Done]
  BY <1>1, <1>9 DEF StampUse
<1>12. \A p \in Clients : \/ clients'[p] = Done
                          \/ /\ clients[p] # Done /\ clients'[p].token = clients[p].token
                             /\ clients'[p].limit = clients[p].limit
  BY <1>1, <1>2, <1>10, <1>11 DEF TokensInv, TokensTypeOK
<1>13. UNCHANGED <<now, windows, hits>>
  BY DEF StampUse
<1>14. QED
  BY <1>8, <1>12, <1>13, ClientsGoOn, RateStays DEF RateInv

\* A window that is over may be forgotten.
LEMMA PrunedRate ==
    ASSUME TokensInv, RateInv, NEW t \in Tokens, tokens[t] # NoRow, tokens[t].limit > 0
    PROVE  /\ Over(t) => RateOf(hits[t], tokens[t].limit, NoWindow, now)
           /\ RateOf(hits[t], tokens[t].limit, PrunedWindows[t], now)
<1>1. PICK limit \in Nat \ {0} : limit = tokens[t].limit
  BY LimitOfRow
<1>2. RateOf(hits[t], limit, windows[t], now)
  BY <1>1 DEF RateInv, RateAt
<1>3. Over(t) => RateOf(hits[t], limit, NoWindow, now)
  <2>1. CASE windows[t] = NoWindow
    BY <1>2, <2>1
  <2>2. CASE windows[t] # NoWindow
    <3>1. PICK w \in Counter : w = windows[t]
      BY <2>2, LogOfToken
    <3>2. Over(t) => now - w.start >= Minute
      BY <2>2, <3>1 DEF Over
    <3>3. RateOf(hits[t], limit, w, now) /\ hits[t] \in Seq(Nat) /\ now \in Nat
      BY <1>2, <3>1, LogOfToken
    <3>4. QED
      BY <3>2, <3>3, RateDropped
  <2>3. QED
    BY <2>1, <2>2
<1>4. PrunedWindows[t] = windows[t] \/ (Over(t) /\ PrunedWindows[t] = NoWindow)
  BY DEF PrunedWindows
<1>5. QED
  BY <1>1, <1>2, <1>3, <1>4

LEMMA HitRate ==
    ASSUME TokensInv, RateInv, NEW t \in Tokens, tokens[t] # NoRow,
           NEW limit \in Nat \ {0}, limit = tokens[t].limit
    PROVE  RateOf(IF Within(t, limit) THEN Append(hits[t], now) ELSE hits[t], limit, Hit(t), now)
<1>1. hits[t] \in Seq(Nat) /\ now \in Nat /\ windows[t] \in Counter \cup {NoWindow}
  BY LogOfToken
<1>2. CASE Over(t)
  <2>1. Hit(t) = [count |-> 1, start |-> now]
    BY <1>2 DEF Hit
  <2>2. Within(t, limit)
    BY <2>1 DEF Within
  <2>3. RateOf(hits[t], limit, NoWindow, now)
    BY <1>2, PrunedRate
  <2>4. RateOf(Append(hits[t], now), limit, [count |-> 1, start |-> now], now)
    BY <1>1, <2>3, RateBegun
  <2>5. QED
    BY <2>1, <2>2, <2>4
<1>3. CASE ~Over(t)
  <2>1. PICK w \in Counter : w = windows[t]
    BY <1>1, <1>3 DEF Over
  <2>2. PICK next : next = [w EXCEPT !.count = @ + 1]
    OBVIOUS
  <2>3. Hit(t) = next
    BY <1>3, <2>1, <2>2 DEF Hit
  <2>4. next \in Counter /\ next.count = w.count + 1 /\ next.start = w.start
    BY <2>1, <2>2 DEF Counter
  <2>5. RateOf(hits[t], limit, w, now)
    BY <2>1 DEF RateInv, RateAt
  <2>6. IF next.count <= limit THEN RateOf(Append(hits[t], now), limit, next, now)
        ELSE RateOf(hits[t], limit, next, now)
    BY <1>1, <2>4, <2>5, RateCounted
  <2>7. Within(t, limit) <=> next.count <= limit
    BY <2>3 DEF Within
  <2>8. QED
    BY <2>3, <2>6, <2>7
<1>4. QED
  BY <1>2, <1>3

LEMMA AllowRate ==
    ASSUME TokensInv, RateInv, NEW q \in Clients, Allow(q)
    PROVE  RateInv'
<1>1. PICK client : client = clients[q]
  OBVIOUS
<1>2. client \in Client /\ client.at = "limit" /\ client # Done
  BY <1>1, ClientIsUnderWay DEF Allow, TokensInv, TokensTypeOK
<1>3. PICK t \in Tokens : t = client.token /\ tokens[t] # NoRow
  BY <1>1, <1>2 DEF Client, TokensInv, Referred
<1>4. PICK limit \in Nat : limit = client.limit /\ limit = tokens[t].limit
  BY <1>1, <1>2, <1>3, LimitOfRow DEF RateInv, LimitsKept
<1>5. UNCHANGED <<now, tokens>> /\ clients' = [clients EXCEPT ![q] = Done]
  BY DEF Allow
<1>6. LimitsStay
  BY <1>5 DEF LimitsStay
<1>7. LimitsKept'
  <2>1. \A p \in Clients : \/ clients'[p] = Done
                           \/ /\ clients[p] # Done /\ clients'[p].token = clients[p].token
                              /\ clients'[p].limit = clients[p].limit
    BY <1>5 DEF TokensInv, TokensTypeOK
  <2>2. QED
    BY <1>6, <2>1, ClientsGoOn DEF RateInv
<1>8. CASE UNCHANGED <<windows, hits>>
  BY <1>5, <1>6, <1>7, <1>8, RateStays DEF RateInv
<1>9. CASE ~UNCHANGED <<windows, hits>>
  <2>1. /\ limit > 0
        /\ windows' = [PrunedWindows EXCEPT ![t] = Hit(t)]
        /\ hits' = IF Within(t, limit) THEN [hits EXCEPT ![t] = Append(hits[t], now)] ELSE hits
    BY <1>1, <1>3, <1>4, <1>9 DEF Allow
  <2>2. hits \in [Tokens -> Seq(0..MaxTime)] /\ DOMAIN PrunedWindows = Tokens
    BY DEF TokensInv, TokensTypeOK, PrunedWindows
  <2>3. ASSUME NEW u \in Tokens, u # t PROVE RateAt(u)'
    <3>1. hits'[u] = hits[u] /\ windows'[u] = PrunedWindows[u] /\ tokens'[u] = tokens[u] /\ now' = now
      BY <1>5, <2>1, <2>2, <2>3
    <3>2. PrunedWindows[u] = windows[u] \/ PrunedWindows[u] = NoWindow
      BY DEF PrunedWindows
    <3>3. RateAt(u)
      BY DEF RateInv
    <3>4. tokens[u] # NoRow /\ tokens[u].limit > 0
            => RateOf(hits[u], tokens[u].limit, PrunedWindows[u], now)
      BY PrunedRate
    <3>5. QED
      BY <3>1, <3>2, <3>3, <3>4 DEF RateAt
  <2>4. RateAt(t)'
    <3>1. /\ hits'[t] = IF Within(t, limit) THEN Append(hits[t], now) ELSE hits[t]
          /\ windows'[t] = Hit(t) /\ tokens'[t] = tokens[t] /\ now' = now
      BY <1>5, <2>1, <2>2
    <3>2. RateOf(IF Within(t, limit) THEN Append(hits[t], now) ELSE hits[t], limit, Hit(t), now)
      BY <1>3, <1>4, <2>1, HitRate
    <3>3. QED
      BY <1>3, <1>4, <2>1, <3>1, <3>2 DEF RateAt
  <2>5. QED
    BY <1>7, <2>3, <2>4 DEF RateInv
<1>10. QED
  BY <1>8, <1>9

LEMMA OtherRate ==
    ASSUME TokensInv, RateInv,
           \/ ListExpiring
           \/ \E t \in Tokens : CheckTokenExpiry(t) \/ \E o \in Rotators : RotateLookup(o, t)
           \/ TokensRestart
           \/ TokensTick
    PROVE  RateInv'
<1>1. LimitsStay
  BY DEF ListExpiring, CheckTokenExpiry, RotateLookup, TokensRestart, TokensTick, LimitsStay
<1>2. LimitsKept'
  BY DEF ListExpiring, CheckTokenExpiry, RotateLookup, TokensRestart, TokensTick, RateInv, LimitsKept
<1>3. CASE ListExpiring \/ (\E t \in Tokens : CheckTokenExpiry(t) \/ \E o \in Rotators : RotateLookup(o, t))
  <2>1. UNCHANGED <<now, windows, hits>>
    BY <1>3 DEF ListExpiring, CheckTokenExpiry, RotateLookup
  <2>2. QED
    BY <1>1, <1>2, <2>1, RateStays DEF RateInv
<1>4. CASE TokensRestart
  <2>1. ASSUME NEW t \in Tokens PROVE RateAt(t)'
    <3>1. hits'[t] = <<>> /\ windows'[t] = NoWindow /\ tokens'[t] = tokens[t] /\ now' = now
      BY <1>4 DEF TokensRestart, NoHits
    <3>2. tokens[t] # NoRow /\ tokens[t].limit > 0 => RateOf(<<>>, tokens[t].limit, NoWindow, now)
      BY LimitOfRow, LogOfToken, RateOfNothing
    <3>3. QED
      BY <3>1, <3>2 DEF RateAt
  <2>2. QED
    BY <1>2, <2>1 DEF RateInv
<1>5. CASE TokensTick
  <2>1. ASSUME NEW t \in Tokens PROVE RateAt(t)'
    <3>1. hits'[t] = hits[t] /\ windows'[t] = windows[t] /\ tokens'[t] = tokens[t] /\ now' = now + 1
      BY <1>5 DEF TokensTick, Tick
    <3>2. hits[t] \in Seq(Nat) /\ windows[t] \in Counter \cup {NoWindow} /\ now \in Nat
      BY LogOfToken
    <3>3. RateAt(t)
      BY DEF RateInv
    <3>4. ASSUME tokens[t] # NoRow, tokens[t].limit > 0
          PROVE  RateOf(hits[t], tokens[t].limit, windows[t], now + 1)
      <4>1. tokens[t].limit \in Nat \ {0}
        BY <3>4, LimitOfRow
      <4>2. RateOf(hits[t], tokens[t].limit, windows[t], now)
        BY <3>3, <3>4 DEF RateAt
      <4>3. now + 1 \in Nat /\ now <= now + 1
        BY <3>2
      <4>4. QED
        BY <3>2, <4>1, <4>2, <4>3, RateLater
    <3>5. QED
      BY <3>1, <3>3, <3>4 DEF RateAt
  <2>2. QED
    BY <1>2, <2>1 DEF RateInv
<1>6. QED
  BY <1>3, <1>4, <1>5

LEMMA RateStep ==
    ASSUME TokensInv, RateInv, TokensNext
    PROVE  RateInv'
<1>1. ASSUME NEW t \in Unused, NEW days \in Lifetimes,
             NEW scopes \in SUBSET (Scopes \cup {Wildcard, "unknown"}),
             NEW allowed \in SUBSET Sources, NEW limit \in Limits,
             Mint(t, days, scopes, allowed, limit)
      PROVE  RateInv'
  BY <1>1, MintRate DEF Unused
<1>2. CASE (\E t \in Tokens : Revoke(t)) \/ \E o \in Rotators : Rotate(o)
  BY <1>2, RowStepsRate
<1>3. ASSUME NEW t \in Tokens, NEW q \in Clients, NEW secret \in 0..(minted - 1),
             NEW source \in Sources \cup {"elsewhere"},
             NEW path \in Scopes \cup {"version", "other"}, Validate(q, t, secret, source, path)
      PROVE  RateInv'
  BY <1>3, ValidateRate
<1>4. ASSUME NEW q \in Clients, StampUse(q) \/ Allow(q) PROVE RateInv'
  BY <1>4, StampRate, AllowRate
<1>5. CASE \/ ListExpiring
           \/ \E t \in Tokens : CheckTokenExpiry(t) \/ \E o \in Rotators : RotateLookup(o, t)
           \/ TokensRestart
           \/ TokensTick
  BY <1>5, OtherRate
<1>6. QED
  BY <1>1, <1>2, <1>3, <1>4, <1>5 DEF TokensNext

\* In less than a minute, wherever it begins, a token gets at most twice its limit less
\* one request, however its requests, its windows and the pruning of windows interleave
\* and whatever its limit and the length of the minute are.
THEOREM RateBoundHolds == TokensSpec => []RateBound
<1>1. TokensInit => RateInv
  BY DEF TokensInit, RateInv, RateAt, LimitsKept, NoHits
<1>2. RateInv /\ UNCHANGED tokenVars => RateInv'
  BY DEF RateInv, RateAt, LimitsKept, tokenVars
<1>3. TokensInv /\ RateInv => RateBound
  <2>1. SUFFICES ASSUME TokensInv, RateInv, NEW t \in Tokens, hits[t] # <<>>
                 PROVE  /\ tokens[t] # NoRow /\ tokens[t].limit > 0
                        /\ Spaced(hits[t], 2 * tokens[t].limit - 1, Minute)
    BY DEF RateBound, Spaced
  <2>2. tokens[t] # NoRow /\ tokens[t].limit # 0
    BY <2>1 DEF RateInv, RateAt
  <2>3. tokens[t].limit > 0
    BY <2>1, <2>2, LimitOfRow
  <2>4. QED
    BY <2>1, <2>2, <2>3 DEF RateInv, RateAt, RateOf
<1>4. QED
  BY <1>1, <1>2, <1>3, RateStep, TokensInvariant, PTL DEF TokensSpec

-----------------------------------------------------------------------------
(* Login: the guesses of an address.  In an entry that does not lock the address, a   *)
(* run of failures and one that did not lock before it are all there is of the last   *)
(* window; in one that does, all failures are from before the lock or its instant, and *)
(* at that instant there is room for the handlers that are still under way.           *)

GuessOf(log, entry, under, time) ==
    /\ Ordered(log, time)
    /\ Spaced(log, Allowance, Window)
    /\ IF entry = Absent THEN Past(log, Len(log), time - Window)
       ELSE /\ entry.windowStart <= time /\ entry.lockedUntil <= time + Lockout
            /\ Past(log, Len(log), entry.lastSeen)
            /\ Past(log, Len(log) - entry.failures, entry.windowStart)
            /\ IF entry.lockedUntil <= time
               THEN Past(log, Len(log) - entry.failures - (MaxFailures - 1), time - Window)
               ELSE /\ Past(log, Len(log), entry.lockedUntil - Lockout)
                    /\ IF entry.lockedUntil = time + Lockout
                       THEN Past(log, Len(log) + under - Allowance, time - Window)
                       ELSE under = 0

LEMMA LoginNumbers ==
    /\ MaxFailures \in Nat /\ MaxFailures >= 1 /\ Window \in Nat /\ Lockout \in Nat
    /\ MaxTime \in Nat
BY LoginAssumption, ClockAssumption

LEMMA EntryFields ==
    ASSUME NEW entry \in Attempt
    PROVE  /\ entry # Absent /\ entry.failures \in Nat /\ entry.failures <= MaxFailures - 1
           /\ entry.windowStart \in Nat /\ entry.lockedUntil \in Int /\ entry.lastSeen \in Nat
<1>1. entry # Absent
  BY AbsentIsNothing
<1>2. /\ entry.failures \in 0..(MaxFailures - 1) /\ entry.windowStart \in 0..MaxTime
      /\ entry.lockedUntil \in Never..(MaxTime + Lockout) /\ entry.lastSeen \in 0..MaxTime
  BY DEF Attempt, Instants
<1>3. QED
  BY <1>1, <1>2, LoginNumbers DEF Never

\* How many of a log are past before one more failure is recorded: a handler that is
\* under way and not late has room in the bound, and so have those beside it.
LEMMA RoomForOne ==
    ASSUME NEW log \in Seq(Nat), NEW entry \in Attempt \cup {Absent}, NEW time \in Nat,
           NEW under \in Nat, under >= 1, NEW most \in Nat, under <= most,
           Allowance = 2 * MaxFailures + most - 2, GuessOf(log, entry, under, time)
    PROVE  /\ Allowance \in Nat \ {0} /\ Len(log) + under - Allowance <= Len(log)
           /\ Len(log) \in Nat
           /\ Past(log, Len(log) + under - Allowance, time - Window)
<1>1. PICK last \in Nat : last = Len(log)
  OBVIOUS
<1>2. PICK all \in Nat : all = Allowance /\ all = 2 * MaxFailures + most - 2
  <2>1. 2 * MaxFailures + most - 2 \in Nat
    BY LoginNumbers
  <2>2. QED
    BY <2>1
<1>3. all >= most /\ all >= 1 /\ last + under - all <= last /\ last + under - all \in Int
  BY <1>2, LoginNumbers
<1>4. time - Window \in Int
  BY LoginNumbers
<1>5. Past(log, last + under - all, time - Window)
  <2>1. CASE entry = Absent
    <3>1. Past(log, last, time - Window)
      BY <1>1, <2>1 DEF GuessOf
    <3>2. QED
      BY <1>3, <1>4, <3>1, PastLess
  <2>2. CASE entry # Absent /\ entry.lockedUntil <= time
    <3>1. PICK failures \in Nat : failures = entry.failures /\ failures <= MaxFailures - 1
      BY <2>2, EntryFields
    <3>2. Past(log, last - failures - (MaxFailures - 1), time - Window)
      BY <1>1, <2>2, <3>1 DEF GuessOf
    <3>3. /\ last + under - all <= last - failures - (MaxFailures - 1)
          /\ last - failures - (MaxFailures - 1) \in Int
      BY <1>2, <3>1, LoginNumbers
    <3>4. QED
      BY <1>3, <1>4, <3>2, <3>3, PastLess
  <2>3. CASE entry # Absent /\ ~(entry.lockedUntil <= time)
    <3>1. under # 0
      OBVIOUS
    <3>2. Past(log, Len(log) + under - Allowance, time - Window)
      BY <2>3, <3>1 DEF GuessOf
    <3>3. QED
      BY <1>1, <1>2, <3>2
  <2>4. QED
    BY <2>1, <2>2, <2>3
<1>6. QED
  BY <1>1, <1>2, <1>3, <1>5

\* A failure that does lock.
LEMMA GuessLocks ==
    ASSUME LocksLast, NEW log \in Seq(Nat), NEW time \in Nat, NEW under \in Nat, under >= 1,
           Ordered(log, time), Spaced(log, Allowance, Window),
           Allowance \in Nat \ {0}, Len(log) + under - Allowance <= Len(log),
           Past(log, Len(log) + under - Allowance, time - Window),
           NEW next \in Attempt, next.failures = 0, next.windowStart = time,
           next.lockedUntil = time + Lockout, next.lastSeen = time
    PROVE  GuessOf(Append(log, time), next, under - 1, time)
<1>1. PICK longer : longer = Append(log, time)
  OBVIOUS
<1>2. PICK last \in Nat : last = Len(log) /\ Len(longer) = last + 1 /\ longer \in Seq(Nat)
  BY <1>1, AppendFacts
<1>3. PICK all \in Nat : all = Allowance /\ all # 0
  OBVIOUS
<1>4. time - Window \in Int /\ last + under - all \in Int /\ last + 1 - all \in Int
  BY LoginNumbers
<1>5. Ordered(longer, time)
  BY <1>1, AppendOrdered
<1>6. Spaced(longer, Allowance, Window)
  <2>1. last + 1 - all <= last + under - all
    OBVIOUS
  <2>2. Past(log, last + under - all, time - Window)
    BY <1>2, <1>3
  <2>3. Past(log, last + 1 - all, time - Window)
    BY <1>4, <2>1, <2>2, PastLess
  <2>4. QED
    BY <1>1, <1>2, <1>3, <2>3, AppendSpaced, LoginNumbers
<1>7. \A k \in Int : Past(longer, k, time)
  BY <1>2, <1>5, AllPast
<1>8. next # Absent
  BY EntryFields
<1>9. CASE Lockout = 0
  <2>1. Window = 0
    BY <1>9, LoginNumbers DEF LocksLast
  <2>2. time - Window = time /\ time + Lockout = time
    BY <1>9, <2>1
  <2>3. Len(longer) - 0 - (MaxFailures - 1) \in Int /\ Len(longer) - 0 \in Int /\ Len(longer) \in Int
    BY <1>2, LoginNumbers
  <2>4. GuessOf(longer, next, under - 1, time)
    BY <1>5, <1>6, <1>7, <1>8, <2>2, <2>3 DEF GuessOf
  <2>5. QED
    BY <1>1, <2>4
<1>10. CASE Lockout # 0
  <2>1. ~(time + Lockout <= time) /\ time + Lockout - Lockout = time
    BY <1>10, LoginNumbers
  <2>2. Len(longer) + (under - 1) - Allowance = last + under - all
    BY <1>2, <1>3
  <2>3. Past(longer, last + under - all, time - Window)
    BY <1>1, <1>2, <1>3, <1>4, AppendPast
  <2>4. Len(longer) - 0 \in Int /\ Len(longer) \in Int
    BY <1>2
  <2>5. /\ Past(longer, Len(longer), next.lastSeen)
        /\ Past(longer, Len(longer) - next.failures, next.windowStart)
        /\ Past(longer, Len(longer), next.lockedUntil - Lockout)
    <3>1. next.lockedUntil - Lockout = time
      <4>1. PICK until \in Int : until = next.lockedUntil /\ until = time + Lockout
        BY LoginNumbers
      <4>2. until - Lockout = time
        BY <4>1, LoginNumbers
      <4>3. QED
        BY <4>1, <4>2
    <3>2. Len(longer) - next.failures = Len(longer) - 0
      OBVIOUS
    <3>3. QED
      BY <1>7, <2>4, <3>1, <3>2
  <2>6. Past(longer, Len(longer) + (under - 1) - Allowance, time - Window)
    BY <2>2, <2>3
  <2>7. next.windowStart <= time /\ next.lockedUntil <= time + Lockout /\ ~(next.lockedUntil <= time)
    BY <2>1, LoginNumbers
  <2>8. GuessOf(longer, next, under - 1, time)
    BY <1>5, <1>6, <1>8, <2>5, <2>6, <2>7 DEF GuessOf
  <2>9. QED
    BY <1>1, <2>8
<1>11. QED
  BY <1>9, <1>10

\* A failure that begins a run, or goes on with one.
LEMMA GuessCounts ==
    ASSUME NEW log \in Seq(Nat), NEW entry \in Attempt \cup {Absent}, NEW time \in Nat,
           NEW under \in Nat, under >= 1, GuessOf(log, entry, under, time),
           Allowance \in Nat \ {0}, Len(log) + under - Allowance <= Len(log),
           Past(log, Len(log) + under - Allowance, time - Window),
           NEW next \in Attempt, next.lastSeen = time,
           next.lockedUntil = IF entry = Absent THEN Never ELSE entry.lockedUntil,
           \/ /\ entry = Absent \/ time - entry.windowStart > Window
              /\ next.failures = 1 /\ next.windowStart = time
           \/ /\ entry # Absent
              /\ next.failures = entry.failures + 1 /\ next.windowStart = entry.windowStart
    PROVE  GuessOf(Append(log, time), next, under - 1, time)
<1>1. PICK longer : longer = Append(log, time)
  OBVIOUS
<1>2. PICK last \in Nat : last = Len(log) /\ Len(longer) = last + 1 /\ longer \in Seq(Nat)
  BY <1>1, AppendFacts
<1>3. PICK all \in Nat : all = Allowance /\ all # 0
  OBVIOUS
<1>4. time - Window \in Int /\ last + under - all \in Int /\ last + 1 - all \in Int
  BY LoginNumbers
<1>5. Ordered(log, time) /\ Spaced(log, Allowance, Window)
  BY DEF GuessOf
<1>6. Ordered(longer, time)
  BY <1>1, <1>5, AppendOrdered
<1>7. Spaced(longer, Allowance, Window)
  <2>1. last + 1 - all <= last + under - all
    OBVIOUS
  <2>2. Past(log, last + under - all, time - Window)
    BY <1>2, <1>3
  <2>3. Past(log, last + 1 - all, time - Window)
    BY <1>4, <2>1, <2>2, PastLess
  <2>4. QED
    BY <1>1, <1>2, <1>3, <1>5, <2>3, AppendSpaced, LoginNumbers
<1>8. \A k \in Int : Past(longer, k, time)
  BY <1>2, <1>6, AllPast
<1>9. PICK failures \in Nat, start \in Nat, until \in Int :
        /\ failures = next.failures /\ start = next.windowStart /\ until = next.lockedUntil
        /\ failures <= MaxFailures - 1 /\ next # Absent
  BY EntryFields
<1>10. entry # Absent => /\ entry.failures \in Nat /\ entry.failures <= MaxFailures - 1
                         /\ entry.windowStart \in Nat /\ entry.lockedUntil \in Int
  BY EntryFields
<1>11. start <= time /\ until <= time + Lockout
  <2>1. entry # Absent => /\ entry.windowStart <= time
                          /\ entry.lockedUntil <= time + Lockout
    BY DEF GuessOf
  <2>2. start = time \/ (entry # Absent /\ start = entry.windowStart)
    BY <1>9
  <2>3. until = Never \/ (entry # Absent /\ until = entry.lockedUntil)
    BY <1>9
  <2>4. Never <= time + Lockout
    BY LoginNumbers DEF Never
  <2>5. QED
    BY <2>1, <2>2, <2>3, <2>4
<1>12. Past(longer, last + 1 - failures, start)
  <2>1. CASE start = time
    BY <1>8, <2>1
  <2>2. CASE start # time
    <3>1. entry # Absent /\ failures = entry.failures + 1 /\ start = entry.windowStart
      BY <1>9, <2>2
    <3>2. PICK f \in Nat : f = entry.failures /\ failures = f + 1
      BY <1>10, <3>1
    <3>3. last + 1 - failures = last - f /\ last - f \in Int /\ last - f <= last
      <4>1. failures = f + 1
        BY <3>2
      <4>2. QED
        BY <4>1
    <3>4. Past(log, last - f, start)
      BY <1>2, <3>1, <3>2 DEF GuessOf
    <3>5. Past(longer, last - f, start)
      BY <1>1, <1>2, <3>3, <3>4, AppendPast
    <3>6. QED
      BY <3>3, <3>5
  <2>3. QED
    BY <2>1, <2>2
<1>15. /\ next.windowStart <= time /\ next.lockedUntil <= time + Lockout
       /\ Past(longer, Len(longer), next.lastSeen)
       /\ Past(longer, Len(longer) - next.failures, next.windowStart)
  <2>1. Len(longer) \in Int
    BY <1>2
  <2>2. Past(longer, Len(longer), next.lastSeen)
    BY <1>8, <2>1
  <2>3. Len(longer) - next.failures = last + 1 - failures
    <3>1. Len(longer) = last + 1
      BY <1>2
    <3>2. next.failures = failures
      BY <1>9
    <3>3. QED
      BY <3>1, <3>2
  <2>4. QED
    BY <1>9, <1>11, <1>12, <2>2, <2>3
<1>13. CASE until <= time
  <2>. PICK most \in Nat : most = MaxFailures /\ most >= 1
    BY LoginNumbers
  <2>1. PICK k \in Int : k = last + 1 - failures - (most - 1)
    OBVIOUS
  <2>2. Past(log, k, time - Window) /\ k <= last
    <3>1. CASE entry = Absent
      <4>1. failures = 1 /\ k <= last
        <5>1. failures = 1
          BY <1>9, <3>1
        <5>2. QED
          BY <2>1, <5>1
      <4>2. Past(log, last, time - Window)
        BY <1>2, <3>1 DEF GuessOf
      <4>3. QED
        BY <1>4, <4>1, <4>2, PastLess
    <3>2. CASE entry # Absent /\ failures = 1 /\ time - entry.windowStart > Window
      <4>1. PICK f \in Nat, w \in Nat : f = entry.failures /\ w = entry.windowStart /\ f <= MaxFailures - 1
        BY <1>10, <3>2
      <4>2. k <= last - f /\ last - f \in Int /\ k <= last
        <5>1. f <= most - 1 /\ k = last + 1 - 1 - (most - 1)
          BY <2>1, <3>2, <4>1
        <5>2. QED
          BY <5>1
      <4>5. w <= time - Window
        BY <3>2, <4>1, LoginNumbers
      <4>3. Past(log, last - f, w)
        BY <1>2, <3>2, <4>1 DEF GuessOf
      <4>4. QED
        BY <1>4, <4>2, <4>5, <4>3, PastLess
    <3>3. CASE entry # Absent /\ failures = entry.failures + 1
      <4>0. PICK f \in Nat : f = entry.failures /\ failures = f + 1
        BY <1>10, <3>3
      <4>1. k = last - f - (most - 1) /\ k <= last
        <5>1. failures = f + 1
          BY <4>0
        <5>2. QED
          BY <2>1, <5>1
      <4>2. entry.lockedUntil <= time
        BY <1>9, <1>13, <3>3
      <4>3. Past(log, last - f - (most - 1), time - Window)
        BY <1>2, <3>3, <4>0, <4>2 DEF GuessOf
      <4>4. QED
        BY <4>1, <4>3
    <3>4. QED
      BY <1>9, <3>1, <3>2, <3>3
  <2>3. Past(longer, k, time - Window)
    BY <1>1, <1>2, <1>4, <2>2, AppendPast
  <2>4. Past(longer, Len(longer) - next.failures - (MaxFailures - 1), time - Window)
    <3>1. Len(longer) - next.failures - (MaxFailures - 1) = last + 1 - failures - (most - 1)
      <4>1. Len(longer) = last + 1
        BY <1>2
      <4>2. next.failures = failures
        BY <1>9
      <4>3. QED
        BY <4>1, <4>2
    <3>2. QED
      BY <2>1, <2>3, <3>1
  <2>5. GuessOf(longer, next, under - 1, time)
    BY <1>6, <1>7, <1>9, <1>13, <1>15, <2>4 DEF GuessOf
  <2>6. QED
    BY <1>1, <2>5
<1>14. CASE ~(until <= time)
  <2>1. entry # Absent /\ until = entry.lockedUntil
    BY <1>9, <1>14 DEF Never
  <2>2. under # 0
    OBVIOUS
  <2>3. until = time + Lockout
    BY <1>14, <2>1, <2>2 DEF GuessOf
  <2>4. until - Lockout = time
    BY <2>3, LoginNumbers
  <2>5. Len(longer) + (under - 1) - Allowance = last + under - all
    BY <1>2, <1>3
  <2>6. Past(longer, last + under - all, time - Window)
    BY <1>1, <1>2, <1>3, <1>4, AppendPast
  <2>7. /\ Past(longer, Len(longer) + (under - 1) - Allowance, time - Window)
        /\ Past(longer, Len(longer), next.lockedUntil - Lockout)
    <3>1. Len(longer) \in Int /\ next.lockedUntil - Lockout = time
      BY <1>2, <1>9, <2>4
    <3>2. Past(longer, Len(longer), time)
      BY <1>8, <3>1
    <3>3. QED
      BY <2>5, <2>6, <3>1, <3>2
  <2>8. GuessOf(longer, next, under - 1, time)
    BY <1>6, <1>7, <1>9, <1>14, <1>15, <2>3, <2>7 DEF GuessOf
  <2>9. QED
    BY <1>1, <2>8
<1>16. QED
  BY <1>13, <1>14

LEMMA GuessFailed ==
    ASSUME LocksLast,
           LoginTypeOK, NEW i \in Addresses, NEW log \in Seq(Nat), NEW under \in Nat, under >= 1,
           NEW most \in Nat, under <= most, Allowance = 2 * MaxFailures + most - 2,
           GuessOf(log, attempts[i], under, now)
    PROVE  GuessOf(Append(log, now), Failed(i, now), under - 1, now)
<1>1. PICK time \in Nat : time = now /\ time \in Instants
  BY ClockAssumption DEF LoginTypeOK, Instants
<1>2. PICK entry \in Attempt \cup {Absent} : entry = attempts[i]
  BY DEF LoginTypeOK
<1>3. PICK next : next = Failed(i, time)
  OBVIOUS
<1>4. next \in Attempt
  BY <1>1, <1>3, FailedTypes
<1>5. GuessOf(log, entry, under, time)
  BY <1>1, <1>2
<1>6. /\ Allowance \in Nat \ {0} /\ Len(log) + under - Allowance <= Len(log)
      /\ Past(log, Len(log) + under - Allowance, time - Window)
  BY <1>5, RoomForOne
<1>. DEFINE fresh == entry = Absent \/ time - entry.windowStart > Window
            failures == IF fresh THEN 1 ELSE entry.failures + 1
<1>7. /\ ~(failures >= MaxFailures) => next =
           [failures    |-> failures,
            windowStart |-> IF fresh THEN time ELSE entry.windowStart,
            lockedUntil |-> IF entry # Absent THEN entry.lockedUntil ELSE Never,
            lastSeen    |-> time]
      /\ failures >= MaxFailures => next =
           [failures |-> 0, windowStart |-> time, lockedUntil |-> time + Lockout, lastSeen |-> time]
  BY <1>1, <1>2, <1>3 DEF Failed
<1>8. CASE failures >= MaxFailures
  <2>1. /\ next.failures = 0 /\ next.windowStart = time /\ next.lockedUntil = time + Lockout
        /\ next.lastSeen = time
    BY <1>7, <1>8
  <2>2. Ordered(log, time) /\ Spaced(log, Allowance, Window)
    BY <1>5 DEF GuessOf
  <2>3. GuessOf(Append(log, time), next, under - 1, time)
    BY <1>4, <1>6, <2>1, <2>2, GuessLocks
  <2>4. QED
    BY <1>1, <1>3, <2>3
<1>9. CASE ~(failures >= MaxFailures)
  <2>1. /\ next.failures = failures
        /\ next.windowStart = IF fresh THEN time ELSE entry.windowStart
        /\ next.lockedUntil = IF entry = Absent THEN Never ELSE entry.lockedUntil
        /\ next.lastSeen = time
    BY <1>7, <1>9
  <2>2. \/ /\ entry = Absent \/ time - entry.windowStart > Window
           /\ next.failures = 1 /\ next.windowStart = time
        \/ /\ entry # Absent
           /\ next.failures = entry.failures + 1 /\ next.windowStart = entry.windowStart
    BY <2>1
  <2>3. GuessOf(Append(log, time), next, under - 1, time)
    BY <1>4, <1>5, <1>6, <2>1, <2>2, GuessCounts
  <2>4. QED
    BY <1>1, <1>3, <2>3
<1>10. QED
  BY <1>8, <1>9

\* An answer that is neither a failure nor a success.
LEMMA GuessSeen ==
    ASSUME NEW log \in Seq(Nat), NEW entry \in Attempt \cup {Absent}, NEW time \in Instants,
           NEW under \in Nat, under >= 1, NEW most \in Nat, under <= most,
           Allowance = 2 * MaxFailures + most - 2, GuessOf(log, entry, under, time)
    PROVE  GuessOf(log, IF entry = Absent THEN entry ELSE [entry EXCEPT !.lastSeen = time],
                   under - 1, time)
<1>1. CASE entry = Absent
  BY <1>1 DEF GuessOf
<1>2. CASE entry # Absent
  <2>1. PICK next : next = [entry EXCEPT !.lastSeen = time]
    OBVIOUS
  <2>2. /\ next.failures = entry.failures /\ next.windowStart = entry.windowStart
        /\ next.lockedUntil = entry.lockedUntil /\ next.lastSeen = time /\ next \in Attempt
    BY <1>2, <2>1 DEF Attempt
  <2>3. time \in Nat /\ next # Absent
    BY <2>2, EntryFields, LoginNumbers DEF Instants
  <2>4. PICK last \in Nat : last = Len(log)
    OBVIOUS
  <2>5. Past(log, Len(log), next.lastSeen)
    <3>1. Past(log, last, time)
      BY <2>3, AllPast DEF GuessOf
    <3>2. QED
      BY <2>2, <2>4, <3>1
  <2>6. Past(log, Len(log) + (under - 1) - Allowance, time - Window)
    <3>1. PICK all \in Nat : all = Allowance /\ Past(log, Len(log) + under - Allowance, time - Window)
      BY <2>3, RoomForOne
    <3>. PICK k \in Int : k = last + under - all
      OBVIOUS
    <3>2. time - Window \in Int
      BY <2>3, LoginNumbers
    <3>5. Past(log, k, time - Window) /\ k - 1 <= k /\ k - 1 \in Int
      BY <2>4, <3>1
    <3>3. Past(log, k - 1, time - Window)
      BY <3>2, <3>5, PastLess
    <3>4. last + (under - 1) - all = k - 1
      OBVIOUS
    <3>6. QED
      BY <2>4, <3>1, <3>3, <3>4
  <2>7. ~(entry.lockedUntil <= time) => entry.lockedUntil = time + Lockout
    BY <1>2 DEF GuessOf
  <2>8. GuessOf(log, next, under - 1, time)
    BY <1>2, <2>2, <2>3, <2>5, <2>6, <2>7 DEF GuessOf
  <2>9. QED
    BY <1>2, <2>1, <2>8
<1>3. QED
  BY <1>1, <1>2

LEMMA GuessPruned ==
    ASSUME NEW log \in Seq(Nat), NEW entry \in Attempt, NEW time \in Nat, NEW under,
           NEW other, GuessOf(log, entry, under, time), time - entry.lastSeen > Window
    PROVE  GuessOf(log, Absent, other, time)
<1>1. PICK seen \in Nat : seen = entry.lastSeen /\ entry # Absent
  BY EntryFields
<1>2. Past(log, Len(log), seen) /\ seen <= time - Window /\ time - Window \in Int
  BY <1>1, LoginNumbers DEF GuessOf
<1>3. Past(log, Len(log), time - Window)
  BY <1>1, <1>2, PastLess
<1>4. QED
  BY <1>3 DEF GuessOf

\* An address that is not locked has room for any handlers.
LEMMA GuessAdmitted ==
    ASSUME NEW log, NEW entry, NEW time, NEW under, NEW other,
           entry = Absent \/ entry.lockedUntil <= time, GuessOf(log, entry, under, time)
    PROVE  GuessOf(log, entry, other, time)
BY DEF GuessOf

\* When the clock goes on, every handler that is under way becomes late.
LEMMA GuessLater ==
    ASSUME LocksLast,
           NEW log \in Seq(Nat), NEW entry \in Attempt \cup {Absent}, NEW time \in Nat, NEW under,
           GuessOf(log, entry, under, time), NEW later, later = time + 1
    PROVE  GuessOf(log, entry, 0, later)
<1>1. Ordered(log, later) /\ Spaced(log, Allowance, Window)
  BY OrderedLater DEF GuessOf
<1>2. PICK last \in Nat : last = Len(log)
  OBVIOUS
<1>3. time - Window \in Int /\ later - Window \in Int /\ time - Window <= later - Window
  BY LoginNumbers
<1>4. CASE entry = Absent
  <2>1. Past(log, last, time - Window)
    BY <1>2, <1>4 DEF GuessOf
  <2>2. Past(log, last, later - Window)
    BY <1>3, <2>1, PastLess
  <2>3. Past(log, Len(log), later - Window)
    BY <1>2, <2>2
  <2>4. QED
    BY <1>1, <1>4, <2>3 DEF GuessOf
<1>5. CASE entry # Absent
  <2>1. PICK until \in Int, f \in Nat, w \in Nat :
          /\ until = entry.lockedUntil /\ f = entry.failures /\ w = entry.windowStart
    BY <1>5, EntryFields
  <2>2. PICK most \in Nat, lock \in Nat : most = MaxFailures /\ most >= 1 /\ lock = Lockout /\ Window <= lock
    BY LoginNumbers DEF LocksLast
  <2>3. w <= time /\ until <= time + lock
    BY <1>5, <2>1, <2>2 DEF GuessOf
  <2>4. w <= later /\ until <= later + lock
    BY <2>3
  <2>5. PICK k \in Int : k = last - f - (most - 1) /\ k <= last
    BY <2>2
  <2>6. CASE until <= later
    <3>1. Past(log, k, later - Window)
      <4>1. CASE until <= time
        <5>1. Past(log, k, time - Window)
          BY <1>2, <1>5, <2>1, <2>2, <2>5, <4>1 DEF GuessOf
        <5>2. QED
          BY <1>3, <5>1, PastLess
      <4>2. CASE ~(until <= time)
        <5>1. Past(log, last, until - lock)
          BY <1>2, <1>5, <2>1, <2>2, <4>2 DEF GuessOf
        <5>2. until - lock \in Int /\ until - lock <= later - Window
          BY <2>2, <2>6, LoginNumbers
        <5>3. QED
          BY <1>3, <2>5, <5>1, <5>2, PastLess
      <4>3. QED
        BY <4>1, <4>2
    <3>2. Past(log, Len(log) - entry.failures - (MaxFailures - 1), later - Window)
      BY <1>2, <2>1, <2>2, <2>5, <3>1
    <3>3. Past(log, Len(log), entry.lastSeen)
          /\ Past(log, Len(log) - entry.failures, entry.windowStart)
      BY <1>5 DEF GuessOf
    <3>4. /\ entry.windowStart <= later /\ entry.lockedUntil <= later + Lockout
          /\ entry.lockedUntil <= later
      BY <2>1, <2>2, <2>4, <2>6
    <3>5. QED
      BY <1>1, <1>5, <3>2, <3>3, <3>4 DEF GuessOf
  <2>7. CASE ~(until <= later)
    <3>1. ~(until <= time) /\ until # later + lock
      BY <2>3, <2>7
    <3>2. QED
      BY <1>1, <1>5, <2>1, <2>2, <2>4, <2>7, <3>1 DEF GuessOf
  <2>8. QED
    BY <2>6, <2>7
<1>6. QED
  BY <1>4, <1>5

LEMMA GuessNothing ==
    ASSUME NEW time \in Nat, NEW under, Allowance \in Nat
    PROVE  GuessOf(<<>>, Absent, under, time)
<1>1. Len(<<>>) \in Int /\ time - Window \in Int
  BY LoginNumbers
<1>2. QED
  BY <1>1, EmptyLog, LoginNumbers DEF GuessOf

\* The handlers of an address that the limiter saw at this instant; the log of every
\* address is as its entry and they say, and no look is from a later instant.
Under(i) == {r \in Requests : ~Idle(r) /\ req[r].address = i /\ req[r].admitted = now}
GuessAt(i) == i \in late \/ GuessOf(misses[i], attempts[i], Cardinality(Under(i)), now)
GuessInv ==
    /\ \A r \in Requests : ~Idle(r) => req[r].admitted <= now
    /\ \A i \in Addresses : GuessAt(i)

LEMMA LogOfAddress ==
    ASSUME LoginTypeOK, NEW i \in Addresses
    PROVE  /\ misses[i] \in Seq(Nat) /\ now \in Nat /\ now \in Instants
           /\ attempts[i] \in Attempt \cup {Absent}
<1>1. misses[i] \in Seq(Instants) /\ now \in Instants /\ attempts[i] \in Attempt \cup {Absent}
  BY DEF LoginTypeOK
<1>2. Instants \subseteq Nat
  BY ClockAssumption DEF Instants
<1>3. misses[i] \in Seq(Nat)
  BY <1>1, <1>2, SeqMonotonic
<1>4. QED
  BY <1>1, <1>2, <1>3

LEMMA UnderCounts ==
    ASSUME NEW i
    PROVE  /\ Cardinality(Under(i)) \in Nat /\ Cardinality(Requests) \in Nat
           /\ Cardinality(Under(i)) <= Cardinality(Requests)
           /\ IsFiniteSet(Under(i))
           /\ Allowance = 2 * MaxFailures + Cardinality(Requests) - 2
           /\ Allowance \in Nat
<1>1. IsFiniteSet(Requests) /\ Under(i) \subseteq Requests
  BY LoginAssumption DEF Under
<1>2. Cardinality(Requests) \in Nat
  BY <1>1, FS_CardinalityType
<1>3. Allowance = 2 * MaxFailures + Cardinality(Requests) - 2 /\ Allowance \in Nat
  BY <1>2, LoginNumbers DEF Allowance
<1>4. QED
  BY <1>1, <1>2, <1>3, FS_CardinalityType, FS_Subset

\* A handler that goes on without an answer stays where it is.
LEMMA GuessGoesOn ==
    ASSUME LoginTypeOK, GuessInv, UNCHANGED <<now, attempts, misses, late>>,
           \A r \in Requests :
             /\ req'[r] = Absent <=> req[r] = Absent
             /\ req[r] # Absent => /\ req'[r].address = req[r].address
                                   /\ req'[r].admitted = req[r].admitted
    PROVE  GuessInv'
<1>1. \A r \in Requests : Idle(r)' <=> Idle(r)
  BY DEF Idle
<1>2. ASSUME NEW i \in Addresses PROVE Under(i)' = Under(i)
  BY <1>1 DEF Under, Idle
<1>3. ASSUME NEW i \in Addresses PROVE GuessAt(i)'
  <2>1. GuessAt(i)
    BY DEF GuessInv
  <2>2. PICK n : n = Cardinality(Under(i))
    OBVIOUS
  <2>3. Cardinality(Under(i))' = n
    BY <1>2, <2>2
  <2>4. QED
    BY <2>1, <2>2, <2>3 DEF GuessAt
<1>4. \A r \in Requests : ~Idle(r)' => req'[r].admitted <= now'
  BY <1>1 DEF GuessInv, Idle
<1>5. QED
  BY <1>3, <1>4 DEF GuessInv

LEMMA AnsweredStays ==
    ASSUME LoginTypeOK, NEW r \in Requests, ~Idle(r), NEW h \in Request,
           h.address = req[r].address, h.admitted = req[r].admitted,
           req' = [req EXCEPT ![r] = h]
    PROVE  \A q \in Requests :
             /\ req'[q] = Absent <=> req[q] = Absent
             /\ req[q] # Absent => /\ req'[q].address = req[q].address
                                   /\ req'[q].admitted = req[q].admitted
<1>1. req'[r] = h /\ h # Absent /\ req[r] # Absent
  BY AbsentIsNothing DEF LoginTypeOK, Idle
<1>2. \A q \in Requests : q # r => req'[q] = req[q]
  BY DEF LoginTypeOK
<1>3. QED
  BY <1>1, <1>2

LEMMA HandlerSteps ==
    ASSUME LoginTypeOK, NEW r \in Requests,
           \/ \E a \in Accounts : Authenticate(r, a)
           \/ FailLogin(r)
           \/ CreateNotice(r)
    PROVE  /\ UNCHANGED <<now, attempts, misses, late>> /\ ~Idle(r)
           /\ \E h \in Request : /\ h.address = req[r].address /\ h.admitted = req[r].admitted
                                 /\ req' = [req EXCEPT ![r] = h]
<1>1. UNCHANGED <<now, attempts, misses, late>> /\ ~Idle(r)
  BY DEF Authenticate, FailLogin, CreateNotice
<1>2. PICK g \in Request : g = req[r]
  BY <1>1, HandlerOf
<1>3. ASSUME NEW status \in Status, req' = Answered(r, status)
      PROVE  \E h \in Request : /\ h.address = g.address /\ h.admitted = g.admitted
                                /\ req' = [req EXCEPT ![r] = h]
  <2>1. PICK h : h = [[g EXCEPT !.at = "answer"] EXCEPT !.status = status]
    OBVIOUS
  <2>2. h \in Request /\ h.address = g.address /\ h.admitted = g.admitted
    BY <2>1 DEF Request, Phase
  <2>3. req' = [req EXCEPT ![r] = h]
    BY <1>2, <1>3, <2>1 DEF Answered
  <2>4. QED
    BY <2>2, <2>3
<1>4. ASSUME NEW a \in Accounts, req' = [req EXCEPT ![r].at = "exists", ![r].account = a]
      PROVE  \E h \in Request : /\ h.address = g.address /\ h.admitted = g.admitted
                                /\ req' = [req EXCEPT ![r] = h]
  <2>1. PICK h : h = [[g EXCEPT !.at = "exists"] EXCEPT !.account = a]
    OBVIOUS
  <2>2. h \in Request /\ h.address = g.address /\ h.admitted = g.admitted
    BY <2>1 DEF Request, Phase
  <2>3. req \in [Requests -> Request \cup {Absent}]
    BY DEF LoginTypeOK
  <2>4. req' = [req EXCEPT ![r] = h]
    BY <1>2, <1>4, <2>1, <2>3
  <2>5. QED
    BY <2>2, <2>4
<1>5. ASSUME req' = [req EXCEPT ![r].at = "create"]
      PROVE  \E h \in Request : /\ h.address = g.address /\ h.admitted = g.admitted
                                /\ req' = [req EXCEPT ![r] = h]
  <2>1. PICK h : h = [g EXCEPT !.at = "create"]
    OBVIOUS
  <2>2. h \in Request /\ h.address = g.address /\ h.admitted = g.admitted
    BY <2>1 DEF Request, Phase
  <2>3. req' = [req EXCEPT ![r] = h]
    BY <1>2, <1>5, <2>1
  <2>4. QED
    BY <2>2, <2>3
<1>6. {"refused", "accepted", "other"} = Status
  BY DEF Status
<1>7. \/ \E status \in Status : req' = Answered(r, status)
      \/ \E a \in Accounts : req' = [req EXCEPT ![r].at = "exists", ![r].account = a]
      \/ req' = [req EXCEPT ![r].at = "create"]
  BY <1>6 DEF Authenticate, RecordFailure, FailLogin, CreateNotice
<1>8. QED
  BY <1>1, <1>2, <1>3, <1>4, <1>5, <1>7

LEMMA AdmitGuess ==
    ASSUME LoginTypeOK, GuessInv, NEW r \in Requests, NEW i \in Addresses, Admit(r, i)
    PROVE  GuessInv'
<1>1. /\ Idle(r) /\ attempts' = Pruned /\ UNCHANGED <<now, misses, late>>
      /\ Locked(i) => req' = req
  BY DEF Admit
<1>2. PICK h : h = [at |-> "handle", address |-> i, admitted |-> now, account |-> "nobody",
                    status |-> "other"]
  OBVIOUS
<1>3. h \in Request /\ h.address = i /\ h.admitted = now
  BY <1>2 DEF LoginTypeOK, Request, Phase, Status
<1>4. ~Locked(i) => req' = [req EXCEPT ![r] = h]
  BY <1>2 DEF Admit
<1>5. req \in [Requests -> Request \cup {Absent}]
  BY DEF LoginTypeOK
<1>6. \A q \in Requests : req'[q] = req[q] \/ (~Locked(i) /\ q = r /\ req'[q] = h)
  BY <1>1, <1>4, <1>5
<1>7. \A q \in Requests : ~Idle(q)' => req'[q].admitted <= now'
  <2>1. now \in Nat
    BY ClockAssumption DEF LoginTypeOK, Instants
  <2>2. QED
    BY <1>1, <1>3, <1>6, <2>1 DEF GuessInv, Idle
<1>8. ASSUME NEW j \in Addresses, j # i \/ Locked(i)
      PROVE  Under(j)' = Under(j)
  BY <1>1, <1>3, <1>6, <1>8 DEF Under, Idle
<1>9. ASSUME NEW j \in Addresses PROVE GuessAt(j)'
  <2>1. PICK n, m \in Nat : n = Cardinality(Under(j))' /\ m = Cardinality(Under(j))
    <3>1. ASSUME NEW S, S \subseteq Requests PROVE Cardinality(S) \in Nat
      BY <3>1, LoginAssumption, FS_Subset, FS_CardinalityType
    <3>2. Under(j) \subseteq Requests /\ Under(j)' \subseteq Requests
      BY DEF Under
    <3>3. Cardinality(Under(j)) \in Nat /\ Cardinality(Under(j)') \in Nat
      BY <3>1, <3>2
    <3>4. QED
      BY <3>3
  <2>2. SUFFICES ASSUME j \notin late
                 PROVE  GuessOf(misses[j], Pruned[j], n, now)
    BY <1>1, <2>1 DEF GuessAt
  <2>3. GuessOf(misses[j], attempts[j], m, now)
    BY <2>1, <2>2 DEF GuessInv, GuessAt
  <2>4. /\ misses[j] \in Seq(Nat) /\ now \in Nat /\ attempts[j] \in Attempt \cup {Absent}
    BY LogOfAddress
  <2>5. GuessOf(misses[j], attempts[j], n, now)
    <3>1. CASE j # i \/ Locked(i)
      BY <1>8, <2>1, <2>3, <3>1
    <3>2. CASE j = i /\ ~Locked(i)
      <4>1. attempts[j] = Absent \/ attempts[j].lockedUntil <= now
        <5>1. attempts[j] # Absent => attempts[j].lockedUntil \in Int
          BY <2>4, EntryFields
        <5>2. QED
          BY <2>4, <3>2, <5>1 DEF Locked
      <4>2. QED
        BY <2>3, <4>1, GuessAdmitted
    <3>3. QED
      BY <3>1, <3>2
  <2>6. CASE Pruned[j] = attempts[j]
    BY <2>5, <2>6
  <2>7. CASE Pruned[j] # attempts[j]
    <3>1. /\ Pruned[j] = Absent /\ attempts[j] # Absent
          /\ now - attempts[j].lastSeen > Window
      BY <2>7 DEF Pruned
    <3>2. PICK entry \in Attempt : entry = attempts[j]
      BY <2>4, <3>1
    <3>3. GuessOf(misses[j], Absent, n, now)
      BY <2>4, <2>5, <3>1, <3>2, GuessPruned
    <3>4. QED
      BY <3>1, <3>3
  <2>8. QED
    BY <2>6, <2>7
<1>10. QED
  BY <1>7, <1>9 DEF GuessInv

LEMMA RecordGuess ==
    ASSUME LocksLast, LoginTypeOK, GuessInv, NEW r \in Requests, Record(r)
    PROVE  GuessInv'
<1>1. PICK h \in Request : h = req[r] /\ ~Idle(r)
  BY HandlerOf DEF Record
<1>2. PICK i \in Addresses, t \in Instants : i = h.address /\ t = h.admitted
  BY <1>1 DEF Request
<1>3. req' = [req EXCEPT ![r] = Absent] /\ UNCHANGED now
  BY DEF Record
<1>4. req \in [Requests -> Request \cup {Absent}] /\ attempts \in [Addresses -> Attempt \cup {Absent}]
      /\ misses \in [Addresses -> Seq(Instants)]
  BY DEF LoginTypeOK
<1>5. req'[r] = Absent /\ \A q \in Requests : q # r => req'[q] = req[q]
  BY <1>3, <1>4
<1>6. \A q \in Requests : ~Idle(q)' => req'[q].admitted <= now'
  BY <1>3, <1>5 DEF GuessInv, Idle
<1>7. ASSUME NEW j \in Addresses, j # i PROVE GuessAt(j)'
  <2>1. Under(j)' = Under(j)
    BY <1>1, <1>2, <1>3, <1>5, <1>7 DEF Under, Idle
  <2>2. PICK n : n = Cardinality(Under(j)) /\ n = Cardinality(Under(j))'
    BY <2>1
  <2>3. attempts'[j] = attempts[j] /\ misses'[j] = misses[j] /\ (j \in late' <=> j \in late)
    BY <1>1, <1>2, <1>4, <1>7 DEF Record, Late
  <2>4. QED
    BY <1>3, <2>2, <2>3 DEF GuessInv, GuessAt
<1>8. GuessAt(i)'
  <2>1. PICK n \in Nat, all \in Nat :
          /\ n = Cardinality(Under(i)) /\ all = Cardinality(Requests) /\ n <= all
          /\ Allowance = 2 * MaxFailures + all - 2 /\ IsFiniteSet(Under(i))
    BY UnderCounts
  <2>2. /\ misses[i] \in Seq(Nat) /\ now \in Nat /\ now \in Instants
        /\ attempts[i] \in Attempt \cup {Absent}
    BY LogOfAddress
  <2>3. CASE h.status = "accepted"
    <3>1. attempts'[i] = Absent /\ misses'[i] = <<>>
      BY <1>1, <1>2, <1>4, <2>3 DEF Record
    <3>2. Allowance \in Nat
      BY UnderCounts
    <3>3. PICK m : m = Cardinality(Under(i))'
      OBVIOUS
    <3>4. GuessOf(<<>>, Absent, m, now)
      BY <2>2, <3>2, GuessNothing
    <3>5. QED
      BY <1>3, <3>1, <3>3, <3>4 DEF GuessAt
  <2>4. CASE h.status # "accepted" /\ i \notin late'
    <3>1. late' = late \cup {j \in {i} : t < now}
      BY <1>1, <1>2, <2>4 DEF Record, Late
    <3>2. i \notin late /\ t = now
      <4>1. t <= now /\ t \in Int /\ now \in Int
        BY <1>1, <1>2, <2>2, LoginNumbers DEF GuessInv, Instants
      <4>2. QED
        BY <2>4, <3>1, <4>1
    <3>3. GuessOf(misses[i], attempts[i], n, now)
      BY <2>1, <3>2 DEF GuessInv, GuessAt
    <3>4. r \in Under(i)
      BY <1>1, <1>2, <3>2 DEF Under
    <3>5. Under(i)' = Under(i) \ {r}
      BY <1>3, <1>5 DEF Under, Idle
    <3>6. Cardinality(Under(i))' = n - 1 /\ n >= 1
      <4>1. Cardinality(Under(i) \ {r}) = n - 1
        BY <2>1, <3>4, FS_RemoveElement
      <4>2. n # 0
        BY <2>1, <3>4, FS_EmptySet
      <4>3. QED
        BY <2>1, <3>5, <4>1, <4>2
    <3>7. CASE h.status = "refused"
      <4>1. misses'[i] = Append(misses[i], now) /\ attempts'[i] = Failed(i, now)
        <5>1. Late(r) = late'
          BY <1>1, <3>7 DEF Record
        <5>2. QED
          BY <1>1, <1>2, <1>4, <2>4, <3>2, <3>7, <5>1 DEF Record
      <4>2. GuessOf(Append(misses[i], now), Failed(i, now), n - 1, now)
        BY <2>1, <2>2, <3>3, <3>6, GuessFailed
      <4>3. QED
        BY <1>3, <3>6, <4>1, <4>2 DEF GuessAt
    <3>8. CASE h.status = "other"
      <4>1. /\ misses'[i] = misses[i]
            /\ attempts'[i] = IF attempts[i] = Absent THEN attempts[i]
                              ELSE [attempts[i] EXCEPT !.lastSeen = now]
        BY <1>1, <1>2, <1>4, <3>2, <3>8 DEF Record
      <4>2. GuessOf(misses[i], IF attempts[i] = Absent THEN attempts[i]
                               ELSE [attempts[i] EXCEPT !.lastSeen = now], n - 1, now)
        BY <2>1, <2>2, <3>3, <3>6, GuessSeen
      <4>3. QED
        BY <1>3, <3>6, <4>1, <4>2 DEF GuessAt
    <3>9. QED
      BY <1>1, <2>4, <3>7, <3>8 DEF Record
  <2>5. QED
    BY <2>3, <2>4 DEF GuessAt
<1>9. QED
  BY <1>6, <1>7, <1>8 DEF GuessInv

LEMMA GuessStep ==
    ASSUME LocksLast, LoginTypeOK, GuessInv, LoginNext
    PROVE  GuessInv'
<1>1. ASSUME NEW r \in Requests, NEW i \in Addresses, Admit(r, i) PROVE GuessInv'
  BY <1>1, AdmitGuess
<1>2. ASSUME NEW r \in Requests,
             \/ \E a \in Accounts : Authenticate(r, a)
             \/ FailLogin(r)
             \/ CreateNotice(r)
      PROVE  GuessInv'
  BY <1>2, HandlerSteps, AnsweredStays, GuessGoesOn
<1>3. ASSUME NEW r \in Requests, Record(r) PROVE GuessInv'
  BY <1>3, RecordGuess
<1>4. CASE LoginRestart
  <2>1. \A i \in Addresses : misses'[i] = <<>> /\ attempts'[i] = Absent
    BY <1>4 DEF LoginRestart
  <2>2. now' = now /\ now \in Nat
    BY <1>4, ClockAssumption DEF LoginRestart, LoginTypeOK, Instants
  <2>3. \A r \in Requests : Idle(r)'
    BY <1>4 DEF LoginRestart, Idle
  <2>4. ASSUME NEW i \in Addresses PROVE GuessAt(i)'
    <3>1. PICK m : m = Cardinality(Under(i))'
      OBVIOUS
    <3>2. GuessOf(<<>>, Absent, m, now)
      BY <2>2, UnderCounts, GuessNothing
    <3>3. QED
      BY <2>1, <2>2, <3>1, <3>2 DEF GuessAt
  <2>5. QED
    BY <2>3, <2>4 DEF GuessInv
<1>5. CASE LoginTick
  <2>1. /\ now' = now + 1 /\ UNCHANGED <<attempts, req, misses, late>>
    BY <1>5 DEF LoginTick, Tick
  <2>2. \A r \in Requests : ~Idle(r) => req[r].admitted \in Nat /\ req[r].admitted <= now
    BY HandlerOf, ClockAssumption DEF GuessInv, Request, Instants
  <2>3. now \in Nat
    BY ClockAssumption DEF LoginTypeOK, Instants
  <2>4. \A r \in Requests : ~Idle(r)' => req'[r].admitted <= now'
    BY <2>1, <2>2, <2>3 DEF Idle
  <2>5. ASSUME NEW i \in Addresses PROVE GuessAt(i)'
    <3>1. Under(i)' = {}
      BY <2>1, <2>2, <2>3 DEF Under, Idle
    <3>2. Cardinality(Under(i))' = 0
      BY <3>1, FS_EmptySet
    <3>3. /\ misses[i] \in Seq(Nat) /\ attempts[i] \in Attempt \cup {Absent}
      BY LogOfAddress
    <3>4. i \notin late => GuessOf(misses[i], attempts[i], 0, now + 1)
      BY <2>3, <3>3, GuessLater DEF GuessInv, GuessAt
    <3>5. QED
      BY <2>1, <3>2, <3>4 DEF GuessAt
  <2>6. QED
    BY <2>4, <2>5 DEF GuessInv
<1>6. QED
  BY <1>1, <1>2, <1>3, <1>4, <1>5 DEF LoginNext

\* A failure and the one Allowance after it, in the log of an address that is not late.
LEMMA GuessBound ==
    ASSUME LoginTypeOK, GuessInv
    PROVE  GuessesBounded
<1>1. SUFFICES ASSUME NEW i \in Addresses, i \notin late,
                      NEW n \in 1..(Len(misses[i]) - Allowance)
               PROVE  misses[i][n + Allowance] >= misses[i][n] + Window
  BY DEF GuessesBounded
<1>2. GuessOf(misses[i], attempts[i], Cardinality(Under(i)), now)
  BY <1>1 DEF GuessInv, GuessAt
<1>3. QED
  BY <1>1, <1>2 DEF GuessOf, Spaced

LEMMA GuessBegins ==
    ASSUME LoginInit
    PROVE  GuessInv
<1>1. now \in Nat /\ \A r \in Requests : Idle(r)
  BY DEF LoginInit, Idle
<1>2. ASSUME NEW i \in Addresses PROVE GuessAt(i)
  <2>1. misses[i] = <<>> /\ attempts[i] = Absent
    BY DEF LoginInit
  <2>2. GuessOf(<<>>, Absent, Cardinality(Under(i)), now)
    BY <1>1, UnderCounts, GuessNothing
  <2>3. QED
    BY <2>1, <2>2 DEF GuessAt
<1>3. QED
  BY <1>1, <1>2 DEF GuessInv

\* However many handlers run at once, in any window an address fails no more often than
\* a run that does not lock, one that does, and the handlers under way allow, if a lock
\* lasts as long as the window.
THEOREM GuessesBoundedHolds == LoginSpec => []GuessesBounded
<1>1. ASSUME LocksLast PROVE LoginSpec => []GuessesBounded
  <2>1. LoginInit => GuessInv
    BY GuessBegins
  <2>2. LoginTypeOK /\ GuessInv /\ [LoginNext]_loginVars => GuessInv'
    <3>1. ASSUME GuessInv, UNCHANGED loginVars PROVE GuessInv'
      BY <3>1 DEF loginVars, GuessInv, GuessAt, Under, Idle
    <3>2. QED
      BY <1>1, <3>1, GuessStep
  <2>3. LoginTypeOK /\ GuessInv => GuessesBounded
    BY GuessBound
  <2>4. QED
    BY <2>1, <2>2, <2>3, LoginTypeCorrect, PTL DEF LoginSpec
<1>2. ASSUME ~LocksLast PROVE LoginSpec => []GuessesBounded
  <2>1. GuessesBounded
    BY <1>2 DEF GuessesBounded
  <2>2. QED
    BY <2>1, PTL
<1>3. QED
  BY <1>1, <1>2

=============================================================================
