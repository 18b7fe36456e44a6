--------------------------------- MODULE Login ---------------------------------
(***************************************************************************)
(* Logging in to the manager: the limiter in front of the login handlers    *)
(* and the tracker of failures per account.                                 *)
(*                                                                         *)
(* LoginLimiter looks at an address before the handler runs and records the *)
(* status of the answer after it, with the instant of the look.  The failed *)
(* logins of an account are counted while the handler runs, and the first   *)
(* count at the threshold leaves a notification.  The handlers are those of *)
(* the password login and of the two steps of the passkey login.            *)
(***************************************************************************)
EXTENDS Clock, FiniteSets, Sequences

CONSTANTS
    Addresses,       \* source addresses
    Accounts,        \* usernames, of accounts or not
    Requests,        \* handlers running at the same time
    MaxFailures, Window, Lockout,
    AlertThreshold,
    PruneAt,         \* entries from which a counter drops stale ones
    MaxLogins        \* bound: requests and restarts in a behaviour

ASSUME LoginAssumption ==
    /\ {MaxFailures, AlertThreshold} \subseteq Nat \ {0}
    /\ {Window, Lockout, PruneAt, MaxLogins} \subseteq Nat
    /\ IsFiniteSet(Requests)

VARIABLES
    attempts,    \* LoginLimiter.attempts
    accounts,    \* AccountFailureTracker.accounts
    req,         \* the handlers under way
    notices,     \* login_bruteforce notifications of each account
    misses,      \* history: instants of the failed answers of an address that is not late
    late,        \* history: addresses with an answer recorded after its look
    twice,       \* history: accounts with two alerts under way at once
    logins

loginVars == <<now, attempts, accounts, req, notices, misses, late, twice, logins>>

-----------------------------------------------------------------------------
Instants == 0..MaxTime
Absent == [absent |-> TRUE]

Attempt == [failures : 0..(MaxFailures - 1), windowStart : Instants,
            lockedUntil : Never..(MaxTime + Lockout), lastSeen : Instants]
Account == [failures : Nat, windowStart : Instants, alerted : BOOLEAN]

\* A handler: its next step, its address and the instant the limiter saw it, the
\* account it is about and the status of its answer.
Phase == {"handle", "exists", "create", "answer"}
Status == {"accepted", "refused", "other"}
Request == [at : Phase, address : Addresses, admitted : Instants,
            account : Accounts \cup {"nobody"}, status : Status]

LoginTypeOK ==
    /\ now \in Instants
    /\ attempts \in [Addresses -> Attempt \cup {Absent}]
    /\ accounts \in [Accounts -> Account \cup {Absent}]
    /\ req \in [Requests -> Request \cup {Absent}]
    /\ notices \in [Accounts -> Nat]
    /\ misses \in [Addresses -> Seq(Instants)]
    /\ late \subseteq Addresses
    /\ twice \subseteq Accounts
    /\ logins \in 0..MaxLogins

Idle(r) == req[r] = Absent

LoginInit ==
    /\ now = 0
    /\ attempts = [i \in Addresses |-> Absent]
    /\ accounts = [a \in Accounts |-> Absent]
    /\ req = [r \in Requests |-> Absent]
    /\ notices = [a \in Accounts |-> 0]
    /\ misses = [i \in Addresses |-> <<>>]
    /\ late = {}
    /\ twice = {}
    /\ logins = MaxLogins

-----------------------------------------------------------------------------
(* LoginLimiter *)

Spend == logins > 0 /\ logins' = logins - 1

Locked(i) == attempts[i] # Absent /\ now < attempts[i].lockedUntil

\* prune: the map without its stale entries, once it is large.
Pruned ==
    IF Cardinality({i \in Addresses : attempts[i] # Absent}) < PruneAt THEN attempts
    ELSE [i \in Addresses |->
            IF /\ attempts[i] # Absent
               /\ now > attempts[i].lockedUntil
               /\ now - attempts[i].lastSeen > Window
            THEN Absent ELSE attempts[i]]

\* Middleware, up to the handler; a locked address is answered 429.
Admit(r, i) ==
    /\ Idle(r)
    /\ Spend
    /\ attempts' = Pruned
    /\ IF Locked(i) THEN UNCHANGED req
       ELSE req' = [req EXCEPT ![r] = [at |-> "handle", address |-> i, admitted |-> now,
                                       account |-> "nobody", status |-> "other"]]
    /\ UNCHANGED <<now, accounts, notices, misses, late, twice>>

\* The handler of r answers.
Answered(r, status) == [req EXCEPT ![r].at = "answer", ![r].status = status]

\* A failed answer with the look at t: the entry of address i it leaves.  A wrong form
\* locks one failure late.
FailedLate(i, t) ==
    LET known    == attempts[i] # Absent
        fresh    == ~known \/ t - attempts[i].windowStart > Window
        failures == IF fresh THEN 1 ELSE attempts[i].failures + 1
        locks    == failures > MaxFailures
    IN  [failures |-> IF locks THEN 0 ELSE failures,
         windowStart |-> IF fresh \/ locks THEN t ELSE attempts[i].windowStart,
         lockedUntil |-> IF locks THEN t + Lockout ELSE Never, lastSeen |-> t]
Failed(i, t) ==
    LET known    == attempts[i] # Absent
        fresh    == ~known \/ t - attempts[i].windowStart > Window
        failures == IF fresh THEN 1 ELSE attempts[i].failures + 1
    IN  IF failures >= MaxFailures
        THEN [failures |-> 0, windowStart |-> t, lockedUntil |-> t + Lockout, lastSeen |-> t]
        ELSE [failures    |-> failures,
              windowStart |-> IF fresh THEN t ELSE attempts[i].windowStart,
              lockedUntil |-> IF known THEN attempts[i].lockedUntil ELSE Never,
              lastSeen    |-> t]

Late(r) == late \cup {i \in {req[r].address} : req[r].admitted < now}

\* record: whatever is answered below 400 clears the address, be it the first step of
\* a login only.
Record(r) ==
    LET i == req[r].address
        t == req[r].admitted
    IN
    /\ ~Idle(r) /\ req[r].at = "answer"
    /\ \/ /\ req[r].status = "refused"
          /\ attempts' = [attempts EXCEPT ![i] = Failed(i, t)]
          /\ late' = Late(r)
          /\ misses' = [misses EXCEPT ![i] = IF i \in Late(r) THEN <<>> ELSE Append(@, t)]
       \/ /\ req[r].status = "accepted"
          /\ attempts' = [attempts EXCEPT ![i] = Absent]
          /\ misses' = [misses EXCEPT ![i] = <<>>]
          /\ late' = late \ {i}
       \/ /\ req[r].status = "other"
          /\ attempts' = [attempts EXCEPT ![i] = IF @ = Absent THEN @ ELSE [@ EXCEPT !.lastSeen = t]]
          /\ late' = Late(r)
          /\ UNCHANGED misses
    /\ req' = [req EXCEPT ![r] = Absent]
    /\ UNCHANGED <<now, accounts, notices, twice, logins>>

-----------------------------------------------------------------------------
(* POST /auth/login and /auth/passkeys/login/begin and finish *)

\* An alert of account a is between RecordFailure and the end of failLogin.
Alerting(a) == {r \in Requests : ~Idle(r) /\ req[r].at \in {"exists", "create"} /\ req[r].account = a}

\* The count after one more failure of account a, and whether it raises the alert.
\* prune takes no entry whose window goes on, and one whose window is over counts as
\* absent anyway.
Count(a) ==
    IF accounts[a] = Absent \/ now - accounts[a].windowStart > Window
    THEN [failures |-> 1, windowStart |-> now, alerted |-> FALSE]
    ELSE [accounts[a] EXCEPT !.failures = @ + 1]
Alerts(a) == Count(a).failures >= AlertThreshold /\ ~Count(a).alerted

\* RecordFailure; the delay it asks for is time that passes before failLogin goes on.
RecordFailure(r, a) ==
    /\ accounts' = [accounts EXCEPT ![a] = [Count(a) EXCEPT !.alerted = @ \/ Alerts(a)]]
    /\ IF Alerts(a)
       THEN /\ req' = [req EXCEPT ![r].at = "exists", ![r].account = a]
            /\ twice' = IF Alerting(a) = {} THEN twice ELSE twice \cup {a}
       ELSE /\ req' = Answered(r, "refused")
            /\ UNCHANGED twice

\* login: a wrong password or code; the right ones, or the right passkey, which clears
\* the account before the session, that may fail; the right password without a code, or
\* the first step of a passkey login, which clear nothing; any other failure.  A wrong
\* passkey is refused and counts for no account.
Authenticate(r, a) ==
    /\ ~Idle(r) /\ req[r].at = "handle"
    /\ \/ RecordFailure(r, a)
       \/ /\ accounts' = [accounts EXCEPT ![a] = Absent]
          /\ \E status \in {"accepted", "other"} : req' = Answered(r, status)
          /\ UNCHANGED twice
       \/ /\ \E status \in Status : req' = Answered(r, status)
          /\ UNCHANGED <<accounts, twice>>
    /\ UNCHANGED <<now, attempts, notices, misses, late, logins>>

\* failLogin: is there a notification, and the one it leaves.  A wrong form does not
\* look.
FailLoginBlindly(r) ==
    /\ ~Idle(r) /\ req[r].at = "exists"
    /\ req' = [req EXCEPT ![r].at = "create"]
    /\ UNCHANGED <<now, attempts, accounts, notices, misses, late, twice, logins>>
FailLogin(r) ==
    /\ ~Idle(r) /\ req[r].at = "exists"
    /\ req' = IF notices[req[r].account] > 0 THEN Answered(r, "refused")
              ELSE [req EXCEPT ![r].at = "create"]
    /\ UNCHANGED <<now, attempts, accounts, notices, misses, late, twice, logins>>

CreateNotice(r) ==
    /\ ~Idle(r) /\ req[r].at = "create"
    /\ notices' = [notices EXCEPT ![req[r].account] = @ + 1]
    /\ req' = Answered(r, "refused")
    /\ UNCHANGED <<now, attempts, accounts, misses, late, twice, logins>>

-----------------------------------------------------------------------------
\* The process ends, and with it the counters and the handlers.
LoginRestart ==
    /\ Spend
    /\ attempts' = [i \in Addresses |-> Absent]
    /\ accounts' = [a \in Accounts |-> Absent]
    /\ req' = [r \in Requests |-> Absent]
    /\ misses' = [i \in Addresses |-> <<>>]
    /\ late' = {}
    /\ UNCHANGED <<now, notices, twice>>

LoginTick ==
    /\ Tick
    /\ UNCHANGED <<attempts, accounts, req, notices, misses, late, twice, logins>>

LoginNext ==
    \/ \E r \in Requests :
         \/ \E i \in Addresses : Admit(r, i)
         \/ \E a \in Accounts : Authenticate(r, a)
         \/ FailLogin(r) \/ CreateNotice(r) \/ Record(r)
    \/ LoginRestart
    \/ LoginTick

LoginSpec == LoginInit /\ [][LoginNext]_loginVars

-----------------------------------------------------------------------------
(* Properties *)

\* LoginLimiter bounds the guesses of an address: in less than a window, wherever it
\* begins, no more failures than a run that does not lock, one that does, and the
\* handlers that were under way when the lock came; unless an accepted answer or a
\* restart cleared the count, or an answer recorded late moved the window, the lock or
\* the last sight back.  It takes a lock that outlasts the window, as the defaults do:
\* nothing in the code relates the two settings.
LocksLast == Lockout >= Window
Allowance == (MaxFailures - 1) + MaxFailures + (Cardinality(Requests) - 1)
GuessesBounded ==
    LocksLast => \A i \in Addresses \ late : \A n \in 1..(Len(misses[i]) - Allowance) :
      misses[i][n + Allowance] >= misses[i][n] + Window

\* An account has one notification of failed logins, however many handlers fail at
\* once and however often the count starts anew, unless two alerts were under way
\* together, the second after a login that cleared the count.
OneNotice == \A a \in Accounts : notices[a] > 1 => a \in twice
=============================================================================
