------------------------------- MODULE Passkeys -------------------------------
(***************************************************************************)
(* Passkeys: ceremonies of two requests, tied by an entry of an in-memory   *)
(* store, that register a passkey or log in with one.                       *)
(*                                                                         *)
(* The begin half leaves a challenge in the store and answers its id; the   *)
(* finish half takes the challenge out and then reads and writes the rows,  *)
(* each in a statement of its own.  What the WebAuthn library verifies is   *)
(* an outcome; what it refuses of a challenge made for something else is    *)
(* kept.                                                                    *)
(***************************************************************************)
EXTENDS Clock

CONSTANTS
    Admins,
    Finishers,      \* finish handlers running at the same time
    Challenges,     \* ids ceremonies may get
    Keys,           \* passkeys
    ChallengeTTL,
    MaxCeremonies   \* bound: requests and restarts in a behaviour

ASSUME PasskeysAssumption == {ChallengeTTL, MaxCeremonies} \subseteq Nat

VARIABLES
    challenges,  \* passkeySessionStore.m, with the ids it has given out
    keys,        \* the webauthn_credentials table: the admin of each passkey
    stamped,     \* passkeys whose row says when it was last used
    finish,      \* the finish handlers under way
    redeemed,    \* history: how often a challenge was handed to a handler
    buried,      \* history: passkeys that were deleted
    ceremonies

passkeyVars == <<now, challenges, keys, stamped, finish, redeemed, buried, ceremonies>>

-----------------------------------------------------------------------------
\* passkeySession: made for a login or for a registration of the admin named.
Challenge == [for : Admins \cup {"login"}, expires : Nat]
Unissued == [for |-> "unissued"]
Gone == [for |-> "gone"]

NoKey == "none"
Handler ==
    [at : {"register"}, admin : Admins, key : {NoKey}] \cup
    [at : {"login"}, admin : {"unknown"}, key : {NoKey}] \cup
    [at : {"stamp"}, admin : Admins, key : Keys]
Free == [at |-> "idle"]

PasskeysTypeOK ==
    /\ now \in 0..MaxTime
    /\ challenges \in [Challenges -> Challenge \cup {Unissued, Gone}]
    /\ keys \in [Keys -> Admins \cup {NoKey}]
    /\ stamped \subseteq Keys
    /\ finish \in [Finishers -> Handler \cup {Free}]
    /\ redeemed \in [Challenges -> Nat]
    /\ buried \subseteq Keys
    /\ ceremonies \in 0..MaxCeremonies

Stored(c) == challenges[c] \notin {Unissued, Gone}
Live(c) == Stored(c) /\ now <= challenges[c].expires

Serve == ceremonies > 0 /\ ceremonies' = ceremonies - 1

-----------------------------------------------------------------------------
PasskeysInit ==
    /\ now = 0
    /\ challenges = [c \in Challenges |-> Unissued]
    /\ keys = [k \in Keys |-> NoKey]
    /\ stamped = {}
    /\ finish = [r \in Finishers |-> Free]
    /\ redeemed = [c \in Challenges |-> 0]
    /\ buried = {}
    /\ ceremonies = MaxCeremonies

\* put: the expired entries go, a new one comes.
Put(c, for) ==
    /\ challenges[c] = Unissued
    /\ challenges' = [d \in Challenges |->
                        IF d = c THEN [for |-> for, expires |-> now + ChallengeTTL]
                        ELSE IF Stored(d) /\ ~Live(d) THEN Gone ELSE challenges[d]]

\* POST /auth/passkeys/login/begin, which anyone may call, and register/begin with the
\* right password of the admin.
Begin(c, for) ==
    /\ Serve
    /\ Put(c, for)
    /\ UNCHANGED <<now, keys, stamped, finish, redeemed, buried>>

\* take: the entry goes, and is handed out if it is live.  A wrong form keeps it.
TakeKept(c) ==
    /\ redeemed' = [redeemed EXCEPT ![c] = IF Live(c) THEN @ + 1 ELSE @]
    /\ UNCHANGED challenges
Take(c) ==
    /\ redeemed' = [redeemed EXCEPT ![c] = IF Live(c) THEN @ + 1 ELSE @]
    /\ challenges' = [challenges EXCEPT ![c] = IF Stored(c) THEN Gone ELSE @]

\* register/finish of admin a, up to its INSERT: the library refuses a challenge made
\* for a login or for another admin.
RegisterTake(r, a, c) ==
    /\ finish[r] = Free
    /\ Serve
    /\ Take(c)
    /\ finish' = IF Live(c) /\ challenges[c].for = a
                 THEN [finish EXCEPT ![r] = [at |-> "register", admin |-> a, key |-> NoKey]]
                 ELSE finish
    /\ UNCHANGED <<now, keys, stamped, buried>>

\* The credential is new to the manager; the registration may be refused.
Register(r) ==
    /\ finish[r].at = "register"
    /\ \/ \E k \in Keys \ buried : /\ keys[k] = NoKey
                                   /\ keys' = [keys EXCEPT ![k] = finish[r].admin]
       \/ UNCHANGED keys
    /\ finish' = [finish EXCEPT ![r] = Free]
    /\ UNCHANGED <<now, challenges, stamped, redeemed, buried, ceremonies>>

\* login/finish, up to its reads: the library refuses a challenge that names an admin.
LoginTake(r, c) ==
    /\ finish[r] = Free
    /\ Serve
    /\ Take(c)
    /\ finish' = IF Live(c) /\ challenges[c].for = "login"
                 THEN [finish EXCEPT ![r] = [at |-> "login", admin |-> "unknown", key |-> NoKey]]
                 ELSE finish
    /\ UNCHANGED <<now, keys, stamped, buried>>

\* The passkeys of the admin the assertion names are read, and it is one of them; or
\* the login is refused.
Verify(r) ==
    /\ finish[r].at = "login"
    /\ \/ \E k \in Keys : /\ keys[k] # NoKey
                          /\ finish' = [finish EXCEPT ![r] = [at |-> "stamp", admin |-> keys[k], key |-> k]]
       \/ finish' = [finish EXCEPT ![r] = Free]
    /\ UNCHANGED <<now, challenges, keys, stamped, redeemed, buried, ceremonies>>

\* A wrong form writes the row back whole.
StampRow(r) ==
    /\ finish[r].at = "stamp"
    /\ keys' = [keys EXCEPT ![finish[r].key] = finish[r].admin]
    /\ stamped' = stamped \cup {finish[r].key}
    /\ finish' = [finish EXCEPT ![r] = Free]
    /\ UNCHANGED <<now, challenges, redeemed, buried, ceremonies>>

\* UpdateData of the row, if it is still there; then the session.
Stamp(r) ==
    /\ finish[r].at = "stamp"
    /\ stamped' = IF keys[finish[r].key] = NoKey THEN stamped ELSE stamped \cup {finish[r].key}
    /\ finish' = [finish EXCEPT ![r] = Free]
    /\ UNCHANGED <<now, challenges, keys, redeemed, buried, ceremonies>>

\* DELETE /auth/passkeys/:id by its owner.
DeletePasskey(k) ==
    /\ keys[k] # NoKey
    /\ keys' = [keys EXCEPT ![k] = NoKey]
    /\ stamped' = stamped \ {k}
    /\ buried' = buried \cup {k}
    /\ UNCHANGED <<now, challenges, finish, redeemed, ceremonies>>

\* The process ends, and with it the store and the handlers.
PasskeysRestart ==
    /\ Serve
    /\ challenges' = [c \in Challenges |-> IF Stored(c) THEN Gone ELSE challenges[c]]
    /\ finish' = [r \in Finishers |-> Free]
    /\ UNCHANGED <<now, keys, stamped, redeemed, buried>>

PasskeysTick ==
    /\ Tick
    /\ UNCHANGED <<challenges, keys, stamped, finish, redeemed, buried, ceremonies>>

PasskeysNext ==
    \/ \E c \in Challenges, for \in Admins \cup {"login"} : Begin(c, for)
    \/ \E r \in Finishers :
         \/ \E c \in Challenges : LoginTake(r, c) \/ \E a \in Admins : RegisterTake(r, a, c)
         \/ Register(r) \/ Verify(r) \/ Stamp(r)
    \/ \E k \in Keys : DeletePasskey(k)
    \/ PasskeysRestart
    \/ PasskeysTick

PasskeysSpec == PasskeysInit /\ [][PasskeysNext]_passkeyVars

-----------------------------------------------------------------------------
(* Properties *)

\* Two finish handlers never hold the same ceremony, one that expired is not handed
\* out and a restart ends them all: a challenge is a one-time ticket.
ChallengeState(c) ==
    IF challenges[c] = Unissued THEN "unissued" ELSE IF Live(c) THEN "live" ELSE "over"
ChallengeTicket ==
    INSTANCE Ticket WITH
      Tickets <- Challenges,
      state <- [c \in Challenges |-> ChallengeState(c)],
      uses <- redeemed
ChallengesAreTickets == ChallengeTicket!Spec

\* A passkey its owner deleted does not come back, not even by a login that read it
\* before and writes its sign count after.
DeletedStaysDeleted == \A k \in buried : keys[k] = NoKey /\ k \notin stamped
=============================================================================
