-------------------------------- MODULE Tokens --------------------------------
(***************************************************************************)
(* API tokens: read-only credentials for external tooling, with an expiry,  *)
(* scopes, an allowlist of sources and a limit of requests per minute.      *)
(*                                                                         *)
(* A rotation looks at the row and then writes it; a request reads the row, *)
(* stamps it and goes on with what it read, through the scope guard and the *)
(* fixed window of the limiter, which lives in memory.                      *)
(***************************************************************************)
EXTENDS Clock, FiniteSets, Sequences

CONSTANTS
    Tokens,          \* ids tokens may get
    Clients,         \* requests with a token running at the same time
    Rotators,        \* rotations running at the same time
    Sources,         \* source addresses an allowlist may name
    Scopes,          \* scope names beside the wildcard
    Limits,          \* rate limits a token may be minted with, 0 for none
    Lifetimes,       \* lifetimes it may be minted with
    Minute,
    ExpiryNotice,    \* how long before its end a token is worth a reminder
    PruneWindowsAt,  \* windows from which the limiter drops those that are over
    MaxTokenCalls    \* bound: calls, requests and restarts in a behaviour

ASSUME TokensAssumption ==
    /\ Limits \cup Lifetimes \cup {ExpiryNotice, PruneWindowsAt, MaxTokenCalls} \subseteq Nat
    /\ Minute \in Nat \ {0}

VARIABLES
    tokens,      \* the api_tokens table
    rotating,    \* the token each rotation has looked up
    clients,     \* the requests under way, past the validation
    windows,     \* TokenRateLimiter.windows
    expiring,    \* tokens the expiry check has listed and not handled yet
    reminders,   \* token_expiring notifications of each token
    minted,      \* secrets drawn so far: each is new
    dead,        \* history: <<token, secret>> that was revoked or replaced
    ended,       \* history: tokens that were revoked
    hits,        \* history: instants of the requests of a token let through
    tokenCalls

reminding == <<expiring, reminders>>
tokenVars == <<now, tokens, rotating, clients, windows, reminding, minted, dead, ended, hits,
               tokenCalls>>

-----------------------------------------------------------------------------
Wildcard == "read:*"
NoToken == "no token"
NoRow == [absent |-> "row"]
NoWindow == [count |-> 0, start |-> Never]

Row == [secret : Nat, revoked : BOOLEAN, used : BOOLEAN, expires : Nat \cup {Never},
        scopes : SUBSET (Scopes \cup {Wildcard}), allowed : SUBSET Sources, limit : Limits]
Client == [at : {"stamp", "limit"}, token : Tokens, granted : BOOLEAN, limit : Limits]
Done == [at |-> "done"]

TokensTypeOK ==
    /\ now \in 0..MaxTime
    /\ tokens \in [Tokens -> Row \cup {NoRow}]
    /\ rotating \in [Rotators -> Tokens \cup {NoToken}]
    /\ clients \in [Clients -> Client \cup {Done}]
    /\ windows \in [Tokens -> [count : Nat, start : Nat] \cup {NoWindow}]
    /\ expiring \subseteq Tokens
    /\ reminders \in [Tokens -> 0..1]
    /\ minted \in Nat
    /\ dead \subseteq Tokens \X Nat
    /\ ended \subseteq Tokens
    /\ hits \in [Tokens -> Seq(0..MaxTime)]
    /\ tokenCalls \in 0..MaxTokenCalls

NoHits == [t \in Tokens |-> <<>>]

TokensInit ==
    /\ now = 0
    /\ tokens = [t \in Tokens |-> NoRow]
    /\ rotating = [o \in Rotators |-> NoToken]
    /\ clients = [q \in Clients |-> Done]
    /\ windows = [t \in Tokens |-> NoWindow]
    /\ expiring = {}
    /\ reminders = [t \in Tokens |-> 0]
    /\ minted = 0
    /\ dead = {}
    /\ ended = {}
    /\ hits = NoHits
    /\ tokenCalls = MaxTokenCalls

Call == tokenCalls > 0 /\ tokenCalls' = tokenCalls - 1

-----------------------------------------------------------------------------
(* Operators *)

\* normalizeScopes: a scope nobody knows is refused.
NormalizedScopes(asked) == asked \subseteq Scopes \cup {Wildcard}

\* A new token's id is one no row has.
Unused == {t \in Tokens : tokens[t] = NoRow}

\* mint: no days mean no expiry and no scopes all.
Mint(t, days, scopes, allowed, limit) ==
    /\ Call
    /\ NormalizedScopes(scopes)
    /\ tokens' = [tokens EXCEPT ![t] =
         [secret |-> minted, revoked |-> FALSE, used |-> FALSE,
          expires |-> IF days > 0 THEN now + days ELSE Never,
          scopes |-> scopes, allowed |-> allowed, limit |-> limit]]
    /\ minted' = minted + 1
    /\ UNCHANGED <<now, rotating, clients, windows, dead, ended, hits, reminding>>

\* Revoke: what was revoked may be revoked again.
Revoke(t) ==
    /\ Call
    /\ tokens[t] # NoRow
    /\ tokens' = [tokens EXCEPT ![t].revoked = TRUE]
    /\ dead' = dead \cup {<<t, tokens[t].secret>>}
    /\ ended' = ended \cup {t}
    /\ UNCHANGED <<now, rotating, clients, windows, minted, hits, reminding>>

\* Rotate: the row that is not revoked, and then its new secret.  A wrong form saves
\* the row that was looked up.
RotateLookup(o, t) ==
    /\ Call
    /\ rotating[o] = NoToken
    /\ tokens[t] # NoRow /\ ~tokens[t].revoked
    /\ rotating' = [rotating EXCEPT ![o] = t]
    /\ UNCHANGED <<now, tokens, clients, windows, minted, dead, ended, hits, reminding>>

Replace(o, row) ==
    LET t == rotating[o] IN
    /\ t # NoToken
    /\ tokens' = [tokens EXCEPT ![t] = row]
    /\ minted' = minted + 1
    /\ dead' = dead \cup {<<t, tokens[t].secret>>}
    /\ rotating' = [rotating EXCEPT ![o] = NoToken]
    /\ UNCHANGED <<now, clients, windows, ended, hits, tokenCalls, reminding>>
RotateSaved(o) ==
    Replace(o, [tokens[rotating[o]] EXCEPT !.secret = minted, !.used = FALSE, !.revoked = FALSE])
Rotate(o) ==
    Replace(o, [tokens[rotating[o]] EXCEPT !.secret = minted, !.used = FALSE])

-----------------------------------------------------------------------------
(* Requests with a token *)

\* What Validate accepts.
Valid(t, secret) ==
    /\ tokens[t] # NoRow
    /\ ~tokens[t].revoked
    /\ tokens[t].expires = Never \/ tokens[t].expires > now
    /\ tokens[t].secret = secret

\* TokenIPAllowed and TokenScopeGuard, by the row that was read: a path belongs to a
\* scope, or is open to every token, or to none.
SourceAllowed(row, source) == row.allowed = {} \/ source \in row.allowed
ScopeGrants(row, path) ==
    row.scopes = {} \/ Wildcard \in row.scopes \/ path = "version" \/ path \in row.scopes

Validate(q, t, secret, source, path) ==
    /\ Call
    /\ clients[q] = Done
    /\ Valid(t, secret)
    /\ clients' = [clients EXCEPT ![q] =
         [at |-> "stamp", token |-> t, limit |-> tokens[t].limit,
          granted |-> SourceAllowed(tokens[t], source) /\ ScopeGrants(tokens[t], path)]]
    /\ UNCHANGED <<now, tokens, rotating, windows, minted, dead, ended, hits, reminding>>

\* last_used_at, by id, whatever the row has become; then the allowlist and the scopes.
StampUse(q) ==
    /\ clients[q].at = "stamp"
    /\ tokens' = [tokens EXCEPT ![clients[q].token].used = TRUE]
    /\ clients' = [clients EXCEPT ![q] = IF clients[q].granted THEN [@ EXCEPT !.at = "limit"] ELSE Done]
    /\ UNCHANGED <<now, rotating, windows, minted, dead, ended, hits, tokenCalls, reminding>>

\* A window is over when its minute has passed.  A wrong form takes the minutes of the
\* clock.
OverByTheClock(t) == windows[t] = NoWindow \/ now \div Minute # windows[t].start \div Minute
Over(t) == windows[t] = NoWindow \/ now - windows[t].start >= Minute

\* prune: the map without the windows that are over, once it is large.
PrunedWindows ==
    IF Cardinality({t \in Tokens : windows[t] # NoWindow}) < PruneWindowsAt THEN windows
    ELSE [t \in Tokens |-> IF Over(t) THEN NoWindow ELSE windows[t]]

\* allow: the window of the token after one more request, and whether it is let
\* through.
Hit(t) ==
    IF Over(t) THEN [count |-> 1, start |-> now] ELSE [windows[t] EXCEPT !.count = @ + 1]
Within(t, limit) == Hit(t).count <= limit

Allow(q) ==
    LET t     == clients[q].token
        limit == clients[q].limit
    IN
    /\ clients[q].at = "limit"
    /\ \/ /\ limit = 0
          /\ UNCHANGED <<windows, hits, reminding>>
       \/ /\ limit > 0
          /\ windows' = [PrunedWindows EXCEPT ![t] = Hit(t)]
          /\ hits' = IF Within(t, limit) THEN [hits EXCEPT ![t] = Append(@, now)] ELSE hits
    /\ clients' = [clients EXCEPT ![q] = Done]
    /\ UNCHANGED <<now, tokens, rotating, minted, dead, ended, tokenCalls, reminding>>

-----------------------------------------------------------------------------
(* The hourly check of the poller *)

\* ListExpiring: tokens that are not revoked and end soon, but have not ended,
\* when there are any.
EndsSoon(t) ==
    /\ tokens[t] # NoRow /\ ~tokens[t].revoked
    /\ tokens[t].expires > now /\ tokens[t].expires <= now + ExpiryNotice
ListExpiring ==
    /\ expiring = {}
    /\ \E t \in Tokens : EndsSoon(t)
    /\ expiring' = {t \in Tokens : EndsSoon(t)}
    /\ UNCHANGED <<now, tokens, rotating, clients, windows, reminders, minted, dead, ended, hits,
                   tokenCalls>>

\* checkTokenExpiry: a reminder of each, unless there is one; none is ever resolved.
CheckTokenExpiry(t) ==
    /\ t \in expiring
    /\ expiring' = expiring \ {t}
    /\ reminders' = [reminders EXCEPT ![t] = IF @ > 0 THEN @ ELSE 1]
    /\ UNCHANGED <<now, tokens, rotating, clients, windows, minted, dead, ended, hits, tokenCalls>>

-----------------------------------------------------------------------------
\* The process ends, and with it the windows and the handlers.
TokensRestart ==
    /\ Call
    /\ rotating' = [o \in Rotators |-> NoToken]
    /\ clients' = [q \in Clients |-> Done]
    /\ windows' = [t \in Tokens |-> NoWindow]
    /\ expiring' = {}
    /\ hits' = NoHits
    /\ UNCHANGED <<now, tokens, reminders, minted, dead, ended>>

TokensTick ==
    /\ Tick
    /\ UNCHANGED <<tokens, rotating, clients, windows, minted, dead, ended, hits, tokenCalls, reminding>>

TokensNext ==
    \/ \E t \in Unused, days \in Lifetimes, scopes \in SUBSET (Scopes \cup {Wildcard, "unknown"}),
          allowed \in SUBSET Sources, limit \in Limits :
         Mint(t, days, scopes, allowed, limit)
    \/ \E t \in Tokens :
         \/ Revoke(t) \/ CheckTokenExpiry(t)
         \/ \E o \in Rotators : RotateLookup(o, t)
         \/ \E q \in Clients, secret \in 0..(minted - 1), source \in Sources \cup {"elsewhere"},
               path \in Scopes \cup {"version", "other"} :
              Validate(q, t, secret, source, path)
    \/ \E o \in Rotators : Rotate(o)
    \/ \E q \in Clients : StampUse(q) \/ Allow(q)
    \/ ListExpiring
    \/ TokensRestart
    \/ TokensTick

TokensSpec == TokensInit /\ [][TokensNext]_tokenVars

-----------------------------------------------------------------------------
(* Properties *)

\* A secret that was revoked or replaced is never accepted again, and a token that was
\* revoked is not with any secret, be it one that a rotation under way at that time draws
\* and hands out after it.
RetiredStaysOut ==
    /\ \A ts \in dead : ~Valid(ts[1], ts[2])
    /\ \A t \in ended, secret \in 0..(minted - 1) : ~Valid(t, secret)

\* In less than a minute, wherever it begins, a token gets no more than twice its limit
\* less one, unless a restart dropped its window.
RateBound ==
    \A t \in Tokens : hits[t] # <<>> =>
      /\ tokens[t] # NoRow /\ tokens[t].limit > 0
      /\ LET most == 2 * tokens[t].limit - 1 IN
           \A n \in 1..(Len(hits[t]) - most) : hits[t][n + most] >= hits[t][n] + Minute
=============================================================================
