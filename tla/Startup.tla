-------------------------------- MODULE Startup --------------------------------
(***************************************************************************)
(* The start of the desktop app: the backend is built on the first request  *)
(* of the window, once in the life of the process, from the files of the    *)
(* data directory; those that are missing are made.                         *)
(*                                                                         *)
(* The app may be launched again while it runs, be killed between any two   *)
(* steps, and fail to fill a file it has created: a write first makes the   *)
(* file blank.  Its random content is a number.           *)
(***************************************************************************)
EXTENDS Integers

CONSTANTS
    Launches,            \* processes of the app at the same time
    Metrics,             \* metrics with a default alert rule
    MaxStarts, MaxCuts   \* bounds: starts; kills and writes that fail

ASSUME StartupAssumption == MaxStarts \in Nat /\ MaxCuts \in Nat

VARIABLES
    keyFile,     \* secrets.key
    jwtFile,     \* jwt.secret
    rules,       \* the alert_rules table
    launches,    \* the processes
    drawn,       \* the last content drawn: each is new
    sealed,      \* the keys the secrets in the database are sealed with
    signed,      \* the secrets the live sessions are signed with
    edited,      \* history: rules an operator changed
    raced,       \* history: a launch looked at a file another one was making
    starts, cuts

startupVars == <<keyFile, jwtFile, rules, launches, drawn, sealed, signed, edited, raced,
                 starts, cuts>>

-----------------------------------------------------------------------------
NoFile == -1
Blank == 0
Files == Nat \cup {NoFile}

\* A process: its next step, the key and the secret it has read, the rules it has still
\* to look at and the one it found missing.
BuildStep == {"ensure", "create key", "fill key", "read jwt", "create jwt", "fill jwt", "load",
         "seed", "serving"}
Process == [at : BuildStep, key : Files \ {Blank}, jwt : Files, seeds : SUBSET Metrics,
            missing : SUBSET Metrics]
Off == [at |-> "off"]
Broken == [at |-> "broken"]

StartupTypeOK ==
    /\ {keyFile, jwtFile} \subseteq Files
    /\ rules \in [Metrics -> {"absent", "default", "edited"}]
    /\ launches \in [Launches -> Process \cup {Off, Broken}]
    /\ drawn \in Nat
    /\ {sealed, signed} \subseteq SUBSET (Nat \ {Blank})
    /\ edited \subseteq Metrics
    /\ raced \in BOOLEAN
    /\ starts \in 0..MaxStarts
    /\ cuts \in 0..MaxCuts

StartupInit ==
    /\ keyFile = NoFile /\ jwtFile = NoFile
    /\ rules = [m \in Metrics |-> "absent"]
    /\ launches = [a \in Launches |-> Off]
    /\ drawn = 0
    /\ sealed = {} /\ signed = {} /\ edited = {}
    /\ raced = FALSE
    /\ starts = MaxStarts /\ cuts = MaxCuts

data == <<sealed, signed, edited>>

Busy(a, step) == launches[a].at = step
Goes(a, step) == launches' = [launches EXCEPT ![a].at = step]
OthersAt(a, steps) == \E b \in Launches \ {a} : launches[b].at \in steps
CutOff == cuts > 0 /\ cuts' = cuts - 1

-----------------------------------------------------------------------------
(* Building the backend *)

\* lazyHandler: the first request builds it; what was built, or what failed, stays.
BuildBackend(a) ==
    /\ launches[a] = Off
    /\ starts > 0 /\ starts' = starts - 1
    /\ launches' = [launches EXCEPT ![a] =
         [at |-> "ensure", key |-> NoFile, jwt |-> NoFile, seeds |-> Metrics, missing |-> {}]]
    /\ UNCHANGED <<keyFile, jwtFile, rules, drawn, data, raced, cuts>>

\* ensureRandomFile: a file that exists is left alone, whatever it holds.  A wrong form
\* makes a blank one anew.
EnsureWhole(a) ==
    /\ Busy(a, "ensure")
    /\ IF keyFile \in {NoFile, Blank} THEN Goes(a, "create key") ELSE Goes(a, "read jwt")
    /\ raced' = (raced \/ (keyFile = NoFile /\ OthersAt(a, {"create key"})))
    /\ UNCHANGED <<keyFile, jwtFile, rules, drawn, data, starts, cuts>>
EnsureRandomFile(a) ==
    /\ Busy(a, "ensure")
    /\ IF keyFile = NoFile THEN Goes(a, "create key") ELSE Goes(a, "read jwt")
    /\ raced' = (raced \/ (keyFile = NoFile /\ OthersAt(a, {"create key"})))
    /\ UNCHANGED <<keyFile, jwtFile, rules, drawn, data, starts, cuts>>

CreateKey(a) ==
    /\ Busy(a, "create key")
    /\ keyFile' = Blank
    /\ Goes(a, "fill key")
    /\ UNCHANGED <<jwtFile, rules, drawn, data, raced, starts, cuts>>

\* The write fills the file or fails, and with it the start.
FillKey(a) ==
    /\ Busy(a, "fill key")
    /\ \/ /\ drawn' = drawn + 1
          /\ keyFile' = drawn'
          /\ Goes(a, "read jwt")
          /\ UNCHANGED cuts
       \/ /\ CutOff
          /\ launches' = [launches EXCEPT ![a] = Broken]
          /\ UNCHANGED <<keyFile, drawn>>
    /\ UNCHANGED <<jwtFile, rules, data, raced, starts>>

\* loadOrCreateHexSecret: what the file holds, blank included, unless there is none.
ReadJwt(a) ==
    /\ Busy(a, "read jwt")
    /\ launches' = [launches EXCEPT ![a] =
         IF jwtFile = NoFile THEN [@ EXCEPT !.at = "create jwt"]
         ELSE [@ EXCEPT !.at = "load", !.jwt = jwtFile]]
    /\ raced' = (raced \/ OthersAt(a, {"create jwt", "fill jwt"}))
    /\ UNCHANGED <<keyFile, jwtFile, rules, drawn, data, starts, cuts>>
CreateJwt(a) ==
    /\ Busy(a, "create jwt")
    /\ jwtFile' = Blank
    /\ Goes(a, "fill jwt")
    /\ UNCHANGED <<keyFile, rules, drawn, data, raced, starts, cuts>>
FillJwt(a) ==
    /\ Busy(a, "fill jwt")
    /\ \/ /\ drawn' = drawn + 1
          /\ jwtFile' = drawn'
          /\ launches' = [launches EXCEPT ![a] = [@ EXCEPT !.at = "load", !.jwt = drawn']]
          /\ UNCHANGED cuts
       \/ /\ CutOff
          /\ launches' = [launches EXCEPT ![a] = Broken]
          /\ UNCHANGED <<jwtFile, drawn>>
    /\ UNCHANGED <<keyFile, rules, data, raced, starts>>

\* LoadKey refuses a key that is not whole.  A wrong form takes what there is.
LoadAnyKey(a) ==
    /\ Busy(a, "load")
    /\ launches' = [launches EXCEPT ![a] = [@ EXCEPT !.at = "seed", !.key = keyFile]]
    /\ UNCHANGED <<keyFile, jwtFile, rules, drawn, data, raced, starts, cuts>>
LoadKey(a) ==
    /\ Busy(a, "load")
    /\ launches' = [launches EXCEPT ![a] =
         IF keyFile = Blank THEN Broken ELSE [@ EXCEPT !.at = "seed", !.key = keyFile]]
    /\ UNCHANGED <<keyFile, jwtFile, rules, drawn, data, raced, starts, cuts>>

\* EnsureDefaults counts the rules of a metric and then creates the missing one; a second
\* rule of a metric is refused, and ends the seeding.
CountRules(a, m) ==
    /\ Busy(a, "seed")
    /\ m \in launches[a].seeds /\ launches[a].missing = {}
    /\ launches' = [launches EXCEPT ![a] =
         [@ EXCEPT !.seeds = launches[a].seeds \ {m},
                   !.missing = IF rules[m] = "absent" THEN {m} ELSE {}]]
    /\ UNCHANGED <<keyFile, jwtFile, rules, drawn, data, raced, starts, cuts>>
CreateRule(a, m) ==
    /\ Busy(a, "seed")
    /\ m \in launches[a].missing
    /\ IF rules[m] = "absent"
       THEN /\ rules' = [rules EXCEPT ![m] = "default"]
            /\ launches' = [launches EXCEPT ![a].missing = {}]
       ELSE /\ launches' = [launches EXCEPT ![a] = [@ EXCEPT !.missing = {}, !.seeds = {}]]
            /\ UNCHANGED rules
    /\ UNCHANGED <<keyFile, jwtFile, drawn, data, raced, starts, cuts>>

\* newDesktopHandler returns.
Ready(a) ==
    /\ Busy(a, "seed")
    /\ launches[a].seeds = {} /\ launches[a].missing = {}
    /\ Goes(a, "serving")
    /\ UNCHANGED <<keyFile, jwtFile, rules, drawn, data, raced, starts, cuts>>

-----------------------------------------------------------------------------
(* A backend at work *)

\* SealSecret, for whatever is stored encrypted.
SealSecret(a) ==
    /\ Busy(a, "serving")
    /\ sealed' = sealed \cup {launches[a].key}
    /\ UNCHANGED <<keyFile, jwtFile, rules, launches, drawn, signed, edited, raced, starts, cuts>>

\* A login; with a blank secret there are no routes to log in by.
SignIn(a) ==
    /\ Busy(a, "serving")
    /\ launches[a].jwt # Blank
    /\ signed' = signed \cup {launches[a].jwt}
    /\ UNCHANGED <<keyFile, jwtFile, rules, launches, drawn, sealed, edited, raced, starts, cuts>>

\* updateRule: a rule there is; there is no way to add or to delete one.
UpdateRule(a, m) ==
    /\ Busy(a, "serving")
    /\ rules[m] # "absent"
    /\ rules' = [rules EXCEPT ![m] = "edited"]
    /\ edited' = edited \cup {m}
    /\ UNCHANGED <<keyFile, jwtFile, launches, drawn, sealed, signed, raced, starts, cuts>>

\* The process ends: closed when it serves or is broken, killed at any other time.
Exit(a) ==
    /\ launches[a] # Off
    /\ launches' = [launches EXCEPT ![a] = Off]
    /\ IF launches[a].at \in {"serving", "broken"} THEN UNCHANGED cuts ELSE CutOff
    /\ UNCHANGED <<keyFile, jwtFile, rules, drawn, data, raced, starts>>

StartupNext ==
    \E a \in Launches :
      \/ BuildBackend(a) \/ EnsureRandomFile(a) \/ CreateKey(a) \/ FillKey(a)
      \/ ReadJwt(a) \/ CreateJwt(a) \/ FillJwt(a) \/ LoadKey(a) \/ Ready(a)
      \/ SealSecret(a) \/ SignIn(a) \/ Exit(a)
      \/ \E m \in Metrics : CountRules(a, m) \/ CreateRule(a, m) \/ UpdateRule(a, m)

StartupSpec == StartupInit /\ [][StartupNext]_startupVars

-----------------------------------------------------------------------------
(* Properties *)

\* Whatever was cut off before, a backend that serves opens every secret in the database
\* with its one key and, if it lets anybody sign in, honours every live session, and no
\* start puts a rule back that an operator changed; unless two launches looked for the
\* same missing file at once.
DataOutlivesStarts ==
    /\ \A m \in edited : rules[m] = "edited"
    /\ \A a \in Launches : Busy(a, "serving") /\ ~raced =>
         /\ sealed \subseteq {launches[a].key}
         /\ launches[a].jwt # Blank => signed \subseteq {launches[a].jwt}
=============================================================================
