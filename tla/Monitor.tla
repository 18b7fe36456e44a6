-------------------------------- MODULE Monitor --------------------------------
(***************************************************************************)
(* The Monitor page: live and summary views of the fleet, that ask each     *)
(* panel for its status and share the answer.                               *)
(*                                                                         *)
(* Every load of a view lists the servers and has one goroutine for each;   *)
(* the goroutine looks in a cache under a mutex, releases the mutex, and    *)
(* then joins the probe of that server that is under way or leads a new     *)
(* one.  A successful probe fills the cache before it answers those who     *)
(* wait.                                                                   *)
(***************************************************************************)
EXTENDS Clock, FiniteSets

CONSTANTS
    Panels,       \* servers
    Views,        \* loads of the two views at the same time
    StatusTTL,    \* statusCacheTTL
    MaxLoads      \* bound: loads and changes of servers in a behaviour

ASSUME MonitorAssumption ==
    /\ StatusTTL \in Nat \ {0} /\ MaxLoads \in Nat
    /\ IsFiniteSet(Views) /\ Views # {}

VARIABLES
    active,       \* servers whose row says active
    statusAt,     \* statusCache: when the status of each panel was stored
    views,        \* the goroutine of each load for each server
    entries,      \* what the last load by each has found for each server
    repeats,      \* history: probes begun while the cached status held
    loads

monitorVars == <<now, active, statusAt, views, entries, repeats, loads>>

-----------------------------------------------------------------------------
\* A goroutine: the view it is for, its next step and when it looked in the cache.  The
\* leader of a probe is at "lead" and those who joined it at "wait".
View == [at : {"look", "join", "lead", "wait"}, kind : {"live", "summary"},
         looked : 0..MaxTime \cup {Never}]
Loaded == [at |-> "loaded"]

\* What a view shows of a server: the instant its status was stored, if it has one, and
\* the instant the cache was looked at.
Entry == [status : 0..MaxTime \cup {Never}, looked : 0..MaxTime \cup {Never}]
Blank == [status |-> Never, looked |-> Never]

MonitorTypeOK ==
    /\ now \in 0..MaxTime
    /\ active \subseteq Panels
    /\ statusAt \in [Panels -> 0..MaxTime \cup {Never}]
    /\ views \in [Views -> [Panels -> View \cup {Loaded}]]
    /\ entries \in [Views -> [Panels -> Entry]]
    /\ repeats \in [Panels -> Nat]
    /\ loads \in 0..MaxLoads

MonitorInit ==
    /\ now = 0
    /\ active = Panels
    /\ statusAt = [p \in Panels |-> Never]
    /\ views = [v \in Views |-> [p \in Panels |-> Loaded]]
    /\ entries = [v \in Views |-> [p \in Panels |-> Blank]]
    /\ repeats = [p \in Panels |-> 0]
    /\ loads = MaxLoads

-----------------------------------------------------------------------------
Load == loads > 0 /\ loads' = loads - 1

\* live and summary, up to their goroutines: the servers whose row says active are
\* asked, and the rest have no status.
List(v, kind) ==
    /\ Load
    /\ \A p \in Panels : views[v][p] = Loaded
    /\ views' = [views EXCEPT ![v] =
         [p \in Panels |-> IF p \in active THEN [at |-> "look", kind |-> kind, looked |-> Never]
                           ELSE Loaded]]
    /\ entries' = [entries EXCEPT ![v] = [p \in Panels |-> Blank]]
    /\ UNCHANGED <<now, active, statusAt, repeats>>

\* fetchSummary opens the secret first, for the other figures it asks for beside the
\* status; without it, it asks for nothing.
Unopened(v, p) ==
    /\ views[v][p].at = "look" /\ views[v][p].kind = "summary"
    /\ views' = [views EXCEPT ![v][p] = Loaded]
    /\ UNCHANGED <<now, active, statusAt, entries, repeats, loads>>

\* serverStatus, under the mutex.  A wrong form keeps nothing from a look to the next.
LookInVain(v, p) ==
    /\ views[v][p].at = "look"
    /\ views' = [views EXCEPT ![v][p].at = "join", ![v][p].looked = now]
    /\ UNCHANGED <<now, active, statusAt, entries, repeats, loads>>
Fresh(p) == statusAt[p] # Never /\ now - statusAt[p] < StatusTTL
Look(v, p) ==
    /\ views[v][p].at = "look"
    /\ IF Fresh(p)
       THEN /\ entries' = [entries EXCEPT ![v][p] = [status |-> statusAt[p], looked |-> now]]
            /\ views' = [views EXCEPT ![v][p] = Loaded]
       ELSE /\ views' = [views EXCEPT ![v][p].at = "join", ![v][p].looked = now]
            /\ UNCHANGED entries
    /\ UNCHANGED <<now, active, statusAt, repeats, loads>>

\* singleflight: wait for the call of this server that is under way, or make it.  The
\* cache is not looked at again.
Leading(p) == \E v \in Views : views[v][p].at = "lead"
Join(v, p) ==
    /\ views[v][p].at = "join"
    /\ IF Leading(p)
       THEN /\ views' = [views EXCEPT ![v][p].at = "wait"]
            /\ UNCHANGED repeats
       ELSE /\ views' = [views EXCEPT ![v][p].at = "lead"]
            /\ repeats' = [repeats EXCEPT ![p] = IF Fresh(p) THEN @ + 1 ELSE @]
    /\ UNCHANGED <<now, active, statusAt, entries, loads>>

\* The leader's probe ends and everyone who waits gets what the leader gets.  It fails
\* when the secret cannot be opened, when the panel does not answer, and when the load
\* that leads it is abandoned.
Party(p) == {v \in Views : views[v][p].at \in {"lead", "wait"}}
FetchStatus(p, ok) ==
    /\ Leading(p)
    /\ statusAt' = IF ok THEN [statusAt EXCEPT ![p] = now] ELSE statusAt
    /\ repeats' = IF ok THEN [repeats EXCEPT ![p] = 0] ELSE repeats
    /\ entries' = [v \in Views |->
         IF v \in Party(p)
         THEN [entries[v] EXCEPT ![p] = [status |-> IF ok THEN now ELSE Never,
                                         looked |-> views[v][p].looked]]
         ELSE entries[v]]
    /\ views' = [v \in Views |->
         IF v \in Party(p) THEN [views[v] EXCEPT ![p] = Loaded] ELSE views[v]]
    /\ UNCHANGED <<now, active, loads>>

-----------------------------------------------------------------------------
\* A poll or an operator changes the row.
ChangeRow(p) ==
    /\ Load
    /\ active' = IF p \in active THEN active \ {p} ELSE active \cup {p}
    /\ UNCHANGED <<now, statusAt, views, entries, repeats>>

MonitorTick ==
    /\ Tick
    /\ UNCHANGED <<active, statusAt, views, entries, repeats, loads>>

MonitorNext ==
    \/ \E v \in Views :
         \/ \E kind \in {"live", "summary"} : List(v, kind)
         \/ \E p \in Panels : Unopened(v, p) \/ Look(v, p) \/ Join(v, p)
    \/ \E p \in Panels : ChangeRow(p) \/ \E ok \in BOOLEAN : FetchStatus(p, ok)
    \/ MonitorTick

MonitorSpec == MonitorInit /\ [][MonitorNext]_monitorVars

-----------------------------------------------------------------------------
(* Properties *)

\* The views share their probes without showing what is old: no status was stored a
\* whole statusCacheTTL or more before the view looked, and, while a cached status
\* holds, its panel is asked again only for the loads that had looked before it was
\* stored, each of them once (that it should not be at all is OneProbe).
StatusShared ==
    \A p \in Panels :
      /\ repeats[p] < Cardinality(Views)
      /\ \A v \in Views : entries[v][p].status # Never =>
            entries[v][p].status > entries[v][p].looked - StatusTTL

\* Said by the comments of statusCacheTTL and serverStatus and by the test of their
\* sharing: near-simultaneous loads share one probe, so no panel is asked again while
\* the status it gave is held.
OneProbe == \A p \in Panels : repeats[p] = 0
=============================================================================
