-------------------------------- MODULE History --------------------------------
(***************************************************************************)
(* The history of a server: the outcome of every check and the resource     *)
(* samples the poller keeps for it, the pruning of both, and the views that *)
(* read them: the recent checks with the uptime, and the charts.            *)
(*                                                                         *)
(* Each statement is atomic and nothing holds two of them together: a view  *)
(* counts the checks and then the healthy ones, while the poller goes on.   *)
(* The rows of other servers take no part, so one server is enough, and a   *)
(* table is the set of the instants of its rows: a check takes a pass, and  *)
(* an instant has at most one.                                              *)
(***************************************************************************)
EXTENDS Clock, FiniteSets

CONSTANTS
    Retention,     \* retention_days; negative keeps everything
    Windows,       \* windows an uptime or a chart may be asked for
    RowLimits,     \* row counts a client may ask for
    MostBeats, MostSamples,   \* the most rows a view of recent ones gives
    RangeCap,      \* the most samples a range reads
    ChartPoints    \* the points a chart is thinned to

ASSUME HistoryAssumption ==
    /\ Retention \in Int \ {0}
    /\ Windows \subseteq Nat /\ RowLimits \subseteq Int
    /\ {MostBeats, MostSamples, RangeCap, ChartPoints} \subseteq Nat \ {0}
    /\ ChartPoints <= RangeCap

VARIABLES
    beats,       \* the heartbeats table: the checked_at of each row
    sound,       \* those whose row says healthy
    samples,     \* the metric_samples table: the sampled_at of each row
    lastBeat,    \* last_heartbeat_at of the server's row
    pass,        \* what the poll of the server does next
    uptime,      \* the uptime that is counted, and what it came to
    checked,     \* history: the instants whose check was recorded
    meanwhile    \* history: checks recorded between the two counts

historyVars == <<now, beats, sound, samples, lastBeat, pass, uptime, checked, meanwhile>>

-----------------------------------------------------------------------------
Moments == 0..MaxTime

\* An uptime: what it still has to count, the instant its window begins, and its counts.
Uptime == [at : {"healthy", "told"}, since : Int, total : Nat, healthy : Nat]
NoUptime == [at |-> "none"]

HistoryTypeOK ==
    /\ now \in Moments
    /\ beats \subseteq Moments
    /\ sound \subseteq beats
    /\ samples \subseteq Moments
    /\ lastBeat \in Moments \cup {Never}
    /\ pass \in {"rest", "stamp", "sample"}
    /\ uptime \in Uptime \cup {NoUptime}
    /\ checked \subseteq Moments
    /\ meanwhile \in Nat

HistoryInit ==
    /\ now = 0
    /\ beats = {} /\ sound = {} /\ samples = {}
    /\ lastBeat = Never
    /\ pass = "rest"
    /\ uptime = NoUptime
    /\ checked = {} /\ meanwhile = 0

-----------------------------------------------------------------------------
(* The poller *)

\* record: the check of this pass; there is one in an instant.
RecordCheck(healthy) ==
    /\ pass = "rest"
    /\ now \notin checked
    /\ beats' = beats \cup {now}
    /\ sound' = IF healthy THEN sound \cup {now} ELSE sound
    /\ pass' = "stamp"
    /\ checked' = checked \cup {now}
    /\ meanwhile' = IF uptime.at = "healthy" THEN meanwhile + 1 ELSE meanwhile
    /\ UNCHANGED <<now, samples, lastBeat, uptime>>

\* Heartbeats.Record goes on with the server's row: the time of the check, still now.
StampServer ==
    /\ pass = "stamp"
    /\ lastBeat' = now
    /\ pass' = "sample"
    /\ UNCHANGED <<now, beats, sound, samples, uptime, checked, meanwhile>>

\* recordMetrics: a sample when the panel reported its status.
RecordMetrics ==
    /\ pass = "sample"
    /\ samples' \in {samples, samples \cup {now}}
    /\ pass' = "rest"
    /\ UNCHANGED <<now, beats, sound, lastBeat, uptime, checked, meanwhile>>

\* prune: what is older than the retention goes from both tables, between two passes.
From(rows, since) == {at \in rows : at >= since}
PruneHistory ==
    /\ Retention > 0
    /\ pass = "rest"
    /\ beats' = From(beats, now - Retention)
    /\ sound' = From(sound, now - Retention)
    /\ samples' = From(samples, now - Retention)
    /\ UNCHANGED <<now, lastBeat, pass, uptime, checked, meanwhile>>

-----------------------------------------------------------------------------
(* GET /servers/:id/heartbeats *)

Clamp(limit, most) == IF limit < 1 THEN 1 ELSE IF limit > most THEN most ELSE limit

\* The n newest rows of a table.
Recent(rows, n) == {at \in rows : Cardinality(From(rows, at)) <= n}

RecentBeats(limit) == Recent(beats, Clamp(limit, MostBeats))

\* UptimeSince: the checks of the window that ends now...
CountTotal(window) ==
    /\ uptime.at # "healthy"
    /\ uptime' = [at |-> "healthy", since |-> now - window,
                  total |-> Cardinality(From(beats, now - window)), healthy |-> 0]
    /\ meanwhile' = 0
    /\ UNCHANGED <<now, beats, sound, samples, lastBeat, pass, checked>>

\* ...and then the healthy ones, shown if there were any checks.
CountHealthy ==
    /\ uptime.at = "healthy"
    /\ uptime' = [uptime EXCEPT !.at = "told",
                    !.healthy = IF uptime.total = 0 THEN 0
                                ELSE Cardinality(From(sound, uptime.since))]
    /\ UNCHANGED <<now, beats, sound, samples, lastBeat, pass, checked, meanwhile>>

-----------------------------------------------------------------------------
(* GET /servers/:id/metrics *)

\* The place of a row in the order of time.
Place(rows, at) == Cardinality({other \in rows : other <= at})

\* Range: the first rows of the window, up to the cap.
RangeOf(since) ==
    LET rows == From(samples, since) IN {at \in rows : Place(rows, at) <= RangeCap}

\* downsampleMetrics: every stride-th row and, unless it is one of them, the last.  A
\* wrong form leaves the last to the stride.
Stride(count) == (count + ChartPoints - 1) \div ChartPoints
Strided(rows) == {at \in rows : (Place(rows, at) - 1) % Stride(Cardinality(rows)) = 0}
DownsampleStrided(rows) ==
    IF Cardinality(rows) <= ChartPoints THEN rows ELSE Strided(rows)
DownsampleMetrics(rows) ==
    IF Cardinality(rows) <= ChartPoints THEN rows ELSE Strided(rows) \cup Recent(rows, 1)

\* A chart of a window, and the newest samples when no window is asked for.
Chart(window) == DownsampleMetrics(RangeOf(now - window))
RecentSamples(limit) == Recent(samples, Clamp(limit, MostSamples))

-----------------------------------------------------------------------------
\* The process ends, and with it the pass and the count; the tables stay.
HistoryRestart ==
    /\ pass' = "rest"
    /\ uptime' = NoUptime
    /\ UNCHANGED <<now, beats, sound, samples, lastBeat, checked, meanwhile>>

\* A pass is taken to last less than a tick.
HistoryTick ==
    /\ pass = "rest"
    /\ Tick
    /\ UNCHANGED <<beats, sound, samples, lastBeat, pass, uptime, checked, meanwhile>>

HistoryNext ==
    \/ \E healthy \in BOOLEAN : RecordCheck(healthy)
    \/ StampServer \/ RecordMetrics \/ PruneHistory
    \/ \E window \in Windows : CountTotal(window)
    \/ CountHealthy
    \/ HistoryRestart
    \/ HistoryTick

HistorySpec == HistoryInit /\ [][HistoryNext]_historyVars

-----------------------------------------------------------------------------
(* Properties *)

\* The samples of a window; a chart or a list that ends with the newest of them.
Drawn(window) == From(samples, now - window)
Ends(points, all) == \E at \in points : \A other \in all : other <= at

\* A chart has no more points than it is thinned to and one, each a sample of its
\* window, all of them if they are few, and it ends with the newest unless the window
\* holds more than a range reads.
ChartTells(window) ==
    LET all    == Drawn(window)
        points == Chart(window)
    IN  /\ Cardinality(points) <= ChartPoints + 1
        /\ points \subseteq all
        /\ Cardinality(all) <= ChartPoints => points = all
        /\ Cardinality(all) \in 1..RangeCap => Ends(points, all)

\* The lists of recent rows leave out nothing newer than what they show; no check they
\* begin with is older than the last one the server's row tells of.
ListsTell(limit) ==
    LET listed == RecentSamples(limit) IN
    /\ samples # {} => listed # {}
    /\ \A at \in samples \ listed, other \in listed : at < other
    /\ beats # {} => \E at \in RecentBeats(limit) : at >= lastBeat

\* An uptime counts every check of its window, unless the window is longer than the
\* retention; and no more healthy ones than that, unless checks were recorded between
\* the two counts.
UptimeTells ==
    /\ \A window \in Windows : CountTotal(window) /\ (Retention < 0 \/ window <= Retention)
         => uptime'.total = Cardinality(From(checked, now - window))
    /\ CountHealthy => uptime'.healthy <= uptime'.total + meanwhile

\* What the views of a server's history tell is what was recorded, while checks go on,
\* old rows are pruned and the process restarts.
HistoryTold ==
    /\ [](\A window \in Windows : ChartTells(window))
    /\ [](\A limit \in RowLimits : ListsTell(limit))
    /\ [][UptimeTells]_historyVars

\* Said by the comment of downsampleMetrics: a chart ends at now, with the newest sample
\* there is in its window.
ChartEndsNow ==
    \A window \in Windows : Drawn(window) # {} => Ends(Chart(window), Drawn(window))
=============================================================================
