-------------------------------- MODULE Policy --------------------------------
(***************************************************************************)
(* The compliance page: what is wrong with the enrolled servers, less what  *)
(* operators chose to ignore.                                               *)
(*                                                                         *)
(* A load of the page lists the servers and takes the time, works out the   *)
(* violations and then reads the exceptions that have not expired by that   *)
(* time; operators ignore and restore in between.  Nothing ever prunes the  *)
(* exceptions: PruneExpired has no caller.                                  *)
(***************************************************************************)
EXTENDS Clock, FiniteSets, SequencesExt

CONSTANTS
    Fleet,             \* servers
    Versions,          \* panel versions, naturals for the order of the names
    Rows,              \* rows a server may have
    Instructed,        \* checks operators ignore or restore
    Expiries,          \* moments exceptions may expire
    Day, CertWarnDays,
    MaxPolicyCalls     \* bound: changes of rows, instructions and loads of the page

NoVersion == 0

\* The columns of a server the checks read.
ServerColumns ==
    [status : {"active", "disabled", "unreachable"}, cred : {"valid", "invalid"},
     insecure : BOOLEAN, cert : Nat \cup {Never}, version : Versions \cup {NoVersion}]

Checks == {"insecure_tls", "credential_invalid", "unreachable", "cert_expiring",
           "version_drift"}

ASSUME PolicyAssumption ==
    /\ Versions \subseteq Nat \ {NoVersion}
    /\ IsFiniteSet(Fleet)
    /\ Rows \subseteq ServerColumns
    /\ Instructed \subseteq Checks
    /\ Expiries \subseteq Nat
    /\ {Day, CertWarnDays} \subseteq Nat \ {0}
    /\ MaxPolicyCalls \in Nat

VARIABLES
    rows,         \* the servers table
    exceptions,   \* policy_exceptions: the expiry of the row of a server and check
    page,         \* the load under way: the rows listed and the time, and what it showed
    said,         \* history: the last instruction answered for a server and check
    policyCalls

policyVars == <<now, rows, exceptions, page, said, policyCalls>>

-----------------------------------------------------------------------------
Subjects == Fleet \X Checks
NoException == [none |-> "exception"]
Exception == [expires : Expiries \cup {Never}]

Violation == [server : Fleet, check : Checks, severity : {"critical", "warning", "info"}]
Listed == [at : {"listed"}, rows : [Fleet -> Rows], time : 0..MaxTime]
Closed == [at |-> "shown", read |-> FALSE, active |-> {}, ignored |-> {}]

\* A load has listed the servers, or shows what it found: whether the exceptions could
\* be read, the violations that count and those that are ignored.
PolicyTypeOK ==
    /\ now \in 0..MaxTime
    /\ rows \in [Fleet -> Rows]
    /\ exceptions \in [Subjects -> Exception \cup {NoException}]
    /\ IF page.at = "listed" THEN page \in Listed
       ELSE /\ DOMAIN page = DOMAIN Closed
            /\ page.read \in BOOLEAN
            /\ page.active \cup page.ignored \subseteq Violation
    /\ said \in [Subjects -> Exception \cup {NoException}]
    /\ policyCalls \in 0..MaxPolicyCalls

\* Servers that are all alike; WriteRow makes them differ.
PolicyInit ==
    /\ now = 0
    /\ \E row \in Rows : rows = [s \in Fleet |-> row]
    /\ exceptions = [k \in Subjects |-> NoException]
    /\ page = Closed
    /\ said = [k \in Subjects |-> NoException]
    /\ policyCalls = MaxPolicyCalls

Instruct == policyCalls > 0 /\ policyCalls' = policyCalls - 1

-----------------------------------------------------------------------------
(* Evaluate *)

\* majorityVersion: the versions in use, most servers first and then by name; none when
\* the first two are as frequent.  A wrong form counts the disabled servers too.
Uses(listed, version) ==
    Cardinality({s \in Fleet : listed[s].status # "disabled" /\ listed[s].version = version})
UsesOfAll(listed, version) == Cardinality({s \in Fleet : listed[s].version = version})
First(listed, Count(_, _)) ==
    LET inUse  == {v \in Versions : Count(listed, v) > 0}
        Before(v, w) == \/ Count(listed, v) > Count(listed, w)
                        \/ Count(listed, v) = Count(listed, w) /\ v < w
        list   == CHOOSE sorted \in SetToSeqs(inUse) :
                    \A i, j \in DOMAIN sorted : i < j => Before(sorted[i], sorted[j])
    IN  IF list = <<>> THEN NoVersion
        ELSE IF Len(list) > 1 /\ Count(listed, list[1]) = Count(listed, list[2]) THEN NoVersion
        ELSE list[1]
MajorityOfAll(listed) == First(listed, UsesOfAll)
majorityVersion(listed) == First(listed, Uses)

\* Whole days until the certificate expires, a fraction dropped towards zero: one that
\* expired less than a day ago has zero days left.
DaysLeft(cert, time) ==
    IF cert >= time THEN (cert - time) \div Day ELSE -((time - cert) \div Day)

Evaluate(listed, time) ==
    LET majority == majorityVersion(listed)
        watched  == {s \in Fleet : listed[s].status # "disabled"}
        V(S, check, severity) == [server : S, check : {check}, severity : {severity}]
        dated    == {s \in watched : listed[s].cert # Never}
        expired  == {s \in dated : DaysLeft(listed[s].cert, time) < 0}
        expiring == {s \in dated \ expired : DaysLeft(listed[s].cert, time) < CertWarnDays}
    IN  UNION {
          V({s \in watched : listed[s].insecure}, "insecure_tls", "critical"),
          V({s \in watched : listed[s].cred = "invalid"}, "credential_invalid", "critical"),
          V({s \in watched : listed[s].status = "unreachable"}, "unreachable", "warning"),
          V(expired, "cert_expiring", "critical"),
          V(expiring, "cert_expiring", "warning"),
          V({s \in watched : majority # NoVersion /\ listed[s].version \notin {NoVersion, majority}},
            "version_drift", "info")}

-----------------------------------------------------------------------------
(* GET /admin/policy *)

PolicyLists ==
    /\ Instruct
    /\ page.at = "shown"
    /\ page' = [at |-> "listed", rows |-> rows, time |-> now]
    /\ UNCHANGED <<now, rows, exceptions, said>>

\* ListActive: what has no expiry, or one after the time the page took.
Outlasts(expires, time) == expires = Never \/ expires > time
ListActive(time) ==
    {k \in Subjects : exceptions[k] # NoException /\ Outlasts(exceptions[k].expires, time)}

\* The exceptions that were read, or none when they cannot be.
PolicyShows ==
    /\ page.at = "listed"
    /\ \E read \in BOOLEAN :
         LET found   == IF read THEN ListActive(page.time) ELSE {}
             all     == Evaluate(page.rows, page.time)
             ignored == {v \in all : <<v.server, v.check>> \in found}
         IN page' = [at |-> "shown", read |-> read, active |-> all \ ignored, ignored |-> ignored]
    /\ UNCHANGED <<now, rows, exceptions, said, policyCalls>>

-----------------------------------------------------------------------------
(* POST and DELETE /admin/policy/exceptions *)

\* An upsert: an exception that is there takes the new reason, expiry and operator.  A
\* wrong form leaves what is there.
IgnoreAnew(k, expires) ==
    /\ Instruct
    /\ exceptions' = [exceptions EXCEPT ![k] = IF @ = NoException THEN [expires |-> expires] ELSE @]
    /\ said' = [said EXCEPT ![k] = [expires |-> expires]]
    /\ UNCHANGED <<now, rows, page>>
Ignore(k, expires) ==
    /\ Instruct
    /\ exceptions' = [exceptions EXCEPT ![k] = [expires |-> expires]]
    /\ said' = [said EXCEPT ![k] = [expires |-> expires]]
    /\ UNCHANGED <<now, rows, page>>

Restore(k) ==
    /\ Instruct
    /\ exceptions' = [exceptions EXCEPT ![k] = NoException]
    /\ said' = [said EXCEPT ![k] = NoException]
    /\ UNCHANGED <<now, rows, page>>

\* A poll or an operator writes the row of a server.
WriteRow(s) ==
    /\ Instruct
    /\ \E row \in Rows : rows' = [rows EXCEPT ![s] = row]
    /\ UNCHANGED <<now, exceptions, page, said>>

PolicyTick ==
    /\ Tick
    /\ UNCHANGED <<rows, exceptions, page, said, policyCalls>>

PolicyNext ==
    \/ PolicyLists \/ PolicyShows
    \/ \E k \in Fleet \X Instructed :
         Restore(k) \/ \E expires \in Expiries \cup {Never} : Ignore(k, expires)
    \/ \E s \in Fleet : WriteRow(s)
    \/ PolicyTick

PolicySpec == PolicyInit /\ [][PolicyNext]_policyVars

-----------------------------------------------------------------------------
(* Properties *)

PageShows == page.at = "listed" /\ page'.at = "shown"
Found == page'.active \cup page'.ignored

\* A server drifts exactly when some other version runs on more of the servers that are
\* not disabled than any version does, however names and ties fall; one that is disabled
\* or whose version is unknown never does.
Watched(s) == page.rows[s].status # "disabled" /\ page.rows[s].version # NoVersion
Running(w) == {s \in Fleet : Watched(s) /\ page.rows[s].version = w}
DriftMeansMinority ==
    \A s \in Fleet :
      (\E v \in Found : v.server = s /\ v.check = "version_drift") <=>
        /\ Watched(s)
        /\ \E w \in Versions \ {page.rows[s].version} : \A u \in Versions \ {w} :
             Cardinality(Running(w)) > Cardinality(Running(u))

\* What a page ignores is what the last instruction about the server and the check asks
\* for, whatever was said before it, at the time of the page and not a moment longer;
\* and nothing it found is lost when the exceptions cannot be read.
WaiversStand ==
    page'.ignored =
      {v \in Found : LET last == said[<<v.server, v.check>>] IN
         page'.read /\ last # NoException /\ (last.expires = Never \/ page.time < last.expires)}

\* A page that was worked out from rows, versions and exceptions read one after another
\* tells which servers drift and what is ignored.
PageIsTrue == [][PageShows => DriftMeansMinority /\ WaiversStand]_policyVars
=============================================================================
