------------------------------ MODULE MCServices ------------------------------
(* Six parts of the manager on small instances.  They share the clock and no other *)
(* state, so that a behaviour of all of them is, step by step, one of each: TLC      *)
(* explores them one at a time, chosen by focus.                                    *)
EXTENDS Login, Passkeys, Tokens, Outages, Monitor, Policy, TLC

VARIABLE focus

loginOnly == <<attempts, accounts, req, notices, misses, late, twice, logins>>
passkeysOnly == <<challenges, keys, stamped, finish, redeemed, buried, ceremonies>>
tokensOnly == <<tokens, rotating, clients, windows, reminding, minted, dead, ended, hits,
                tokenCalls>>
outagesOnly == <<servers, panelCert, channels, covered, polls, held, failStreak, restarted, told,
                 unsaid, warned, lost, tries, failed, passes, mishaps>>
monitorOnly == <<active, statusAt, views, entries, repeats, loads>>
policyOnly == <<rows, exceptions, page, said, policyCalls>>

vars == <<now, loginOnly, passkeysOnly, tokensOnly, outagesOnly, monitorOnly, policyOnly,
          focus>>

\* Rows of the policy page: a healthy server, one with every fault at once, one that is
\* disabled and one that does not answer and has told no version.
PolicyRow(status, cred, insecure, cert, version) ==
    [status |-> status, cred |-> cred, insecure |-> insecure, cert |-> cert, version |-> version]
PolicyRows ==
    {PolicyRow("active", "valid", FALSE, Never, 1), PolicyRow("active", "invalid", TRUE, 3, 2),
     PolicyRow("disabled", "valid", FALSE, Never, 1), PolicyRow("unreachable", "valid", FALSE, 1, 0)}

\* A part that is not looked at starts in one state only.
Init ==
    /\ focus \in {"login", "passkeys", "tokens", "outages", "monitor", "policy"}
    /\ LoginInit /\ PasskeysInit /\ TokensInit /\ OutagesInit /\ MonitorInit /\ PolicyInit
    /\ focus # "outages" => panelCert = [s \in Servers |-> CHOOSE d \in CertDates : TRUE]
    /\ focus # "policy" => rows = [s \in Fleet |-> CHOOSE row \in Rows : TRUE]

Next ==
    \/ /\ focus = "login" /\ LoginNext
       /\ UNCHANGED <<passkeysOnly, tokensOnly, outagesOnly, monitorOnly, policyOnly, focus>>
    \/ /\ focus = "passkeys" /\ PasskeysNext
       /\ UNCHANGED <<loginOnly, tokensOnly, outagesOnly, monitorOnly, policyOnly, focus>>
    \/ /\ focus = "tokens" /\ TokensNext
       /\ UNCHANGED <<loginOnly, passkeysOnly, outagesOnly, monitorOnly, policyOnly, focus>>
    \/ /\ focus = "outages" /\ OutagesNext
       /\ UNCHANGED <<loginOnly, passkeysOnly, tokensOnly, monitorOnly, policyOnly, focus>>
    \/ /\ focus = "monitor" /\ MonitorNext
       /\ UNCHANGED <<loginOnly, passkeysOnly, tokensOnly, outagesOnly, policyOnly, focus>>
    \/ /\ focus = "policy" /\ PolicyNext
       /\ UNCHANGED <<loginOnly, passkeysOnly, tokensOnly, outagesOnly, monitorOnly, focus>>

Spec == Init /\ [][Next]_vars

TypeOK ==
    /\ LoginTypeOK /\ PasskeysTypeOK /\ TokensTypeOK /\ OutagesTypeOK /\ MonitorTypeOK
    /\ PolicyTypeOK

\* Requests, finish handlers, clients and views share their names; so do
\* challenges, rotations and sources.
Symmetry == Permutations(Requests) \cup Permutations(Challenges)
=============================================================================
